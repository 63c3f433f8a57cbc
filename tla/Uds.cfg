\* A download through a proxy, with a loss, a repetition and another tester.
CONSTANTS
  t1 = t1  t2 = t2
  Testers = {t1, t2}
  Loader = t1
  Wishes <- MCAsk
  Base = 4
  Blocks = 2
  SecMethod = 1
  Seeds = {4, 300}
  Effects = {"forward", "redirect", "blockTransfer"}
  Priority = 1
  MaxWishes = 1
  MaxRepeats = 1
  MaxLost = 1
SPECIFICATION FairSpec
INVARIANTS Access DownloadIntact
PROPERTIES DownloadCompletes
CHECK_DEADLOCK FALSE
