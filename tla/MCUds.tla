------------------------------- MODULE MCUds --------------------------------
(* Uds with a tester that downloads and one that asks for other things. *)
EXTENDS Uds

CONSTANTS t1, t2

(* What a second tester may do without its being the loader's business.              *)
MCAsk == {diagnostic_session_control(1), diagnostic_session_control(4), ecu_reset,
          read_data_by_identifier(VIN), read_data_by_identifier(9),
          write_data_by_identifier(VIN, 7), SeedRequest, KeyRequest(0), KeyRequest(5),
          read_memory_by_address(Base), write_memory_by_address(Base, 1)}
MCWrite == {request_transfer(Base, TRUE), write_memory_by_address(Base, 9), request_transfer(Base + 5, FALSE), transfer_block(0, 0)}
MCVin == {diagnostic_session_control(1), write_data_by_identifier(VIN, 7)}
=============================================================================
