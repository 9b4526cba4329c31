---------------------------- MODULE MCMessageWriter ----------------------------
(***************************************************************************)
(* Small messages for MessageWriter: every payload from none to a few      *)
(* octets, stored and compressed, plain and armored, with portions shorter *)
(* and longer than the fields in front of a body.                          *)
(***************************************************************************)
EXTENDS MessageWriter

CONSTANTS SizeMax, Powers

MCConfigs == [size : 0..SizeMax, compressed : BOOLEAN, armor : BOOLEAN, power : Powers]
================================================================================
