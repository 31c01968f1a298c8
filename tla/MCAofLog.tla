------------------------------ MODULE MCAofLog ------------------------------
(* Two connections, a channel of one record, a buffer of one record and a *)
(* half, so that the channel fills up and a record spills out of the      *)
(* buffer.                                                                *)
EXTENDS AofLog

CONSTANTS p1, p2
============================================================================
