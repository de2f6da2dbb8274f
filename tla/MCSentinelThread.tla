--------------------------- MODULE MCSentinelThread ---------------------------
(***************************************************************************)
(* A small instance of SentinelThread for TLC.                             *)
(***************************************************************************)
EXTENDS SentinelThread

CONSTANTS s1, s2

TwoSentinels == <<s1, s2>>
=============================================================================
