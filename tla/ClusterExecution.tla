--------------------------- MODULE ClusterExecution ---------------------------
(***************************************************************************)
(* The commands of a clustered database, with the algorithm that gives     *)
(* each one the slot cluster_execute() looks up.                           *)
(***************************************************************************)
EXTENDS CommandExecution, KeySlot

\* In a clustered database crc16() is what its comment says, "the XMODEM CRC 16
\* algorithm", which servers use: the remainder of the division by
\* x^16 + x^12 + x^5 + 1, also of bytes that are negative as a char.
Crc16IsXmodem == clustered => WrongChecksums = {}

\* In a clustered database cluster_execute() looks for the slot of the key of
\* the command: its first argument, or the one after a script and the number of
\* keys.  Braces may come in any order: keys with the same tag have the same
\* slot, and a key without a tag, or with an empty one, has the slot of all its
\* characters.
SlotOfCommand == clustered => WrongSlots = {}
===============================================================================
