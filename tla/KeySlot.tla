------------------------------- MODULE KeySlot -------------------------------
(***************************************************************************)
(* From a command to the hash slot that cluster_execute() sends it to:     *)
(* get_key_index() and get_cluster_slot() of cluster.c, and crc16() of     *)
(* crc16.c, which have to agree with what the servers of the cluster       *)
(* compute, or every command is redirected and starts a discovery.         *)
(*                                                                         *)
(* A key is a sequence of char, signed and never 0.  Names of commands are *)
(* compared without regard to case, so they are written in upper case      *)
(* here; a name with a '|' is no command of Redis.                         *)
(***************************************************************************)
EXTENDS Integers, Sequences, SequencesExt

CONSTANTS
    Chars,      \* characters of the keys
    MaxKey,     \* bound: length of the keys
    KeyOf       \* the argument of each command that is its first key, or 0

ASSUME KeysAssumption ==
    /\ Chars \subseteq -128 .. 127 \ {0}
    /\ MaxKey \in Nat
    /\ \A cmd \in DOMAIN KeyOf : KeyOf[cmd] \in Nat

NREDIS_CLUSTER_SLOTS == 16384

NoKey == -1

-----------------------------------------------------------------------------
(***************************************************************************)
(* crc16(): CRC16 of a sequence of char, with a table.  A word is the set  *)
(* of its bits that are 1, the least significant one being bit 0, so that  *)
(* a XOR is SymDiff.                                                       *)
(***************************************************************************)

\* The bits of n & 0x00FF and of a uint16_t n; a negative n is in two's
\* complement.
Byte(n) == {i \in 0 .. 7 : (n \div 2 ^ i) % 2 = 1}
Word(n) == {i \in 0 .. 15 : (n \div 2 ^ i) % 2 = 1}

\* The number with these bits.
Number(bits) ==
    LET upTo[n \in 0 .. 16] ==
            IF n = 0 THEN 0
            ELSE (IF n - 1 \in bits THEN 2 ^ (n - 1) ELSE 0) + upTo[n - 1]
    IN  upTo[16]

\* In decimal.
crc16tab ==
    <<     0,  4129,  8258, 12387, 16516, 20645, 24774, 28903,
       33032, 37161, 41290, 45419, 49548, 53677, 57806, 61935,
        4657,   528, 12915,  8786, 21173, 17044, 29431, 25302,
       37689, 33560, 45947, 41818, 54205, 50076, 62463, 58334,
        9314, 13379,  1056,  5121, 25830, 29895, 17572, 21637,
       42346, 46411, 34088, 38153, 58862, 62927, 50604, 54669,
       13907,  9842,  5649,  1584, 30423, 26358, 22165, 18100,
       46939, 42874, 38681, 34616, 63455, 59390, 55197, 51132,
       18628, 22757, 26758, 30887,  2112,  6241, 10242, 14371,
       51660, 55789, 59790, 63919, 35144, 39273, 43274, 47403,
       23285, 19156, 31415, 27286,  6769,  2640, 14899, 10770,
       56317, 52188, 64447, 60318, 39801, 35672, 47931, 43802,
       27814, 31879, 19684, 23749, 11298, 15363,  3168,  7233,
       60846, 64911, 52716, 56781, 44330, 48395, 36200, 40265,
       32407, 28342, 24277, 20212, 15891, 11826,  7761,  3696,
       65439, 61374, 57309, 53244, 48923, 44858, 40793, 36728,
       37256, 33193, 45514, 41451, 53516, 49453, 61774, 57711,
        4224,   161, 12482,  8419, 20484, 16421, 28742, 24679,
       33721, 37784, 41979, 46042, 49981, 54044, 58239, 62302,
         689,  4752,  8947, 13010, 16949, 21012, 25207, 29270,
       46570, 42443, 38312, 34185, 62830, 58703, 54572, 50445,
       13538,  9411,  5280,  1153, 29798, 25671, 21540, 17413,
       42971, 47098, 34713, 38840, 59231, 63358, 50973, 55100,
        9939, 14066,  1681,  5808, 26199, 30326, 17941, 22068,
       55628, 51565, 63758, 59695, 39368, 35305, 47498, 43435,
       22596, 18533, 30726, 26663,  6336,  2273, 14466, 10403,
       52093, 56156, 60223, 64286, 35833, 39896, 43963, 48026,
       19061, 23124, 27191, 31254,  2801,  6864, 10931, 14994,
       64814, 60687, 56684, 52557, 48554, 44427, 40424, 36297,
       31782, 27655, 23652, 19525, 15522, 11395,  7392,  3265,
       61215, 65342, 53085, 57212, 44955, 49082, 36825, 40952,
       28183, 32310, 20053, 24180, 11923, 16050,  3793,  7920 >>

Entry(byte) == Word(crc16tab[Number(byte) + 1])

\* crc << 8 and crc >> 8; crc is a uint16_t.
ShiftedLeft(crc) == {i \in 8 .. 15 : i - 8 \in crc}
ShiftedRight(crc) == {i \in 0 .. 7 : i + 8 \in crc}

\* Mutant of Crc16Step: the sign of the char is lost, not extended.
Crc16StepSigned(crc, char) ==
    SymDiff(ShiftedLeft(crc),
            Entry(SymDiff(ShiftedRight(crc), Byte(IF char < 0 THEN -char ELSE char))))

\* The body of the loop.
Crc16Step(crc, char) ==
    SymDiff(ShiftedLeft(crc), Entry(SymDiff(ShiftedRight(crc), Byte(char))))

Crc16(buf) ==
    LET after[n \in 0 .. Len(buf)] ==
            IF n = 0 THEN {} ELSE Crc16Step(after[n - 1], buf[n])
    IN  after[Len(buf)]

-----------------------------------------------------------------------------
(***************************************************************************)
(* get_cluster_slot(): only the hash tag of a key is hashed, if there is   *)
(* one.                                                                    *)
(***************************************************************************)
Open == 123
Close == 125

\* Index of the first c in key from the index i on, or one past its end.
Search(key, c, i) ==
    LET found == {j \in i .. Len(key) : key[j] = c}
    IN  IF found = {} THEN Len(key) + 1 ELSE CHOOSE j \in found : \A k \in found : j <= k

\* Mutant of Hashed: the '}' is searched from the start of the key.
HashedFromStart(key) ==
    LET s == Search(key, Open, 1)
        e == Search(key, Close, 1)
    IN  IF s > Len(key) \/ e > Len(key) \/ e <= s + 1 THEN key ELSE SubSeq(key, s + 1, e - 1)

\* The part of the key that is hashed.
Hashed(key) ==
    LET s == Search(key, Open, 1)
        e == Search(key, Close, s + 1)
    IN  IF s > Len(key) \/ e > Len(key) \/ e = s + 1 THEN key ELSE SubSeq(key, s + 1, e - 1)

Slot(key) == Number(Crc16(Hashed(key))) % NREDIS_CLUSTER_SLOTS

-----------------------------------------------------------------------------
(***************************************************************************)
(* get_key_index() and the condition of cluster_execute().                 *)
(***************************************************************************)
BANNED_COMMANDS ==
    {"INFO", "MULTI", "EXEC", "SLAVEOF", "REPLICAOF", "CONFIG", "SHUTDOWN", "SCRIPT"}

KEY_INDEX3_COMMANDS == {"EVAL", "EVALSHA", "EVAL_RO", "EVALSHA_RO"}

KeyIndex(cmd) ==
    IF cmd \in BANNED_COMMANDS THEN -1
    ELSE IF cmd \in KEY_INDEX3_COMMANDS THEN 3
    ELSE 1

\* The slot of a command, of which args are the arguments after its name.
CommandSlot(cmd, args) ==
    LET index == KeyIndex(cmd)
    IN  IF index > 0 /\ index <= Len(args) THEN Slot(args[index]) ELSE NoKey

-----------------------------------------------------------------------------
(***************************************************************************)
(* What the specification of Redis Cluster says of keys and slots.         *)
(***************************************************************************)
Keys == SeqOf(Chars, MaxKey)

\* Bits of a byte, the most significant first.
BitsOf(char) == [i \in 1 .. 8 |-> (char \div 2 ^ (8 - i)) % 2]

Bits(buf) == [i \in 1 .. 8 * Len(buf) |-> BitsOf(buf[((i - 1) \div 8) + 1])[((i - 1) % 8) + 1]]

\* Division by x^16 + x^12 + x^5 + 1 of a polynomial given by its bits, with
\* the rest of the division of the bits before them.  Polynomials with
\* coefficients of one bit are the sets of their exponents.
Divisor == {16, 12, 5, 0}

Divide(rest, bit) ==
    LET r == {i + 1 : i \in rest} \union (IF bit = 1 THEN {0} ELSE {})
    IN  IF 15 \in rest THEN SymDiff(r, Divisor) ELSE r

Division(rest, bits) ==
    LET after[n \in 0 .. Len(bits)] ==
            IF n = 0 THEN rest ELSE Divide(after[n - 1], bits[n])
    IN  after[Len(bits)]

Remainder(bits) == Division({}, bits)

Zeros == [i \in 1 .. 16 |-> 0]

Checksum(buf) == Remainder(Bits(buf) \o Zeros)

\* A key has the tag that is between its first '{' and the next '}', if there
\* is something between them.
TagsOf(key) ==
    {SubSeq(key, r[1], r[2]) : r \in {r \in (DOMAIN key) \X (DOMAIN key) :
        /\ r[1] \in 2 .. r[2] /\ r[2] < Len(key)
        /\ key[r[1] - 1] = Open /\ key[r[2] + 1] = Close
        /\ \A i \in 1 .. r[1] - 2 : key[i] # Open
        /\ \A i \in r[1] .. r[2] : key[i] # Close}}

\* What is hashed of a key.
Tag(key) == CHOOSE t \in TagsOf(key) \union {key} : TagsOf(key) # {} => t \in TagsOf(key)

-----------------------------------------------------------------------------
\* What crc16tab is: the remainder of each byte.
ASSUME TableAssumption ==
    \A byte \in SUBSET (0 .. 7) :
        Entry(byte) = Remainder([i \in 1 .. 8 |-> IF 8 - i \in byte THEN 1 ELSE 0] \o Zeros)

\* The check value that the comment in crc16.c gives of the algorithm, 0x31C3;
\* the division is done in two parts.
Digits == [i \in 1 .. 9 |-> 48 + i]

ASSUME CheckAssumption ==
    \A rest \in {Remainder(SubSeq(Bits(Digits), 1, 40))} :
        Division(rest, SubSeq(Bits(Digits), 41, 72) \o Zeros) = Word(12739)

\* The sequences that crc16() is checked with, and those it is wrong about:
\* all the bytes, all the keys, and the one of the comment in crc16.c.
Checked == Keys \union SeqOf(-128 .. 127, 1)

WrongChecksums ==
    {buf \in Checked : Crc16(buf) # Checksum(buf)}
        \union {buf \in {Digits} : Crc16(buf) # Word(12739)}

\* The key of a command that is sent to another slot than that of its tag, or
\* that is sent at all if it has no key.
WrongSlots ==
    {c \in (DOMAIN KeyOf) \X Keys \X (0 .. 3) :
        LET cmd == c[1]
            key == c[2]
            n == c[3]
            args == [i \in 1 .. n |-> IF i = KeyOf[cmd] THEN key ELSE <<Open>>]
        IN  CommandSlot(cmd, args) #
                IF KeyOf[cmd] \in 1 .. n
                THEN Number(Checksum(Tag(key))) % NREDIS_CLUSTER_SLOTS
                ELSE NoKey}
=============================================================================
