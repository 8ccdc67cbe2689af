-------------------------------- MODULE Wire --------------------------------
(***************************************************************************)
(* What the protobuf library (protobufjs and the generated package) does   *)
(* with the fields of a message, as the code of the SDK uses it, and the   *)
(* parts that the classes of transactions and of answers share.            *)
(*                                                                         *)
(* A value stands for all values of its field that the code treats alike:  *)
(*   Null     the JavaScript null or undefined: the field is absent;       *)
(*   0        the default of the type: zero, false, "", the empty list or  *)
(*            bytes, an ID with number 0;                                  *)
(*   1        any other value;                                             *)
(*   Foreign  an ID that carries the checksum of another ledger;           *)
(*   Alias    an account that is named by its alias key;                   *)
(*   Default  the value the constructor puts in (a renewal period, a       *)
(*            record threshold);                                           *)
(*   Operator the account of the client's operator;                        *)
(*   Sharded  an ID none of whose three numbers is zero;                   *)
(*   Composite a key that is not a single public key;                      *)
(*   Beyond   a time whose seconds need more than 32 bits; Wrapped is what *)
(*            Long.toInt() makes of it;                                    *)
(*   WithNext, NoRate   a set of exchange rates with the next one also, or *)
(*            with none.                                                   *)
(***************************************************************************)
EXTENDS Integers, TLC

CONSTANT Null      \* null and undefined

ASSUME NullAssumption == Null \notin Int

Foreign == 2
Operator == 3
Alias == 4
Sharded == 5
Composite == 6
Default == 7
Beyond == 8
Wrapped == 9
WithNext == 10
NoRate == 11

\* A field of a scalar, enumerated or repeated type decodes to the default of
\* its type when it was absent; a message, a wrapper of google.protobuf and a
\* member of a oneof stay absent.
Scalar(v) == IF v = Null THEN 0 ELSE v

\* Timestamp._fromProtobuf() keeps the low 32 bits of the seconds.
Times == {1, Beyond}
Seconds(t) == IF t = Beyond THEN Wrapped ELSE t

\* _toProtobuf() of an ID has no field for the checksum.
Id(v) == IF v = Foreign THEN 1 ELSE v

\* Boolean(w) of a decoded wrapper w: an object is true whatever it holds.
Present(w) == IF w = Null THEN 0 ELSE 1

\* new U2U(n) of a number n: n units, kept as tiny units.
TinyPerU2U == 100000000
NewU2U(n) == IF n = Null THEN Null ELSE n * TinyPerU2U

\* A constructor: the initial values, then the setter of every property of p
\* that is not null.
Constructed(init, p) ==
  [f \in DOMAIN init |->
     IF f \in DOMAIN p /\ p[f] # Null THEN p[f] ELSE init[f]]

\* A constructor that copies the properties it knows.
Copied(fields, p) ==
  [f \in fields |-> IF f \in DOMAIN p THEN p[f] ELSE Null]

\* A status of three values, the first of which means that it does not apply.
ThreeWay(s) == IF s = 0 THEN Null ELSE IF s = 1 THEN 1 ELSE 0
Status(b) == IF b = Null THEN 0 ELSE IF b = 1 THEN 1 ELSE 2

\* The values of the fields of an answer: scalars, messages that may be absent,
\* and messages that the decoder takes for granted.
Message(scalars, optional, needed) ==
  [f \in scalars \cup optional \cup needed |->
     CASE f \in scalars -> {0, 1}
       [] f \in optional -> {Null, 1}
       [] OTHER -> {1}]

\* A message with further fields, whose values are given one by one.
m ++ others ==
  [f \in DOMAIN m \cup DOMAIN others |->
     IF f \in DOMAIN m THEN m[f] ELSE others[f]]

\* The entry of a class in a table of sets that lists only some classes.
Of(table, c) == IF c \in DOMAIN table THEN table[c] ELSE {}

\* The setters of a class: the fields whose setter calls _requireNotFrozen(),
\* those whose setter does not; the field that a setter sets to null next to
\* its own; the value that a clear method writes, and the fields whose clear
\* method is not guarded.
NoEffect == [f \in {} |-> Null]
Guarded(fields) == [guarded |-> fields, open |-> {}, nulls |-> NoEffect,
                    clears |-> NoEffect, openClears |-> {}]

=============================================================================
