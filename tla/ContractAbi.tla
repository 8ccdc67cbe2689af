---------------------------- MODULE ContractAbi ----------------------------
(***************************************************************************)
(* ContractFunctionParameters and ContractFunctionSelector, which lay out  *)
(* the arguments of a call in words of 32 bytes, and the getters of        *)
(* ContractFunctionResult, which read such words. The integer types of     *)
(* 8, 16, 32, ... 256 bits are treated alike but for the one of 24 bits.   *)
(***************************************************************************)
EXTENDS Wire, Sequences, SequencesExt, FiniteSetsExt

CONSTANTS Arguments,   \* the arguments the application adds
          MaxArguments \* bound: calls of add methods

\* ArgumentType: numbers, and what else takes one word; bytes and strings do
\* not, and neither does any array.
Integers8To256 == {"int", "uint", "int24", "uint24"}
OneWord == Integers8To256 \cup {"bool", "bytes32", "address", "function"}
Unbounded == {"bytes", "string"}

\* What a value of one word is, and bytes or a text.
Number == [n : Int, fits : BOOLEAN]
Bytes == [id : Int, len : Nat]

\* The words that the arguments are laid out in.
Word == ({"num", "lead", "trail"} \X Int) \cup ({"data"} \X Int \X Int)

ASSUME ArgumentsAssumption ==
  \A c \in Arguments :
    /\ c.ty \in OneWord \cup Unbounded /\ c.array \in BOOLEAN
    /\ c.values \in Seq(IF c.ty \in OneWord THEN Number ELSE Bytes)
    /\ IF c.array THEN c.ty \notin {"bool", "function"} ELSE Len(c.values) = 1
ASSUME MaxArgumentsAssumption == MaxArguments \in Nat
ASSUME AbiNullAssumption == Null \notin Seq(Word)

VARIABLES paramTypes,  \* _paramTypes of the selector
          arguments,   \* _arguments: the words of each, and whether dynamic
          added,       \* the calls that returned
          threw,       \* a call threw after the selector had its type
          data,        \* what _build() gave, Null before
          signature    \* the types that the selector hashed, Null without name

abiVars == <<paramTypes, arguments, added, threw, data, signature>>

\* ---- Words

WordBytes == 32
Num(n) == <<"num", n>>              \* a number, or 32 bytes
Leading(n) == <<"lead", n>>         \* 24 bytes and 8 zeros after them
Trailing(n) == <<"trail", n>>       \* 8 zeros and 24 bytes after them
Piece(v, k) == <<"data", v.id, k>>  \* the k-th word of the bytes of v

Words(bytes) == (bytes + WordBytes - 1) \div WordBytes

\* ---- argumentToBytes()

\* A value of one word: a number that does not fit its type is refused by the
\* encoder; a function is an address and a selector, which are put at the end of
\* the word.
Fits(ty, v) == ty \in Integers8To256 => v.fits
StaticToBytes(ty, v) == <<IF ty = "function" THEN Trailing(v.n) ELSE Num(v.n)>>

\* Bytes or text: the length, then the content up to the next whole word.
DynamicToBytes(v) ==
  <<Num(v.len)>> \o [k \in 1..Words(v.len) |-> Piece(v, k)]

ValueToBytes(ty, v) == IF ty \in OneWord THEN StaticToBytes(ty, v)
                       ELSE DynamicToBytes(v)

\* ---- Heads and tails

\* Mutant: the offsets count from the end of the heads.
Placed_FromTail(l, arg, n) ==
  IF arg.dynamic
  THEN [head |-> Append(l.head, Num(WordBytes * Len(l.tail))),
        tail |-> l.tail \o arg.value]
  ELSE [head |-> Append(l.head, arg.value[1]), tail |-> l.tail]

\* One step of the loop of _build() over n arguments, and of the one over the
\* values of an array: a value of one word is put in its place, any other behind
\* all that is there so far and its offset in its place.
Placed(l, arg, n) ==
  IF arg.dynamic
  THEN [head |-> Append(l.head, Num(WordBytes * (n + Len(l.tail)))),
        tail |-> l.tail \o arg.value]
  ELSE [head |-> Append(l.head, arg.value[1]), tail |-> l.tail]

\* What is laid out after the first i arguments, and in the end.
Layout(args) ==
  LET laid[i \in 0..Len(args)] ==
        IF i = 0 THEN [head |-> <<>>, tail |-> <<>>]
        ELSE Placed(laid[i - 1], args[i], Len(args))
  IN  laid
Build(args) ==
  LET l == Layout(args)[Len(args)] IN l.head \o l.tail

\* An array: its length, then its values. The sum over no values throws, and so
\* does the first switch for the types of 24 bits.
ArrayEncodable(ty, values) ==
  values # <<>> /\ ty \notin {"int24", "uint24"}
ArrayToBytes(ty, values) ==
  <<Num(Len(values))>>
    \o Build([i \in DOMAIN values |-> [dynamic |-> ty \in Unbounded,
                                       value |-> ValueToBytes(ty, values[i])]])

\* ---- The add methods

\* What addBytes32(), addAddress() and addFunction() check before anything else.
WellFormed(c) == c.ty \in {"bytes32", "address", "function"} =>
                   \A i \in DOMAIN c.values : c.values[i].fits

Encodable(c) ==
  /\ c.array => ArrayEncodable(c.ty, c.values)
  /\ \A i \in DOMAIN c.values : Fits(c.ty, c.values[i])

\* _addParam() of the parameters: the type goes to the selector first.
AddParam(c) ==
  [dynamic |-> c.array \/ c.ty \in Unbounded,
   value |-> IF c.array THEN ArrayToBytes(c.ty, c.values)
             ELSE ValueToBytes(c.ty, c.values[1])]

\* An add method of a type of one word, of bytes or text, or of an array.
AddArgument(c) ==
  /\ data = Null /\ Len(paramTypes) < MaxArguments
  /\ WellFormed(c)
  /\ paramTypes' = Append(paramTypes, [ty |-> c.ty, array |-> c.array])
  /\ IF Encodable(c)
     THEN /\ arguments' = Append(arguments, AddParam(c))
          /\ added' = Append(added, c)
          /\ UNCHANGED threw
     ELSE /\ threw' = TRUE
          /\ UNCHANGED <<arguments, added>>
  /\ UNCHANGED <<data, signature>>

\* The same for an argument that is refused at once.
RefuseArgument(c) ==
  /\ data = Null
  /\ ~WellFormed(c)
  /\ UNCHANGED abiVars

\* The selector hashes the name with the types it has; a constructor has no
\* name.
BuildParameters(named) ==
  /\ data = Null
  /\ data' = Build(arguments)
  /\ signature' = IF named THEN paramTypes ELSE Null
  /\ UNCHANGED <<paramTypes, arguments, added, threw>>

AbiInit ==
  /\ paramTypes = <<>> /\ arguments = <<>> /\ added = <<>>
  /\ threw = FALSE /\ data = Null /\ signature = Null

AbiNext ==
  \/ \E c \in Arguments : AddArgument(c)
  \/ \E c \in Arguments : RefuseArgument(c)
  \/ \E named \in BOOLEAN : BuildParameters(named)

AbiSpec == AbiInit /\ [][AbiNext]_abiVars

\* ---- Reading words

\* The word at a byte offset.
At(words, offset) == words[offset \div WordBytes + 1]

\* getInt8() ... getUint256(), getBool(), getBytes32(), getAddress(): the word
\* of the index.
GetWord(words, index) == At(words, WordBytes * index)

\* getBytes() and getString(): the offset in the word of the index, the length
\* there, and as many bytes after it.
BytesAt(words, offset) ==
  LET len == At(words, offset)[2] IN
  [len |-> len,
   words |-> SubSeq(words, offset \div WordBytes + 2,
                    offset \div WordBytes + 1 + Words(len))]
GetBytes(words, index) == BytesAt(words, GetWord(words, index)[2])

\* getResult() for an array, as the decoder of the ABI reads it.
GetArray(ty, words, index) ==
  LET base == GetWord(words, index)[2]
      n == At(words, base)[2]
      rest == SubSeq(words, base \div WordBytes + 2, Len(words))
  IN  [i \in 1..n |-> IF ty \in OneWord THEN GetWord(rest, i - 1)
                      ELSE GetBytes(rest, i - 1)]

\* ---- Properties

\* What a contract has to find for a value, by the rules of the ABI.
Expected(ty, v) ==
  IF ty = "function" THEN Leading(v.n)
  ELSE IF ty \in OneWord THEN Num(v.n)
  ELSE [len |-> v.len, words |-> [k \in 1..Words(v.len) |-> Piece(v, k)]]

\* What it finds: that, but for a function, whose word is filled from the other
\* end.
Found(ty, v) == IF ty = "function" THEN Trailing(v.n) ELSE Expected(ty, v)

\* A contract that reads its arguments by the rules of the ABI finds, at every
\* index, the value that the application added there, whatever mix of words,
\* bytes, texts and arrays surrounds it. The exception is a function: the word of
\* the index has its 24 bytes at the end, and the ABI reads them from the front.
ArgumentsReadBack ==
  data # Null =>
    \A i \in DOMAIN added :
      LET c == added[i] IN
      IF c.array
      THEN GetArray(c.ty, data, i - 1)
             = [j \in DOMAIN c.values |-> Found(c.ty, c.values[j])]
      ELSE Found(c.ty, c.values[1])
             = IF c.ty \in OneWord THEN GetWord(data, i - 1)
               ELSE GetBytes(data, i - 1)

\* The signature that selects the function has the types of the arguments that
\* follow it, unless an add method threw half-way (an empty array, an array of
\* 24-bit numbers, a number that does not fit) and the object was used on: its
\* type is then in the signature without an argument.
SignatureMatches ==
  signature # Null =>
    \/ threw /\ Len(added) < Len(signature)
    \/ /\ Len(signature) = Len(added)
       /\ \A i \in DOMAIN added :
            signature[i] = [ty |-> added[i].ty, array |-> added[i].array]

\* The data of a contract call selects the function that its arguments are of,
\* and the contract reads each argument as it was added, but for functions.
CallFaithful == ArgumentsReadBack /\ SignatureMatches
=============================================================================
