--------------------------------- MODULE Codec ---------------------------------
(***************************************************************************)
(* The two wire formats of a task.  A task is the sequence of its fields   *)
(* in the order BinaryCodec writes them; a string is a sequence of bytes.  *)
(* Binary data is a sequence of cells: a length, a number or one byte.     *)
(***************************************************************************)
EXTENDS Integers, SequencesExt

CONSTANTS
  Length16,  \* 2^16, the modulus of a two-byte length
  Word32,    \* 2^32, the modulus of a four-byte number
  NotUTF8,   \* bytes that are no UTF-8 text
  Replacement \* U+FFFD

ASSUME CodecAssumption ==
  /\ {Length16, Word32} \subseteq Nat \ {0, 1}
  /\ NotUTF8 \subseteq Int /\ Replacement \in Int \ NotUTF8

\* The kind of each field: a string or byte slice with a short or a long
\* length, a four-byte number, an eight-byte number.
Layout ==
  <<"string16",  \* ID
    "string16",  \* Queue
    "string16",  \* Name
    "bytes32",   \* Payload
    "int32",     \* Retry
    "int32",     \* MaxRetry
    "int64",     \* TimeoutMs
    "string16",  \* UniqueKey
    "int64",     \* UniqueTTLMs
    "bytes32",   \* LastError
    "string16",  \* CronSpec
    "int64",     \* CreatedAt
    "int32",     \* UniqueScope
    "string16",  \* GroupKey
    "int64">>    \* DeadlineMs

\* UniqueScope and what follows may be missing from an older payload.
FirstOptional == 13

ID(t) == t[1]
Queue(t) == t[2]
Payload(t) == t[4]
UniqueKey(t) == t[8]

IsNumber(kind) == kind \in {"int32", "int64"}

\* Fields of type string; Payload is a byte slice.
Strings == {i \in DOMAIN Layout : ~IsNumber(Layout[i])} \ {4}

\* The tasks that can be marshalled, field by field.
TaskValues ==
  Seq(Int) \X Seq(Int) \X Seq(Int) \X Seq(Int) \X Int \X Int \X Int \X Seq(Int)
    \X Int \X Seq(Int) \X Seq(Int) \X Int \X Int \X Seq(Int) \X Int

\* Cells of one field.  A length and a number keep what their width holds.
Written(kind, v) ==
  CASE kind = "string16" -> <<Len(v) % Length16>> \o v
    [] kind = "bytes32"  -> <<Len(v) % Word32>> \o v
    [] kind = "int32"    -> <<v % Word32>>
    [] kind = "int64"    -> <<v>>

\* BinaryCodec.Marshal.
MarshalBinary(t) ==
  LET cells[i \in 0 .. Len(Layout)] == IF i = 0 THEN <<>> ELSE cells[i - 1] \o Written(Layout[i], t[i])
  IN  cells[Len(Layout)]

\* Mutant: the number is not sign-extended.
Unsigned32(u) == u

\* int(int32(u)).
Signed32(u) == IF 2 * u >= Word32 THEN u - Word32 ELSE u

\* The field at a cell: nothing if the data ends before it.
Read(data, at, kind) ==
  LET n == data[at] IN
  IF at > Len(data) THEN [ok |-> FALSE]
  ELSE IF kind = "int32" THEN [ok |-> TRUE, value |-> Signed32(n), at |-> at + 1]
  ELSE IF kind = "int64" THEN [ok |-> TRUE, value |-> n, at |-> at + 1]
  ELSE IF n < 0 \/ n > Len(data) - at THEN [ok |-> FALSE]
  ELSE [ok |-> TRUE, value |-> SubSeq(data, at + 1, at + n), at |-> at + 1 + n]

\* The next field is read; what is missing at the end has its zero value.
ReadField(data, acc, i) ==
  LET r == Read(data, acc.at, Layout[i]) IN
  IF ~acc.ok THEN acc
  ELSE IF i >= FirstOptional /\ acc.at > Len(data)
  THEN [acc EXCEPT !.task = Append(@, IF IsNumber(Layout[i]) THEN 0 ELSE <<>>)]
  ELSE IF r.ok THEN [ok |-> TRUE, at |-> r.at, task |-> Append(acc.task, r.value)]
  ELSE [acc EXCEPT !.ok = FALSE]

\* BinaryCodec.Unmarshal: [ok, task].
UnmarshalBinary(data) ==
  LET fields[i \in 0 .. Len(Layout)] ==
        IF i = 0 THEN [ok |-> TRUE, at |-> 1, task |-> <<>>] ELSE ReadField(data, fields[i - 1], i)
      all == fields[Len(Layout)]
  IN  [ok |-> all.ok, task |-> all.task]

\* encoding/json writes U+FFFD for every byte of a string that is not UTF-8.
JSONString(v) == [j \in DOMAIN v |-> IF v[j] \in NotUTF8 THEN Replacement ELSE v[j]]

\* JSONCodec.Marshal: numbers have no width, a byte slice is written as base64.
MarshalJSON(t) == [i \in DOMAIN Layout |-> IF i \in Strings THEN JSONString(t[i]) ELSE t[i]]

\* Codec.Marshal of the configured codec.
Marshal(codec, t) ==
  [codec |-> codec, cells |-> IF codec = "binary" THEN MarshalBinary(t) ELSE MarshalJSON(t)]

\* Codec.Unmarshal.  Data of the other codec is refused: JSON begins with a
\* byte that BinaryCodec takes for a length beyond the data, and binary data
\* with a zero byte.
Unmarshal(codec, data) ==
  IF codec # data.codec THEN [ok |-> FALSE, task |-> <<>>]
  ELSE IF codec = "binary" THEN UnmarshalBinary(data.cells)
  ELSE [ok |-> TRUE, task |-> data.cells]

\* Every length and number fits the width it is written with.
Fits(t) ==
  \A i \in DOMAIN Layout :
    CASE Layout[i] = "string16" -> Len(t[i]) < Length16
      [] Layout[i] = "bytes32"  -> Len(t[i]) < Word32
      [] Layout[i] = "int32"    -> -Word32 <= 2 * t[i] /\ 2 * t[i] < Word32
      [] OTHER                  -> TRUE

\* Every string is UTF-8 text.
IsText(t) == \A i \in Strings : \A j \in DOMAIN t[i] : t[i][j] \notin NotUTF8

\* The configured codec gives back what it was given.
Encodable(codec, t) == IF codec = "binary" THEN Fits(t) ELSE IsText(t)

=============================================================================
