-------------------------- MODULE CheckpointFile --------------------------
(***************************************************************************)
(* The text of the files of a checkpoint, as acriil_dyn/checkpoint.cpp     *)
(* writes it and acriil_dyn/restart.cpp reads it back.  A file is a        *)
(* sequence of items: the word "alias", a number, or one byte; the bytes   *)
(* of the data are copied raw between a line break that ends the header    *)
(* and one that ends the file.  The readers skip white space with std::ws  *)
(* and decide from where the stream fails and where it ends.               *)
(*                                                                         *)
(* The process may die while a file is written, which leaves the beginning *)
(* of it; a number may then have lost its last digits.                     *)
(***************************************************************************)
EXTENDS Integers, Sequences

CONSTANTS
  ByteBits,       \* bits of a byte
  LineBreak,      \* the byte '\n'
  OtherSpace,     \* the other bytes std::ws skips
  ElementBits,    \* element sizes of a variable, in bits
  NumElements,    \* numbers of elements of a variable
  References,     \* slots an alias may refer to
  Labels,         \* labels of the program
  NumVariables,   \* numbers of variables of a label
  Libraries       \* whether std::ws fails on a stream already at its end: it
                  \* does in the libstdc++ of GCC 11, not in the earlier ones

\* 2^n, how many values n bits have.
Power[n \in 0 .. ByteBits] == IF n = 0 THEN 1 ELSE 2 * Power[n - 1]
ByteValues == 0 .. Power[ByteBits] - 1
Space      == OtherSpace \cup {LineBreak}

ASSUME ByteAssumption == ByteBits \in Nat \ {0} /\ Space \subseteq ByteValues
ASSUME ShapeAssumption ==
  /\ ElementBits \subseteq Nat /\ NumElements \subseteq Nat
  /\ References \subseteq Nat /\ Labels \subseteq Nat /\ NumVariables \subseteq Nat
  /\ Libraries \subseteq BOOLEAN

VARIABLE wsFails      \* which of them the program is linked with

----------------------------------------------------------------------------
(* Items, and what the writers put in a file *)

Word      == [is |-> "word", val |-> 0]
Number(n) == [is |-> "number", val |-> n]
Byte(b)   == [is |-> "byte", val |-> b]
EndLine   == Byte(LineBreak)

\* Bytes that hold so many bits: the loops run for i = 0, 8, ... < total_bits.
\* Of an element of less than a byte memory holds more than is counted here.
BytesFor(bits) == (bits + ByteBits - 1) \div ByteBits

HeaderText(alias, bits, num) ==
  <<Word, Number(alias), EndLine, Number(bits), EndLine, Number(num), EndLine,
    EndLine>>

\* __acriilCheckpointPointer
PointerText(bits, num, data) ==
  HeaderText(0, bits, num) \o [i \in 1 .. BytesFor(bits * num) |-> Byte(data[i])]
    \o <<EndLine>>
\* __acriilCheckpointAlias
AliasText(bits, num, reference) ==
  HeaderText(1, bits, num) \o <<Number(reference), EndLine>>
\* __acriilCheckpointStart
InfoText(label, num) == <<Number(label), EndLine, Number(num), EndLine>>

----------------------------------------------------------------------------
(* The input stream *)

\* Where the next read starts, whether the end was met, whether all reads
\* succeeded, and the numbers read so far.
Opened == [at |-> 1, end |-> FALSE, ok |-> TRUE, nums |-> << >>]

IsSpace(item) == item.is = "byte" /\ item.val \in Space
\* The first position from "at" on that is not white space.
Beyond(text, at) ==
  CHOOSE p \in at .. Len(text) + 1 :
    /\ p = Len(text) + 1 \/ ~IsSpace(text[p])
    /\ \A q \in at .. p - 1 : IsSpace(text[q])

Failed(stream) == [stream EXCEPT !.ok = FALSE]

\* file >> std::ws
Ws(text, stream) ==
  IF ~stream.ok \/ (stream.end /\ wsFails) THEN Failed(stream)
  ELSE LET p == Beyond(text, stream.at)
       IN  [stream EXCEPT !.at = p, !.end = p > Len(text)]

\* file >> std::string, file >> a number: both skip white space first, and
\* both meet the end when what they read is the last item.
Formatted(text, stream, kind) ==
  LET p == Beyond(text, stream.at)
  IN  IF ~stream.ok \/ stream.end \/ p > Len(text) THEN Failed(stream)
      ELSE IF text[p].is # kind THEN Failed(stream)
      ELSE [stream EXCEPT !.at = p + 1, !.end = p = Len(text),
                          !.nums = IF kind = "number"
                                   THEN Append(stream.nums, text[p].val)
                                   ELSE stream.nums]
ReadWord(text, stream)   == Formatted(text, stream, "word")
ReadNumber(text, stream) == Formatted(text, stream, "number")

\* file.read(&c, 1), so many times: a byte is a byte, white space or not.
ReadBytes(text, stream, count) ==
  IF count = 0 THEN stream
  ELSE IF ~stream.ok \/ stream.end \/ stream.at + count - 1 > Len(text)
  THEN Failed(stream)
  ELSE [stream EXCEPT !.at = stream.at + count]

\* "alias", the flag, the two sizes, and "read the separator".
Header(text) ==
  LET flag == Ws(text, ReadNumber(text, ReadWord(text, Opened)))
      bits == Ws(text, ReadNumber(text, flag))
      num  == Ws(text, ReadNumber(text, bits))
  IN  Ws(text, num)

----------------------------------------------------------------------------
(* What the readers make of a file *)

\* The loop of __acriilCheckpointValid over the variable files.
FileValid_NoBody(text) == Header(text).ok
FileValid(text) ==
  LET h    == Header(text)
      body == IF h.nums[1] # 0 THEN ReadNumber(text, h)
              ELSE ReadBytes(text, h, BytesFor(h.nums[2] * h.nums[3]))
  IN  h.ok /\ Ws(text, body).ok /\ Ws(text, body).end

\* The info file: what __acriilCheckpointValid reads first.
InfoStream(text) ==
  Ws(text, ReadNumber(text, Ws(text, ReadNumber(text, Opened))))
InfoValid(text) == InfoStream(text).ok /\ InfoStream(text).nums[1] >= 0

\* __acriilRestartReadPointerFromCheckpoint: whether it gets to its end, and
\* what it leaves in memory.  The last byte is masked: the file's low bits and
\* the memory's high bits.
PointerRead(text, bits, num) ==
  LET h == Header(text)
  IN  /\ h.ok /\ h.nums[1] = 0
      /\ Ws(text, ReadBytes(text, h, BytesFor(bits * num))).ok

LowBits(b, n)       == b % Power[n]
Merged(old, new, n) == (old - LowBits(old, n)) + LowBits(new, n)

PointerData_NoMask(text, bits, num, old) ==
  LET first == Header(text).at
  IN  [i \in DOMAIN old |-> IF (i - 1) * ByteBits < bits * num
                            THEN text[first + i - 1].val ELSE old[i]]
PointerData(text, bits, num, old) ==
  LET first == Header(text).at
  IN  [i \in DOMAIN old |->
         LET left == bits * num - (i - 1) * ByteBits
         IN  IF left >= ByteBits THEN text[first + i - 1].val
             ELSE IF left > 0 THEN Merged(old[i], text[first + i - 1].val, left)
             ELSE old[i]]

\* __acriilRestartReadAliasFromCheckpoint
AliasStream(text) == ReadNumber(text, Header(text))
AliasRead(text) ==
  /\ Header(text).ok /\ Header(text).nums[1] = 1
  /\ Ws(text, AliasStream(text)).ok
AliasReference(text) == AliasStream(text).nums[4]

----------------------------------------------------------------------------
(* One file, from the write to the restart *)

VARIABLES phase,    \* "none", "written", "torn", "valid", "rejected", "restored"
                    \* or "aborted": exit(-1) in a reader
          shape,    \* the variable, as checkpoint and restart both know it
          content,  \* what it held: its bytes, its reference, or a label and a number
          text,     \* the file on disk
          memory,   \* what restart finds in memory, and then leaves there
          cutShort  \* whether the file ends in a number that lost a digit

vars == <<phase, shape, content, text, memory, wsFails, cutShort>>

Shapes == [kind : {"pointer", "alias"}, bits : ElementBits, num : NumElements]
            \cup [kind : {"info"}, bits : {0}, num : {0}]
ByteCount(sh) == BytesFor(sh.bits * sh.num)
BytesOf(sh)   == [1 .. ByteCount(sh) -> ByteValues]

Init ==
  /\ phase = "none" /\ text = << >> /\ content = << >> /\ memory = << >>
  /\ shape \in Shapes /\ wsFails \in Libraries /\ cutShort = FALSE

CheckpointPointer ==
  /\ phase = "none" /\ shape.kind = "pointer"
  /\ \E data \in BytesOf(shape) :
       /\ content' = data
       /\ text' = PointerText(shape.bits, shape.num, data)
  /\ phase' = "written"
  /\ UNCHANGED <<shape, memory, wsFails, cutShort>>

CheckpointAlias ==
  /\ phase = "none" /\ shape.kind = "alias"
  /\ \E reference \in References :
       /\ content' = <<reference>>
       /\ text' = AliasText(shape.bits, shape.num, reference)
  /\ phase' = "written"
  /\ UNCHANGED <<shape, memory, wsFails, cutShort>>

WriteInfo ==
  /\ phase = "none" /\ shape.kind = "info"
  /\ \E label \in Labels, num \in NumVariables :
       /\ content' = <<label, num>>
       /\ text' = InfoText(label, num)
  /\ phase' = "written"
  /\ UNCHANGED <<shape, memory, wsFails, cutShort>>

\* What a death or a full disk leaves of a file: the items before some
\* position, the last of them perhaps with fewer digits.
Prefix(cut)    == SubSeq(text, 1, cut)
Shortened(cut) == [Prefix(cut) EXCEPT ![cut].val = @ \div 10]
Tear ==
  /\ phase = "written"
  /\ \E cut \in 0 .. Len(text) - 1 :
       \/ text' = Prefix(cut) /\ UNCHANGED cutShort
       \/ /\ cut > 0 /\ text[cut].is = "number" /\ text[cut].val > 9
          /\ text' = Shortened(cut) /\ cutShort' = TRUE
  /\ phase' = "torn"
  /\ UNCHANGED <<shape, content, memory, wsFails>>

Validate ==
  /\ phase \in {"written", "torn"}
  /\ phase' = IF IF shape.kind = "info" THEN InfoValid(text) ELSE FileValid(text)
              THEN "valid" ELSE "rejected"
  /\ UNCHANGED <<shape, content, text, memory, wsFails, cutShort>>

RestartReadPointer ==
  /\ phase = "valid" /\ shape.kind = "pointer"
  /\ \E old \in BytesOf(shape) :
       IF PointerRead(text, shape.bits, shape.num)
       THEN /\ phase' = "restored"
            /\ memory' = [before |-> old,
                          after |-> PointerData(text, shape.bits, shape.num, old)]
       ELSE phase' = "aborted" /\ UNCHANGED memory
  /\ UNCHANGED <<shape, content, text, wsFails, cutShort>>

RestartReadAlias ==
  /\ phase = "valid" /\ shape.kind = "alias"
  /\ IF AliasRead(text)
     THEN phase' = "restored" /\ memory' = <<AliasReference(text)>>
     ELSE phase' = "aborted" /\ UNCHANGED memory
  /\ UNCHANGED <<shape, content, text, wsFails, cutShort>>

ReadInfo ==
  /\ phase = "valid" /\ shape.kind = "info"
  /\ phase' = "restored" /\ memory' = InfoStream(text).nums
  /\ UNCHANGED <<shape, content, text, wsFails, cutShort>>

Next == CheckpointPointer \/ CheckpointAlias \/ WriteInfo \/ Tear \/ Validate
          \/ RestartReadPointer \/ RestartReadAlias \/ ReadInfo
Spec == Init /\ [][Next]_vars

----------------------------------------------------------------------------
(* Properties *)

\* The bits of the variable are the checkpoint's, those beyond are memory's.
RestoredBits ==
  \A i \in DOMAIN content :
    LET left == shape.bits * shape.num - (i - 1) * ByteBits
        n    == IF left > ByteBits THEN ByteBits ELSE left
    IN  /\ LowBits(memory.after[i], n) = LowBits(content[i], n)
        /\ memory.after[i] - LowBits(memory.after[i], n)
             = memory.before[i] - LowBits(memory.before[i], n)
SameContent == IF shape.kind = "pointer" THEN RestoredBits ELSE memory = content

WholeText ==
  CASE shape.kind = "pointer" -> PointerText(shape.bits, shape.num, content)
    [] shape.kind = "alias"   -> AliasText(shape.bits, shape.num, content[1])
    [] shape.kind = "info"    -> InfoText(content[1], content[2])

\* What restart reads back is what checkpoint dumped, torn file or not, and a
\* file that was written to its end is not turned down: the line restart.cpp:206
\* skips before the data is the separator of checkpoint.cpp:143, no more.
RoundTrip ==
  /\ phase = "restored" => SameContent
  /\ phase = "rejected" => text # WholeText

\* The same but for what the readers cannot tell: data that starts with white
\* space from the separator before it; with an early library, the last number
\* of a torn file from one with fewer digits; with a late one, a file without
\* data from one torn after its header.
LeadingSpace ==
  shape.kind = "pointer" /\ Len(content) > 0 /\ content[1] \in Space
NoData == shape.kind = "pointer" /\ ByteCount(shape) = 0
Ambiguous ==
  LeadingSpace \/ (cutShort /\ ~wsFails) \/ (NoData /\ wsFails)
RoundTripUnlessAmbiguous == ~Ambiguous => RoundTrip

\* A file that was found valid, torn or not, is read to its end by the function
\* the restart block calls for it.
ValidIsReadable == phase # "aborted"
=============================================================================
