-------------------------- MODULE ProcessImageProofs --------------------------
(***************************************************************************)
(* For every program, page size and retry policy: a capture that has an    *)
(* image has the only one that the process describes, the pointer it       *)
(* follows is the one that the program's loader published, a refusal says  *)
(* what was wrong, and an image that its own header describes is reported  *)
(* as it was laid out.                                                     *)
(***************************************************************************)
EXTENDS LoadedImage, SequenceTheorems, TLAPS

Segments == {"phdr", "interp", "dynamic"}

(* The vector proves the class and describes a table.                        *)
Vectored ==
  /\ class \in Classes
  /\ program.auxiliary["AT_PHENT"] = <<HeaderBytes[class]>>
  /\ Named
  /\ Phdr \in Words(class) /\ Count \in Nat \ {0}

VectorOK ==
  headers # <<>> \/ image # NoImage \/ pc \notin {"start", "refused"} => Vectored

(* What a header in the table was copied as, and a byte of the interpreter.  *)
Copied(i) ==
  IF program.memory[TableAt(class, i)].cell = "header" THEN program.memory[TableAt(class, i)]
  ELSE OtherHeader

Records == {OtherHeader} \cup {program.memory[a] : a \in DOMAIN program.memory}
Letters == {Byte(a) : a \in DOMAIN program.memory}

HeadersOK ==
  /\ headers \in Seq(Records)
  /\ headers # <<>> => Len(headers) <= Count
  /\ \A i \in DOMAIN headers : /\ TableAt(class, i) \in DOMAIN program.memory
                               /\ headers[i] = Copied(i)

(* The image is the one that the table describes.                            *)
Depicted ==
  /\ \A kind \in Segments : Unique(class, kind)
  /\ \A kind \in Segments : {Sole(class, kind).address, Sole(class, kind).file,
                             Sole(class, kind).memory} \subseteq Nat
  /\ {image.bias, image.interpreter, image.dynamic, image.size, image.extent} \subseteq Nat
  /\ image.bias + Sole(class, "phdr").address = Phdr
  /\ image.interpreter = image.bias + Sole(class, "interp").address
  /\ image.dynamic = image.bias + Sole(class, "dynamic").address
  /\ image.interpreter < WordLimit[class] /\ image.dynamic < WordLimit[class]
  /\ image.size = Sole(class, "interp").file /\ image.size # 0
  /\ image.extent = Sole(class, "dynamic").memory

ImageOK == image # NoImage => Depicted

Steps == {"start", "headers", "interpreter", "prepared", "entries", "namespaces", "done", "refused"}

(* The bytes copied are those of the interpreter, and a path once complete.  *)
BytesOK ==
  /\ bytes \in Seq(Letters)
  /\ pc = "headers" => bytes = <<>>
  /\ pc \in {"interpreter"} \cup Proven => image # NoImage
  /\ image # NoImage => Len(bytes) <= image.size
  /\ \A i \in DOMAIN bytes : /\ image.interpreter + i - 1 \in DOMAIN program.memory
                             /\ bytes[i] = Byte(image.interpreter + i - 1)
  /\ pc \in Proven => Len(bytes) = image.size /\ PathFault = NoFault

(* The entries read so far precede the terminator, and the one that is       *)
(* DT_DEBUG had been filled.                                                 *)
Passed(i) == /\ SegmentAt(class, image.bias, i) \in DOMAIN program.memory
             /\ ~Tagged(class, image.bias, i, "null")

Found(d) == /\ SegmentAt(class, image.bias, d) \in program.debug
            /\ \A i \in 0 .. at - 1 : Tagged(class, image.bias, i, "debug") <=> i = d

EntriesOK ==
  pc = "entries" =>
    /\ at <= Entries
    /\ \A i \in 0 .. at - 1 : Passed(i)
    /\ pointer = None => \A i \in 0 .. at - 1 : ~Tagged(class, image.bias, i, "debug")
    /\ pointer # None => /\ started /\ pointer = Rendezvous
                         /\ \E d \in 0 .. at - 1 : Found(d)

IInv ==
  /\ program \in Programs
  /\ TypeOK /\ VectorOK /\ HeadersOK /\ ImageOK /\ BytesOK /\ EntriesOK /\ PointerPublished

-----------------------------------------------------------------------------
(* What the assumptions say of the program inspected.                        *)
LEMMA ProgramWords ==
  ASSUME program \in Programs
  PROVE  /\ Vector["AT_PHDR"] \in Seq(Nat) /\ Vector["AT_PHNUM"] \in Seq(Nat)
         /\ Vector["AT_PHENT"] \in Seq(Nat)
         /\ DOMAIN program.memory \subseteq 0 .. HostLimit - 1 /\ HostLimit \in Nat
         /\ program.debug \subseteq DOMAIN program.memory
  BY WidthsPositive, ProgramsUnsigned, DebugUnfilled DEF Types, Vector

LEMMA OnlyValue ==
  ASSUME NEW s \in Seq(Nat), Len(s) <= 1, s # <<>>
  PROVE  Len(s) = 1 /\ s[1] \in Nat /\ s = <<s[1]>>
  OBVIOUS

LEMMA InitIInv == ASSUME Init PROVE IInv
<1>1. attempt \in 0 .. Attempts - 1 /\ at \in Nat /\ pointer = None
  BY WidthsPositive DEF Init
<1>2. class \in Classes \cup {Unproven} /\ image = NoImage /\ refusal = NoFault /\ pc = "start"
  BY DEF Init
<1>3. TypeOK
  BY <1>1, <1>2 DEF Init, TypeOK
<1>4. VectorOK /\ HeadersOK /\ ImageOK
  BY DEF Init, VectorOK, HeadersOK, ImageOK
<1>5. BytesOK
  BY DEF Init, BytesOK, Proven
<1>6. EntriesOK /\ PointerPublished
  BY DEF Init, EntriesOK, PointerPublished
<1> QED
  BY <1>3, <1>4, <1>5, <1>6 DEF Init, IInv

(* An image stays as it is until another is proven.                          *)
LEMMA ImageStays ==
  ASSUME IInv, UNCHANGED <<program, class, image>>
  PROVE  /\ program' \in Programs
         /\ ImageOK'
         /\ Vectored => Vectored'
<1>1. program' \in Programs
  BY DEF IInv
<1>2. \A kind \in Segments : Unique(class, kind)' = Unique(class, kind) /\ Sole(class, kind)' = Sole(class, kind)
  BY DEF Unique, Sole, InTable, TableAt, Indices
<1>3. Phdr' = Phdr
  BY DEF Phdr, Vector
<1>4. Depicted => Depicted'
  BY <1>2, <1>3, Zenon DEF Depicted, Segments
<1>5. ImageOK'
  BY <1>4 DEF IInv, ImageOK
<1>6. Vectored => Vectored'
  BY DEF Vectored, Named, Phdr, Count, Vector, Words
<1> QED
  BY <1>1, <1>5, <1>6

(* What the process and its loader do, and any step that copies nothing.     *)
LEMMA PartsStay ==
  ASSUME IInv, UNCHANGED <<program, class, headers, image, bytes>>
  PROVE  /\ program' \in Programs
         /\ HeadersOK' /\ ImageOK'
         /\ Vectored => Vectored'
<1>1. Records' = Records
  BY DEF Records
<1>2. HeadersOK'
  BY <1>1 DEF IInv, HeadersOK, Copied, TableAt, Count, Vector
<1> QED
  BY <1>2, ImageStays

LEMMA BytesStay ==
  ASSUME IInv, UNCHANGED <<program, class, headers, image, bytes>>,
         pc' # "headers" \/ pc = "headers",
         pc' \in {"interpreter"} \cup Proven => image # NoImage,
         pc' \in Proven => Len(bytes) = image.size /\ PathFault = NoFault
  PROVE  BytesOK'
<1>1. Letters' = Letters /\ PathFault' = PathFault
  BY DEF Letters, Byte, PathFault
<1>2. \A a \in Nat : Byte(a)' = Byte(a)
  BY DEF Byte
<1>3. \A i \in DOMAIN bytes' :
        image'.interpreter + i - 1 \in DOMAIN program'.memory /\ bytes'[i] = Byte(image.interpreter + i - 1)'
  BY DEF IInv, BytesOK, Byte
<1> QED
  BY <1>1, <1>3 DEF IInv, BytesOK, Proven

(* What was found in the dynamic segment is a fact about the program.        *)
LEMMA OneDebugStays ==
  ASSUME UNCHANGED <<program, class, image>>
  PROVE  /\ OneDebug(class, image.bias)' = OneDebug(class, image.bias)
         /\ \A i \in Int : Passed(i)' = Passed(i)
         /\ \A i \in Int : SegmentAt(class, image.bias, i)' = SegmentAt(class, image.bias, i)
         /\ \A i \in Int : Tagged(class, image.bias, i, "debug")' = Tagged(class, image.bias, i, "debug")
         /\ Entries' = Entries
  BY DEF OneDebug, Passed, Tagged, SegmentAt, Sole, InTable, TableAt, Indices, Entries

LEMMA EntriesStay ==
  ASSUME IInv, UNCHANGED <<program, class, image, at, pointer, pc>>, started => started'
  PROVE  EntriesOK' /\ PointerPublished'
<1>1. PointerPublished'
  BY OneDebugStays DEF IInv, PointerPublished
<1>2. \A d \in 0 .. at - 1 : Found(d) => Found(d)'
  BY OneDebugStays DEF Found
<1>3. EntriesOK'
  BY <1>2, OneDebugStays DEF IInv, EntriesOK
<1> QED
  BY <1>1, <1>3

LEMMA PublishKeeps == ASSUME IInv, Publish PROVE IInv'
<1>1. TypeOK'
  BY DEF IInv, Publish, TypeOK, Words
<1>2. VectorOK' /\ BytesOK'
  BY PartsStay, BytesStay DEF IInv, Publish, VectorOK, BytesOK
<1>3. EntriesOK' /\ PointerPublished'
  BY EntriesStay DEF IInv, Publish
<1> QED
  BY <1>1, <1>2, <1>3, PartsStay DEF IInv, Publish

LEMMA ExitKeeps == ASSUME IInv, Exit PROVE IInv'
<1>1. TypeOK'
  BY DEF IInv, Exit, TypeOK, Words
<1>2. VectorOK' /\ BytesOK'
  BY PartsStay, BytesStay DEF IInv, Exit, VectorOK, BytesOK
<1>3. EntriesOK' /\ PointerPublished'
  BY EntriesStay DEF IInv, Exit
<1> QED
  BY <1>1, <1>2, <1>3, PartsStay DEF IInv, Exit

(* An error leaves everything but where the capture stands.                  *)
LEMMA RefuseKeeps == ASSUME IInv, NEW fault, Refuse(fault), fault # NoFault PROVE IInv'
<1>1. TypeOK'
  BY DEF IInv, Refuse, TypeOK, Words, target
<1>2. UNCHANGED <<program, class, headers, image, bytes>> /\ pc' = "refused"
  BY DEF Refuse, target
<1>3. VectorOK' /\ BytesOK'
  BY <1>2, PartsStay, BytesStay DEF IInv, VectorOK, Proven
<1>4. EntriesOK' /\ PointerPublished'
  BY <1>2 DEF EntriesOK, PointerPublished
<1> QED
  BY <1>1, <1>2, <1>3, <1>4, PartsStay DEF IInv

-----------------------------------------------------------------------------
(* The table.                                                                *)
LEMMA DescribeKeeps == ASSUME IInv, Describe PROVE IInv'
<1> USE DEF Vector
<1>1. CASE VectorFault(class) # NoFault
  BY <1>1, RefuseKeeps DEF Describe
<1>2. CASE VectorFault(class) = NoFault
  <2>1. /\ pc = "start" /\ pc' = "headers" /\ class' = ProvenClass
        /\ headers' = <<>> /\ image' = NoImage /\ bytes' = <<>>
        /\ UNCHANGED <<target, route, attempt, at, pointer, refusal, early>>
    BY <1>2 DEF Describe
  <2>2. /\ ClassFault = NoFault /\ ValueFault("AT_PHDR") = NoFault /\ ValueFault("AT_PHNUM") = NoFault
        /\ Vector["AT_PHNUM"][1] # 0
    BY <1>2 DEF VectorFault, NoFault
  <2>3. /\ Len(Vector["AT_PHENT"]) <= 1 /\ Vector["AT_PHENT"] # <<>>
        /\ \E c \in Classes : HeaderBytes[c] = Vector["AT_PHENT"][1]
    BY <2>2, ProgramWords DEF IInv, ClassFault, NoFault
  <2>4. ProvenClass \in Classes /\ HeaderBytes[ProvenClass] = Vector["AT_PHENT"][1]
    BY <2>3 DEF ProvenClass
  <2>5. Vector["AT_PHENT"] = <<HeaderBytes[ProvenClass]>>
    BY <2>3, <2>4, ProgramWords, OnlyValue DEF IInv
  <2>6. \A t \in {"AT_PHDR", "AT_PHNUM"} :
          Len(Vector[t]) = 1 /\ Vector[t][1] \in Words(ProvenClass)
    <3>1. SUFFICES ASSUME NEW t \in {"AT_PHDR", "AT_PHNUM"}
                   PROVE  Len(Vector[t]) = 1 /\ Vector[t][1] \in Words(ProvenClass)
      OBVIOUS
    <3>2. Len(Vector[t]) <= 1 /\ Vector[t] # <<>> /\ ~(Vector[t][1] >= WordLimit[ProvenClass])
      BY <2>2 DEF ValueFault, NoFault
    <3>3. Vector[t] \in Seq(Nat) /\ WordLimit[ProvenClass] \in Nat
      BY <2>4, ProgramWords, WidthsPositive DEF IInv
    <3>4. Len(Vector[t]) = 1 /\ Vector[t][1] \in Nat
      BY <3>2, <3>3, OnlyValue
    <3> QED
      BY <3>2, <3>3, <3>4 DEF Words
  <2>7. Vectored'
    BY <2>1, <2>2, <2>4, <2>5, <2>6, ProgramWords DEF IInv, Vectored, Named, Phdr, Count, target, Words
  <2>8. TypeOK'
    BY <2>1, <2>4 DEF IInv, TypeOK, target, NoFault
  <2>9. VectorOK' /\ HeadersOK' /\ ImageOK' /\ BytesOK'
    BY <2>1, <2>7 DEF VectorOK, HeadersOK, ImageOK, BytesOK, Proven
  <2>10. EntriesOK' /\ PointerPublished'
    BY <2>1 DEF EntriesOK, PointerPublished
  <2> QED
    BY <2>1, <2>8, <2>9, <2>10 DEF IInv, target
<1> QED
  BY <1>1, <1>2

(* An entry of the table read where it lies.                                 *)
LEMMA CopyHeaderKeeps == ASSUME IInv, CopyHeader PROVE IInv'
<1>0. HeaderAddress \in Nat /\ WordLimit[class] \in Nat /\ Vectored
  <2>1. Vectored /\ headers \in Seq(Records)
    BY DEF IInv, CopyHeader, VectorOK, HeadersOK
  <2>2. HeaderBytes[class] \in Nat /\ WordLimit[class] \in Nat
    BY <2>1, WidthsPositive DEF Vectored
  <2> QED
    BY <2>1, <2>2 DEF HeaderAddress, Stride, Vectored, Words
<1>1. CASE HeaderAddress >= WordLimit[class]
  BY <1>0, <1>1, RefuseKeeps DEF CopyHeader, NoFault
<1>2. CASE HeaderAddress < WordLimit[class] /\ ~Mapped(HeaderAddress)
  BY <1>0, <1>2, RefuseKeeps DEF CopyHeader, NoFault
<1>3. CASE HeaderAddress < WordLimit[class] /\ Mapped(HeaderAddress)
  <2>1. /\ pc = "headers" /\ Len(headers) < Count
        /\ headers' = Append(headers, Header(HeaderAddress))
        /\ UNCHANGED <<target, route, class, pc, attempt, image, bytes, at, pointer, refusal, early>>
    BY <1>0, <1>3 DEF CopyHeader
  <2>2. Vectored /\ headers \in Seq(Records)
    BY <2>1 DEF IInv, VectorOK, HeadersOK
  <2>3. TypeOK'
    BY <2>1 DEF IInv, TypeOK, target, Words
  <2>4. Header(HeaderAddress) \in Records
    BY <1>3 DEF Header, Holding, Mapped, Records
  <2>5. HeaderAddress = TableAt(class, Len(headers) + 1)
    BY <2>2 DEF HeaderAddress, TableAt, Phdr, Vector, Stride
  <2>6. TableAt(class, Len(headers) + 1) \in DOMAIN program.memory
    BY <1>3, <2>5 DEF Mapped
  <2>7. Header(HeaderAddress) = Copied(Len(headers) + 1)
    BY <1>3, <2>5 DEF Header, Holding, Mapped, Copied
  <2>8. HeadersOK'
    <3>1. headers' \in Seq(Records) /\ Len(headers') = Len(headers) + 1
      BY <2>1, <2>2, <2>4
    <3>2. ASSUME NEW i \in DOMAIN headers' PROVE TableAt(class, i) \in DOMAIN program.memory /\ headers'[i] = Copied(i)
      BY <2>1, <2>2, <2>4, <2>6, <2>7 DEF IInv, HeadersOK
    <3>3. Records' = Records /\ Count' = Count
      BY <2>1 DEF Records, target, Count, Vector
    <3>4. \A i \in Nat : TableAt(class, i)' = TableAt(class, i) /\ Copied(i)' = Copied(i)
      BY <2>1 DEF TableAt, Copied, target
    <3>5. Count \in Nat
      BY <2>2 DEF Vectored
    <3> QED
      BY <2>1, <2>2, <3>1, <3>2, <3>3, <3>4, <3>5 DEF HeadersOK, target
  <2>9. VectorOK' /\ ImageOK' /\ program' \in Programs
    BY <1>0, <2>1, ImageStays DEF VectorOK, target
  <2>10. Letters' = Letters /\ \A a \in Nat : Byte(a)' = Byte(a)
    BY <2>1 DEF Letters, Byte, target
  <2>11. BytesOK'
    BY <2>1, <2>10 DEF IInv, BytesOK, target, Proven, Byte
  <2>12. EntriesOK' /\ PointerPublished'
    BY <2>1 DEF EntriesOK, PointerPublished
  <2> QED
    BY <2>3, <2>8, <2>9, <2>11, <2>12 DEF IInv
<1> QED
  BY <1>0, <1>1, <1>2, <1>3 DEF CopyHeader

-----------------------------------------------------------------------------
(* A whole copy of the table tells its kinds apart as the table does.        *)
LEMMA TableCopied ==
  ASSUME IInv, pc = "headers", Len(headers) = Count
  PROVE  /\ Vectored /\ DOMAIN headers = Indices /\ Indices \subseteq Nat
         /\ \A kind \in Segments : \A i \in Indices : headers[i].kind = kind <=> InTable(class, i, kind)
         /\ \A kind \in Segments : \A i \in Indices :
              InTable(class, i, kind) => headers[i] = program.memory[TableAt(class, i)]
<1>1. Vectored /\ headers \in Seq(Records)
  BY DEF IInv, VectorOK, HeadersOK
<1>2. DOMAIN headers = Indices /\ Indices \subseteq Nat
  BY <1>1 DEF Indices, Count, Vector, Vectored
<1>3. ASSUME NEW i \in Indices
      PROVE  TableAt(class, i) \in DOMAIN program.memory /\ headers[i] = Copied(i)
  BY <1>2 DEF IInv, HeadersOK
<1>4. ASSUME NEW kind \in Segments, NEW i \in Indices
      PROVE  headers[i].kind = kind <=> InTable(class, i, kind)
  <2>1. CASE program.memory[TableAt(class, i)].cell = "header"
    BY <1>3, <2>1 DEF Copied, InTable
  <2>2. CASE program.memory[TableAt(class, i)].cell # "header"
    BY <1>3, <2>2 DEF Copied, InTable, OtherHeader, Segments
  <2> QED
    BY <2>1, <2>2
<1>5. ASSUME NEW kind \in Segments, NEW i \in Indices, InTable(class, i, kind)
      PROVE  headers[i] = program.memory[TableAt(class, i)]
  BY <1>3, <1>5 DEF Copied, InTable
<1> QED
  BY <1>1, <1>2, <1>4, <1>5

(* A kind with one header in the copy has one in the table, the same.        *)
LEMMA SoleCopied ==
  ASSUME IInv, pc = "headers", Len(headers) = Count, NEW kind \in Segments,
         Of(kind) # {}, \A i \in Of(kind) : ~Second(i)
  PROVE  /\ Unique(class, kind)
         /\ The(kind) = Sole(class, kind)
         /\ {Sole(class, kind).address, Sole(class, kind).file, Sole(class, kind).memory} \subseteq Nat
<1>1. PICK i \in Of(kind) : TRUE
  OBVIOUS
<1>2. i \in Indices /\ InTable(class, i, kind)
  BY <1>1, TableCopied DEF Of
<1>3. ASSUME NEW j \in Indices, InTable(class, j, kind) PROVE j = i
  <2>1. j \in Of(kind)
    BY <1>3, TableCopied DEF Of
  <2>2. CASE j < i
    BY <1>1, <2>1, <2>2, TableCopied DEF Of, Second, Indices
  <2>3. CASE i < j
    BY <1>1, <2>1, <2>3, TableCopied DEF Of, Second, Indices
  <2> QED
    BY <1>2, <2>2, <2>3, TableCopied
<1>4. Unique(class, kind)
  BY <1>2, <1>3 DEF Unique
<1>5. Of(kind) = {i}
  BY <1>1, <1>3, TableCopied DEF Of
<1>6. (CHOOSE k \in Of(kind) : TRUE) = i
  BY <1>5
<1>7. (CHOOSE k \in Indices : InTable(class, k, kind)) = i
  BY <1>2, <1>3
<1>8. The(kind) = program.memory[TableAt(class, i)] /\ Sole(class, kind) = program.memory[TableAt(class, i)]
  BY <1>2, <1>6, <1>7, TableCopied DEF The, Sole
<1>9. {Sole(class, kind).address, Sole(class, kind).file, Sole(class, kind).memory} \subseteq Nat
  BY <1>2, <1>8, ProgramsUnsigned DEF IInv, InTable
<1> QED
  BY <1>4, <1>8, <1>9

LEMMA ProveSegmentsKeeps == ASSUME IInv, ProveSegments PROVE IInv'
<1>1. CASE SegmentsFault # NoFault
  BY <1>1, RefuseKeeps DEF ProveSegments
<1>2. CASE SegmentsFault = NoFault
  <2> DEFINE bias == Phdr - The("phdr").address
  <2>1. /\ pc = "headers" /\ pc' = "interpreter" /\ Len(headers) = Count
        /\ image' = [bias        |-> bias,
                     interpreter |-> Translate(bias, The("interp").address),
                     size        |-> The("interp").file,
                     dynamic     |-> Translate(bias, The("dynamic").address),
                     extent      |-> The("dynamic").memory]
        /\ UNCHANGED <<target, route, class, attempt, headers, bytes, at, pointer, refusal, early>>
    BY <1>2 DEF ProveSegments
  <2>2. /\ \A i \in DOMAIN headers : ~Ends(i)
        /\ \A kind \in Segments : Of(kind) # {}
        /\ GeometryFault = NoFault
    BY <1>2 DEF SegmentsFault, LoopFault, NoFault, Segments
  <2>3. \A kind \in Segments : \A i \in Of(kind) : ~Second(i)
    BY <2>2 DEF Of, Ends, Segments
  <2>4. /\ \A kind \in Segments : Unique(class, kind) /\ The(kind) = Sole(class, kind)
        /\ \A kind \in Segments :
             {Sole(class, kind).address, Sole(class, kind).file, Sole(class, kind).memory} \subseteq Nat
    BY <2>1, <2>2, <2>3, SoleCopied
  <2>5. Vectored /\ Phdr \in Nat /\ WordLimit[class] \in Nat
    BY <2>1, TableCopied, WidthsPositive DEF Vectored, Words
  <2>6. The("phdr").address <= Phdr
    <3>1. PICK i \in Of("phdr") : The("phdr") = headers[i]
      BY <2>2 DEF The, Segments
    <3>2. i \in DOMAIN headers /\ headers[i].kind = "phdr" /\ ~Ends(i)
      BY <2>2, <3>1 DEF Of
    <3>3. ~(headers[i].address > Phdr)
      BY <3>2 DEF Ends
    <3> QED
      BY <2>4, <2>5, <3>1, <3>3 DEF Segments
  <2>7. bias \in Nat /\ bias + Sole(class, "phdr").address = Phdr /\ bias < WordLimit[class]
    BY <2>4, <2>5, <2>6 DEF Segments, Vectored, Words
  <2>8. /\ The("interp").file # 0
        /\ \A kind \in {"interp", "dynamic"} : Translate(bias, The(kind).address) # None
    BY <2>2 DEF GeometryFault, NoFault
  <2>9. \A kind \in {"interp", "dynamic"} :
          /\ Translate(bias, The(kind).address) = bias + Sole(class, kind).address
          /\ bias + Sole(class, kind).address < WordLimit[class]
    BY <2>4, <2>8 DEF Translate, CheckedAdd, Segments
  <2>10. /\ image'.bias = bias /\ image'.interpreter = bias + Sole(class, "interp").address
         /\ image'.dynamic = bias + Sole(class, "dynamic").address
         /\ image'.size = Sole(class, "interp").file /\ image'.extent = Sole(class, "dynamic").memory
    BY <2>1, <2>4, <2>9 DEF Segments
  <2> HIDE DEF bias
  <2>11. UNCHANGED <<program, class>>
    BY <2>1 DEF target
  <2>12. \A kind \in Segments : Unique(class, kind)' = Unique(class, kind) /\ Sole(class, kind)' = Sole(class, kind)
    BY <2>11 DEF Unique, Sole, InTable, TableAt, Indices
  <2>13. Phdr' = Phdr /\ Phdr < WordLimit[class]
    BY <2>5, <2>11 DEF Phdr, Vector, Vectored, Words
  <2>14. {image'.bias, image'.interpreter, image'.dynamic, image'.size, image'.extent} \subseteq Nat
    BY <2>4, <2>7, <2>10 DEF Segments
  <2>15. Depicted'
    BY <2>4, <2>7, <2>8, <2>9, <2>10, <2>11, <2>12, <2>13, <2>14 DEF Depicted, Segments
  <2>16. Vectored'
    BY <2>5, <2>11 DEF Vectored, Named, Phdr, Count, Vector, Words
  <2>17. HeadersOK'
    BY <2>1, <2>11 DEF IInv, HeadersOK, Copied, TableAt, Count, Vector, Records
  <2>18. bytes' = <<>> /\ bytes = <<>>
    BY <2>1 DEF IInv, BytesOK
  <2>19. image' # NoImage
    BY <2>7, <2>10 DEF NoImage, None
  <2>20. BytesOK'
    BY <2>1, <2>14, <2>18, <2>19 DEF BytesOK, Proven
  <2>21. {image'.bias, image'.interpreter, image'.dynamic} \subseteq Words(class)
    <3>1. \A w \in Nat : w < WordLimit[class] => w \in Words(class)
      BY <2>5 DEF Words
    <3> QED
      BY <2>7, <2>9, <2>10, <2>14, <3>1
  <2>22. TypeOK'
    BY <2>1, <2>5, <2>11, <2>14, <2>18, <2>21 DEF IInv, TypeOK, target, Vectored, Words
  <2>23. EntriesOK' /\ PointerPublished'
    BY <2>1 DEF EntriesOK, PointerPublished
  <2>24. VectorOK' /\ ImageOK' /\ program' \in Programs
    BY <2>11, <2>15, <2>16 DEF IInv, VectorOK, ImageOK
  <2> QED
    BY <2>17, <2>20, <2>22, <2>23, <2>24 DEF IInv
<1> QED
  BY <1>1, <1>2 DEF ProveSegments

-----------------------------------------------------------------------------
(* The interpreter.                                                          *)
LEMMA LeftOnPage ==
  ASSUME NEW a \in Nat
  PROVE  PageBytes - (a % PageBytes) \in Nat \ {0}
<1>1. PageBytes \in Nat \ {0}
  BY WidthsPositive
<1>2. \A m \in Nat, n \in Nat \ {0} : m % n \in 0 .. n - 1
  OBVIOUS
<1>3. a % PageBytes \in 0 .. PageBytes - 1
  BY <1>1, <1>2
<1> QED
  BY <1>1, <1>3

LEMMA Joined ==
  ASSUME NEW S, NEW s \in Seq(S), NEW n \in Nat, NEW f \in [1 .. n -> S]
  PROVE  /\ s \o f \in Seq(S) /\ Len(s \o f) = Len(s) + n
         /\ \A i \in 1 .. Len(s) : (s \o f)[i] = s[i]
         /\ \A i \in Len(s) + 1 .. Len(s) + n : (s \o f)[i] = f[i - Len(s)]
<1>1. f \in Seq(S) /\ Len(f) = n
  OBVIOUS
<1> QED
  BY <1>1

LEMMA CopyInterpreterKeeps == ASSUME IInv, CopyInterpreter PROVE IInv'
<1>1. CASE Refuse("AddressOverflow") \/ Refuse("Read")
  BY <1>1, RefuseKeeps DEF NoFault
<1>2. CASE ~(Refuse("AddressOverflow") \/ Refuse("Read"))
  <2> DEFINE fresh == [i \in 1 .. Requested |-> Byte(NextByte + i - 1)]
  <2>1. /\ pc = "interpreter" /\ Len(bytes) < image.size
        /\ \A a \in Chunk : Mapped(a)
        /\ bytes' = bytes \o fresh
        /\ UNCHANGED <<target, route, class, pc, attempt, headers, image, at, pointer, refusal, early>>
    BY <1>2 DEF CopyInterpreter
  <2>2. image # NoImage /\ Depicted /\ bytes \in Seq(Letters)
    BY <2>1 DEF IInv, BytesOK, ImageOK
  <2>3. image.interpreter \in Nat /\ image.size \in Nat /\ Len(bytes) \in Nat /\ NextByte \in Nat
    <3>1. image.interpreter \in Nat /\ image.size \in Nat
      BY <2>2 DEF Depicted
    <3>2. Len(bytes) \in Nat
      BY <2>2
    <3> QED
      BY <3>1, <3>2 DEF NextByte
  <2>4. Requested \in Nat /\ Requested <= image.size - Len(bytes)
    <3>1. PageBytes - (NextByte % PageBytes) \in Nat
      BY <2>3, LeftOnPage
    <3> QED
      BY <2>1, <2>3, <3>1 DEF Requested
  <2>5. \A i \in 1 .. Requested : NextByte + i - 1 \in Chunk /\ NextByte + i - 1 \in DOMAIN program.memory
    <3>1. \A m, n \in Nat : \A i \in 1 .. n : m + i - 1 \in m .. m + n - 1
      OBVIOUS
    <3>2. \A i \in 1 .. Requested : NextByte + i - 1 \in Chunk
      BY <2>3, <2>4, <3>1 DEF Chunk
    <3> QED
      BY <2>1, <3>2 DEF Mapped
  <2>6. fresh \in [1 .. Requested -> Letters]
    BY <2>5 DEF Letters
  <2> HIDE DEF fresh
  <2>7. /\ bytes' \in Seq(Letters) /\ Len(bytes') = Len(bytes) + Requested
        /\ \A i \in 1 .. Len(bytes) : bytes'[i] = bytes[i]
        /\ \A i \in Len(bytes) + 1 .. Len(bytes) + Requested : bytes'[i] = fresh[i - Len(bytes)]
    BY <2>1, <2>2, <2>4, <2>6, Joined
  <2>8. ASSUME NEW i \in DOMAIN bytes'
        PROVE  image.interpreter + i - 1 \in DOMAIN program.memory /\ bytes'[i] = Byte(image.interpreter + i - 1)
    <3>1. i \in 1 .. Len(bytes) + Requested
      BY <2>7
    <3>2. CASE i <= Len(bytes)
      BY <2>2, <2>3, <2>7, <3>1, <3>2 DEF IInv, BytesOK
    <3>3. CASE i > Len(bytes)
      <4>1. i - Len(bytes) \in 1 .. Requested /\ NextByte + (i - Len(bytes)) - 1 = image.interpreter + i - 1
        BY <2>3, <2>4, <3>1, <3>3 DEF NextByte
      <4>2. bytes'[i] = fresh[i - Len(bytes)]
        BY <2>3, <2>4, <2>7, <3>1, <3>3
      <4>3. fresh[i - Len(bytes)] = Byte(NextByte + (i - Len(bytes)) - 1)
        BY <4>1 DEF fresh
      <4> QED
        BY <2>5, <4>1, <4>2, <4>3
    <3> QED
      BY <2>3, <3>1, <3>2, <3>3
  <2>9. Letters' = Letters /\ \A a \in Nat : Byte(a)' = Byte(a)
    BY <2>1 DEF Letters, Byte, target
  <2>10. \A i \in DOMAIN bytes' :
           image'.interpreter + i - 1 \in DOMAIN program'.memory /\ bytes'[i] = Byte(image.interpreter + i - 1)'
    BY <2>1, <2>8 DEF Byte, target
  <2>11. BytesOK'
    BY <2>1, <2>2, <2>3, <2>4, <2>7, <2>9, <2>10 DEF BytesOK, target, Proven
  <2>12. Len(bytes') <= image.size
    BY <2>3, <2>4, <2>7
  <2>13. TypeOK'
    BY <2>1, <2>12 DEF IInv, TypeOK, target, Words
  <2>14. program' \in Programs /\ ImageOK' /\ VectorOK'
    BY <2>1, ImageStays DEF IInv, VectorOK, target
  <2>15. HeadersOK'
    BY <2>1 DEF IInv, HeadersOK, Copied, TableAt, Count, Vector, Records, target
  <2>16. EntriesOK' /\ PointerPublished'
    BY <2>1 DEF EntriesOK, PointerPublished
  <2> QED
    BY <2>11, <2>13, <2>14, <2>15, <2>16 DEF IInv
<1> QED
  BY <1>1, <1>2

LEMMA FinishImageKeeps == ASSUME IInv, FinishImage PROVE IInv'
<1>1. CASE pc' = "refused"
  <2>1. PICK fault \in {PathFault, "UnsupportedLoader"} : fault # NoFault /\ Refuse(fault)
    BY <1>1 DEF FinishImage, NoFault
  <2> QED
    BY <2>1, RefuseKeeps
<1>2. CASE pc' # "refused"
  <2>1. /\ pc = "interpreter" /\ pc' = "prepared" /\ Len(bytes) >= image.size /\ PathFault = NoFault
        /\ UNCHANGED <<target, route, class, attempt, headers, image, bytes, at, pointer, refusal, early>>
    BY <1>2 DEF FinishImage, Refuse
  <2>2. image # NoImage /\ Len(bytes) = image.size /\ class \in Classes
    BY <2>1 DEF IInv, BytesOK, TypeOK
  <2>3. TypeOK'
    BY <2>1, <2>2 DEF IInv, TypeOK, target, Words
  <2>4. UNCHANGED <<program, class, headers, image, bytes>>
    BY <2>1 DEF target
  <2>5. BytesOK'
    BY <2>1, <2>2, <2>4, BytesStay
  <2>6. VectorOK' /\ EntriesOK' /\ PointerPublished'
    BY <2>1, <2>4, PartsStay DEF IInv, VectorOK, EntriesOK, PointerPublished
  <2> QED
    BY <2>3, <2>4, <2>5, <2>6, PartsStay DEF IInv
<1> QED
  BY <1>1, <1>2

-----------------------------------------------------------------------------
(* The dynamic segment.                                                      *)
LEMMA EntriesNatural ==
  ASSUME IInv, image # NoImage, Vectored
  PROVE  Entries \in Nat /\ EntryBytes[class] \in Nat \ {0} /\ WordLimit[class] \in Nat
<1>1. EntryBytes[class] \in Nat \ {0} /\ WordLimit[class] \in Nat
  BY WidthsPositive DEF Vectored
<1>2. image.extent \in Nat
  BY DEF IInv, ImageOK, Depicted
<1>3. \A m \in Nat, n \in Nat \ {0} : m \div n \in Nat
  OBVIOUS
<1> QED
  BY <1>1, <1>2, <1>3 DEF Entries

LEMMA OpenTableKeeps == ASSUME IInv, OpenTable PROVE IInv'
<1>1. CASE TableFault # NoFault
  BY <1>1, RefuseKeeps DEF OpenTable
<1>2. CASE TableFault = NoFault
  <2>1. /\ pc = "prepared" /\ pc' = "entries" /\ at' = 0 /\ pointer' = None /\ early' = ~started
        /\ UNCHANGED <<target, route, class, attempt, headers, image, bytes, refusal>>
    BY <1>2 DEF OpenTable
  <2>2. UNCHANGED <<program, class, headers, image, bytes>>
    BY <2>1 DEF target
  <2>3. image # NoImage /\ Vectored /\ PathFault = NoFault /\ Len(bytes) = image.size
    BY <2>1 DEF IInv, BytesOK, VectorOK, Proven
  <2>4. early' \in BOOLEAN
    BY <2>1 DEF IInv, TypeOK
  <2>5. TypeOK'
    BY <2>1, <2>3, <2>4 DEF IInv, TypeOK, target, Words, Vectored
  <2>6. BytesOK'
    BY <2>1, <2>2, <2>3, BytesStay
  <2>7. VectorOK' /\ PointerPublished'
    BY <2>1, <2>2, <2>3, PartsStay DEF VectorOK, PointerPublished
  <2>8. Entries' = Entries /\ Entries >= 0
    BY <2>2, <2>3, EntriesNatural DEF Entries
  <2>9. EntriesOK'
    BY <2>1, <2>8 DEF EntriesOK
  <2> QED
    BY <2>2, <2>5, <2>6, <2>7, <2>9, PartsStay DEF IInv
<1> QED
  BY <1>1, <1>2 DEF OpenTable

(* What an entry says is what the linker wrote, or what the loader did.      *)
LEMMA EntryRead ==
  ASSUME IInv, NEW i \in Nat, NEW entry, SegmentAt(class, image.bias, i) \in DOMAIN program.memory,
         alive, entry = Entry(SegmentAt(class, image.bias, i)), entry.tag # "debug" \/ entry.value # 0
  PROVE  /\ entry.tag = "null" => Tagged(class, image.bias, i, "null")
         /\ entry.tag # "null" => Passed(i)
         /\ entry.tag # "debug" => ~Tagged(class, image.bias, i, "debug")
         /\ entry.tag = "debug" => /\ started /\ entry.value = Rendezvous
                                   /\ SegmentAt(class, image.bias, i) \in program.debug
                                   /\ Tagged(class, image.bias, i, "debug")
<1> DEFINE a == SegmentAt(class, image.bias, i)
<1> HIDE DEF a
<1>1. /\ a \in DOMAIN program.memory /\ entry = Entry(a) /\ program \in Programs
      /\ \A tag \in {"null", "debug"} : Tagged(class, image.bias, i, tag) <=>
           program.memory[a].cell = "entry" /\ program.memory[a].tag = tag
      /\ Passed(i) <=> ~Tagged(class, image.bias, i, "null")
  BY DEF a, IInv, Tagged, Passed
<1>2. CASE program.memory[a].cell # "entry"
  <2>1. entry.tag = "other"
    BY <1>1, <1>2 DEF Entry, Holding
  <2> QED
    BY <1>1, <1>2, <2>1 DEF a
<1>3. CASE program.memory[a].cell = "entry" /\ a \in program.debug /\ started
  <2>1. entry.tag = "debug" /\ entry.value = Rendezvous
    BY <1>1, <1>3 DEF Entry, Holding, Mapped
  <2>2. program.memory[a].tag = "debug"
    BY <1>1, <1>3, DebugUnfilled
  <2> QED
    BY <1>1, <1>3, <2>1, <2>2 DEF a
<1>4. CASE program.memory[a].cell = "entry" /\ ~(a \in program.debug /\ started)
  <2>1. entry.tag = program.memory[a].tag /\ entry.value = program.memory[a].value
    BY <1>1, <1>4 DEF Entry, Holding, Mapped
  <2>2. entry.tag # "debug"
    BY <1>1, <1>4, <2>1, DebugUnfilled
  <2> QED
    BY <1>1, <1>4, <2>1, <2>2 DEF a
<1> QED
  BY <1>2, <1>3, <1>4

LEMMA ReadEntryKeeps == ASSUME IInv, ReadEntry PROVE IInv'
<1>1. CASE EntryFault # NoFault
  BY <1>1, RefuseKeeps DEF ReadEntry
<1>2. CASE EntryFault = NoFault
  <2>1. /\ pc = "entries"
        /\ UNCHANGED <<target, route, class, attempt, headers, image, bytes, refusal, early>>
        /\ Lifted.tag = "null" => pc' = "namespaces" /\ UNCHANGED <<at, pointer>>
        /\ Lifted.tag # "null" => /\ at' = at + 1 /\ pc' = pc
                                  /\ pointer' = IF Lifted.tag = "debug" THEN Lifted.value ELSE pointer
    BY <1>2 DEF ReadEntry
  <2>2. /\ at # Entries /\ ~(EntryAddress >= WordLimit[class]) /\ Mapped(EntryAddress)
        /\ Lifted.tag = "null" => pointer # None
        /\ Lifted.tag = "debug" => Lifted.value # 0 /\ pointer = None
    BY <1>2 DEF EntryFault, InsertFault, NoFault
  <2>3. /\ image # NoImage /\ Vectored /\ Depicted /\ PathFault = NoFault /\ Len(bytes) = image.size
        /\ at \in Nat /\ image.bias \in Nat /\ Sole(class, "dynamic").address \in Nat
    BY <2>1 DEF IInv, BytesOK, VectorOK, ImageOK, Depicted, Proven, TypeOK, Segments
  <2>4. EntryAddress = SegmentAt(class, image.bias, at) /\ EntryAddress \in Nat
    BY <2>3, EntriesNatural DEF EntryAddress, SegmentAt, Depicted
  <2>5. SegmentAt(class, image.bias, at) \in DOMAIN program.memory /\ alive
    BY <2>2, <2>4 DEF Mapped
  <2>6. /\ Lifted.tag = "null" => Tagged(class, image.bias, at, "null")
        /\ Lifted.tag # "null" => Passed(at)
        /\ Lifted.tag # "debug" => ~Tagged(class, image.bias, at, "debug")
        /\ Lifted.tag = "debug" => /\ started /\ Lifted.value = Rendezvous
                                   /\ SegmentAt(class, image.bias, at) \in program.debug
                                   /\ Tagged(class, image.bias, at, "debug")
    BY <2>2, <2>3, <2>4, <2>5, EntryRead DEF Lifted
  <2>7. /\ at <= Entries
        /\ \A i \in 0 .. at - 1 : Passed(i)
        /\ pointer = None => \A i \in 0 .. at - 1 : ~Tagged(class, image.bias, i, "debug")
        /\ pointer # None => /\ started /\ pointer = Rendezvous
                             /\ \E d \in 0 .. at - 1 : Found(d)
    BY <2>1 DEF IInv, EntriesOK
  <2>8. at < Entries /\ Entries \in Nat
    BY <2>2, <2>3, <2>7, EntriesNatural
  <2>9. UNCHANGED <<program, class, headers, image, bytes, started>>
    BY <2>1 DEF target
  <2>10. Rendezvous \in Nat \ {0}
    BY WidthsPositive
  <2>11. CASE Lifted.tag = "null"
    <3>1. pc' = "namespaces" /\ UNCHANGED <<at, pointer>> /\ started /\ pointer = Rendezvous
      BY <2>1, <2>2, <2>7, <2>11
    <3>2. PICK d \in 0 .. at - 1 : Found(d)
      BY <2>2, <2>7, <2>11
    <3>3. OneDebug(class, image.bias)
      <4>1. at \in 0 .. Sole(class, "dynamic").memory \div EntryBytes[class] - 1
        BY <2>3, <2>8 DEF Entries, Depicted
      <4>2. SegmentAt(class, image.bias, at) < WordLimit[class]
        BY <2>2, <2>3, <2>4, EntriesNatural
      <4> QED
        BY <2>6, <2>7, <2>11, <3>2, <4>1, <4>2 DEF OneDebug, Found, Passed
    <3>4. PointerPublished'
      BY <2>9, <3>1, <3>3, OneDebugStays DEF PointerPublished
    <3>5. EntriesOK'
      BY <3>1 DEF EntriesOK
    <3>6. TypeOK'
      BY <2>1, <2>3, <3>1 DEF IInv, TypeOK, target, Words, Vectored
    <3>7. BytesOK' /\ VectorOK'
      BY <2>3, <2>9, <3>1, BytesStay, PartsStay DEF VectorOK
    <3> QED
      BY <2>9, <3>4, <3>5, <3>6, <3>7, PartsStay DEF IInv
  <2>12. CASE Lifted.tag # "null"
    <3>1. /\ at' = at + 1 /\ pc' = "entries"
          /\ pointer' = IF Lifted.tag = "debug" THEN Lifted.value ELSE pointer
      BY <2>1, <2>12
    <3>2. \A i \in 0 .. at' - 1 : i \in 0 .. at - 1 \/ i = at
      BY <2>3, <3>1
    <3>3. \A i \in 0 .. at' - 1 : Passed(i)
      BY <2>6, <2>7, <2>12, <3>2
    <3>4. pointer' = None => \A i \in 0 .. at' - 1 : ~Tagged(class, image.bias, i, "debug")
      BY <2>6, <2>7, <2>10, <3>1, <3>2 DEF None
    <3>5. ASSUME pointer' # None
          PROVE  /\ started /\ pointer' = Rendezvous
                 /\ \E d \in 0 .. at' - 1 :
                      /\ SegmentAt(class, image.bias, d) \in program.debug
                      /\ \A i \in 0 .. at' - 1 : Tagged(class, image.bias, i, "debug") <=> i = d
      <4>1. CASE Lifted.tag = "debug"
        <5>1. at \in 0 .. at' - 1
          BY <2>3, <3>1
        <5>2. \A i \in 0 .. at' - 1 : Tagged(class, image.bias, i, "debug") <=> i = at
          BY <2>2, <2>3, <2>6, <2>7, <3>2, <4>1
        <5> QED
          BY <2>6, <3>1, <4>1, <5>1, <5>2
      <4>2. CASE Lifted.tag # "debug"
        <5>1. PICK d \in 0 .. at - 1 : Found(d)
          BY <2>7, <3>1, <3>5, <4>2
        <5>2. d \in 0 .. at' - 1 /\ d # at
          BY <2>3, <3>1
        <5>3. \A i \in 0 .. at' - 1 : Tagged(class, image.bias, i, "debug") <=> i = d
          BY <2>6, <3>2, <4>2, <5>1, <5>2 DEF Found
        <5> QED
          BY <2>7, <3>1, <3>5, <4>2, <5>1, <5>2, <5>3 DEF Found
      <4> QED
        BY <4>1, <4>2
    <3>6. at' <= Entries
      BY <2>3, <2>8, <3>1
    <3>7. EntriesOK'
      BY <2>3, <2>9, <3>1, <3>3, <3>4, <3>5, <3>6, OneDebugStays DEF EntriesOK, Found
    <3>8. PointerPublished'
      BY <3>1 DEF PointerPublished
    <3>9. pointer' \in Nat \cup {None} /\ at' \in Nat
      BY <2>3, <2>6, <2>10, <3>1 DEF IInv, TypeOK
    <3>10. TypeOK'
      BY <2>1, <2>3, <3>1, <3>9 DEF IInv, TypeOK, target, Words, Vectored
    <3>11. BytesOK' /\ VectorOK'
      BY <2>3, <2>9, <3>1, BytesStay, PartsStay DEF VectorOK
    <3> QED
      BY <2>9, <3>7, <3>8, <3>10, <3>11, PartsStay DEF IInv
  <2> QED
    BY <2>11, <2>12
<1> QED
  BY <1>1, <1>2 DEF ReadEntry

-----------------------------------------------------------------------------
(* Retries.                                                                  *)
LEMMA ReadNamespacesKeeps == ASSUME IInv, ReadNamespaces PROVE IInv'
<1>1. CASE Refuse("Namespaces")
  BY <1>1, RefuseKeeps DEF NoFault
<1>2. CASE ~Refuse("Namespaces")
  <2>1. /\ pc = "namespaces" /\ pc' = "done"
        /\ UNCHANGED <<target, route, class, attempt, headers, image, bytes, at, pointer, refusal, early>>
    BY <1>2 DEF ReadNamespaces
  <2>2. /\ UNCHANGED <<program, class, headers, image, bytes, started, pointer>>
        /\ image # NoImage /\ Vectored /\ PathFault = NoFault /\ Len(bytes) = image.size
    BY <2>1 DEF IInv, BytesOK, VectorOK, Proven, target
  <2>3. TypeOK'
    BY <2>1, <2>2 DEF IInv, TypeOK, target, Words, Vectored
  <2>4. BytesOK' /\ VectorOK'
    BY <2>1, <2>2, BytesStay, PartsStay DEF VectorOK
  <2>5. EntriesOK' /\ PointerPublished'
    BY <2>1, <2>2, OneDebugStays DEF IInv, EntriesOK, PointerPublished
  <2> QED
    BY <2>2, <2>3, <2>4, <2>5, PartsStay DEF IInv
<1> QED
  BY <1>1, <1>2

LEMMA RetryNamespacesKeeps == ASSUME IInv, RetryNamespaces PROVE IInv'
<1>1. CASE Refuse("Busy")
  BY <1>1, RefuseKeeps DEF NoFault
<1>2. CASE ~Refuse("Busy")
  <2>1. /\ pc = "namespaces" /\ pc' \in {"start", "prepared"}
        /\ attempt' = attempt + 1 /\ attempt' < Attempts
        /\ UNCHANGED <<target, route, class, headers, image, bytes, at, pointer, refusal, early>>
    BY <1>2 DEF RetryNamespaces, Again, Counted
  <2>2. /\ UNCHANGED <<program, class, headers, image, bytes>>
        /\ image # NoImage /\ Vectored /\ PathFault = NoFault /\ Len(bytes) = image.size
    BY <2>1 DEF IInv, BytesOK, VectorOK, Proven, target
  <2>3. attempt' \in 0 .. Attempts - 1
    BY <2>1, WidthsPositive DEF IInv, TypeOK
  <2>4. TypeOK'
    BY <2>1, <2>2, <2>3 DEF IInv, TypeOK, target, Words, Vectored
  <2>5. BytesOK' /\ VectorOK'
    BY <2>1, <2>2, BytesStay, PartsStay DEF VectorOK
  <2>6. EntriesOK' /\ PointerPublished'
    BY <2>1 DEF EntriesOK, PointerPublished
  <2> QED
    BY <2>2, <2>4, <2>5, <2>6, PartsStay DEF IInv
<1> QED
  BY <1>1, <1>2

LEMMA NextKeeps == ASSUME IInv, [Next]_vars PROVE IInv'
<1>1. CASE UNCHANGED vars
  <2>1. UNCHANGED <<program, class, headers, image, bytes, at, pointer, pc, started>>
    BY <1>1 DEF vars, target
  <2>2. TypeOK'
    BY <1>1 DEF IInv, TypeOK, vars, target, Words
  <2>3. BytesOK' /\ VectorOK'
    BY <2>1, BytesStay, PartsStay DEF IInv, BytesOK, VectorOK
  <2>4. EntriesOK' /\ PointerPublished'
    BY <2>1, EntriesStay
  <2> QED
    BY <2>1, <2>2, <2>3, <2>4, PartsStay DEF IInv
<1>2. CASE Next
  BY <1>2, PublishKeeps, ExitKeeps, DescribeKeeps, CopyHeaderKeeps, ProveSegmentsKeeps, CopyInterpreterKeeps,
     FinishImageKeeps, OpenTableKeeps, ReadEntryKeeps, ReadNamespacesKeeps, RetryNamespacesKeeps
  DEF Next, Capture
<1> QED
  BY <1>1, <1>2

(* What the invariant says of a complete image.                              *)
LEMMA ImpliesImageProven == ASSUME IInv PROVE ImageProven
<1> SUFFICES ASSUME pc \in Proven PROVE ImageProven
  BY DEF ImageProven
<1>1. /\ Vectored /\ Depicted /\ Len(bytes) = image.size /\ PathFault = NoFault /\ bytes \in Seq(Letters)
      /\ \A i \in DOMAIN bytes : /\ image.interpreter + i - 1 \in DOMAIN program.memory
                                 /\ bytes[i] = Byte(image.interpreter + i - 1)
  BY DEF IInv, BytesOK, VectorOK, ImageOK, Proven
<1>2. program.auxiliary["AT_PHDR"] = <<Phdr>>
  BY <1>1, ProgramWords, OnlyValue DEF IInv, Vectored, Named, Phdr, Vector
<1>3. /\ Unique(class, "phdr") /\ Unique(class, "interp") /\ Unique(class, "dynamic")
      /\ Phdr = image.bias + Sole(class, "phdr").address /\ image.bias >= 0
      /\ Len(bytes) = Sole(class, "interp").file
  BY <1>1 DEF Depicted, Segments
<1>4. Placed(class, "interp", image.interpreter) /\ Placed(class, "dynamic", image.dynamic)
  <2>1. \A kind \in Segments : Sole(class, kind).address \in Nat
    BY <1>1 DEF Depicted
  <2> QED
    BY <1>1, <2>1 DEF Depicted, Placed, Segments, Phdr, Vector
<1>5. \A i \in DOMAIN bytes : bytes[i] = "NUL" <=> i = Len(bytes)
  <2>1. bytes[Len(bytes)] = "NUL" /\ \A i \in 1 .. Len(bytes) - 1 : bytes[i] # "NUL"
    BY <1>1 DEF PathFault, NoFault
  <2> QED
    BY <1>1, <2>1
<1> QED
  BY <1>1, <1>2, <1>3, <1>4, <1>5 DEF ImageProven, Vectored

(* Types: the addresses of an image are words of its class, whatever the     *)
(* widths, the page size and the programs are.                               *)
THEOREM CaptureTypes == CaptureSpec => []TypeOK
<1>1. IInv => TypeOK
  BY DEF IInv
<1> QED
  BY <1>1, InitIInv, NextKeeps, PTL DEF CaptureSpec

(* A capture that has an image has the only bias, interpreter and dynamic    *)
(* segment that the process describes, and the whole interpreter path.       *)
THEOREM CaptureProvesImage == CaptureSpec => []ImageProven
  BY InitIInv, NextKeeps, ImpliesImageProven, PTL DEF CaptureSpec

(* The pointer followed is the one the loader published, in the only         *)
(* DT_DEBUG entry before the terminator, however late the loader runs.       *)
THEOREM CaptureFollowsPublished == CaptureSpec => []PointerPublished
<1>1. IInv => PointerPublished
  BY DEF IInv
<1> QED
  BY <1>1, InitIInv, NextKeeps, PTL DEF CaptureSpec

-----------------------------------------------------------------------------
(* Refusals.                                                                 *)

(* An attempt that finds its loader idle opened the table before it ran.     *)
EarlyOK == pc = "entries" /\ ~started => early

Explained == IInv /\ EarlyOK /\ RefusalsExplained

(* A refusal is excused when the process is gone or was never proper.        *)
Excused(fault) ==
  \/ ~alive
  \/ fault \in {"Namespaces", "Busy"}
  \/ fault = "NullDebugEntry" /\ early
  \/ \A c \in Classes : class \in {Unproven, c} => ~Proper(c)

LEMMA RefuseExplains ==
  ASSUME Explained, NEW fault, Refuse(fault), Excused(fault)
  PROVE  EarlyOK' /\ RefusalsExplained'
<1>1. \A c \in Classes : Proper(c)' = Proper(c)
  BY DEF Refuse, target, Proper, Unique, Sole, InTable, TableAt, Indices, OneDebug, SegmentAt, Tagged
<1>2. RefusalsExplained'
  BY <1>1 DEF Refuse, target, RefusalsExplained, Excused
<1> QED
  BY <1>2 DEF Refuse, EarlyOK

(* The places of a proper program.                                           *)
Bias(c)  == Phdr - Sole(c, "phdr").address
First(c) == Bias(c) + Sole(c, "interp").address
Final(c) == First(c) + Sole(c, "interp").file - 1

LEMMA ProperHas ==
  ASSUME program \in Programs, NEW c \in Classes, Proper(c)
  PROVE  /\ \A t \in Types : Len(Vector[t]) = 1 /\ Vector[t][1] \in Nat /\ Vector[t][1] < WordLimit[c]
         /\ Vector["AT_PHENT"][1] = HeaderBytes[c] /\ Count \in Nat \ {0}
         /\ \A kind \in Segments : Unique(c, kind) /\ Sole(c, kind).file <= Sole(c, kind).memory
         /\ Bias(c) >= 0 /\ First(c) <= Final(c) /\ First(c) < WordLimit[c]
         /\ Bias(c) + Sole(c, "dynamic").address < WordLimit[c]
         /\ Sole(c, "dynamic").memory % EntryBytes[c] = 0
         /\ OneDebug(c, Bias(c))
<1>1. \A t \in Types : Len(Vector[t]) = 1 /\ Vector[t][1] \in Nat /\ Vector[t][1] < WordLimit[c]
  BY ProgramsUnsigned, OnlyValue DEF Proper, Vector
<1>2. Count \in Nat \ {0}
  BY <1>1 DEF Proper, Indices, Count, Vector, Types
<1>3. Vector["AT_PHENT"][1] = HeaderBytes[c]
  BY DEF Proper, Vector
<1>4. \A kind \in Segments : Unique(c, kind) /\ Sole(c, kind).file <= Sole(c, kind).memory
  BY DEF Proper, Segments
<1>5. /\ Bias(c) >= 0 /\ First(c) <= Final(c) /\ First(c) < WordLimit[c]
      /\ Bias(c) + Sole(c, "dynamic").address < WordLimit[c]
      /\ Sole(c, "dynamic").memory % EntryBytes[c] = 0
      /\ OneDebug(c, Bias(c))
  BY DEF Proper, Bias, First, Final, Phdr, Vector
<1> QED
  BY <1>1, <1>2, <1>3, <1>4, <1>5

LEMMA ProperPath ==
  ASSUME program \in Programs, NEW c \in Classes, Proper(c)
  PROVE  /\ \A a \in First(c) .. Final(c) :
              /\ a \in DOMAIN program.memory /\ program.memory[a].cell = "byte"
              /\ program.memory[a].value = "NUL" <=> a = Final(c)
         /\ First(c) < Final(c) /\ program.memory[Final(c) - 1].value = Basename[c]
         /\ First(c) + 1 < Final(c) => program.memory[Final(c) - 2].value = "/"
  BY DEF Proper, First, Final, Bias, Phdr, Vector

(* An attempt that has begun knows the class it is about.                    *)
LEMMA SameClass ==
  ASSUME IInv, pc \notin {"start", "refused"}, NEW c \in Classes, class \in {Unproven, c}
  PROVE  class = c
  BY WidthsPositive DEF IInv, TypeOK

LEMMA DescribeExplains ==
  ASSUME Explained, pc = "start", NEW c \in Classes, class \in {Unproven, c}, Proper(c)
  PROVE  VectorFault(class) = NoFault
<1>1. program \in Programs
  BY DEF Explained, IInv
<1>2. Vector["AT_PHENT"] # <<>> /\ Len(Vector["AT_PHENT"]) = 1 /\ Vector["AT_PHENT"][1] = HeaderBytes[c]
  BY <1>1, ProperHas, ProgramWords DEF Types
<1>3. ClassFault = NoFault
  BY <1>2 DEF ClassFault, NoFault
<1>4. ProvenClass = c
  BY <1>2, WidthsPositive DEF ProvenClass
<1>5. \A t \in {"AT_PHDR", "AT_PHNUM"} : ValueFault(t) = NoFault
  <2> SUFFICES ASSUME NEW t \in {"AT_PHDR", "AT_PHNUM"} PROVE ValueFault(t) = NoFault
    OBVIOUS
  <2>1. Len(Vector[t]) = 1 /\ Vector[t][1] \in Nat /\ Vector[t][1] < WordLimit[c]
    BY <1>1, ProperHas DEF Types
  <2>2. Vector[t] # <<>>
    BY <2>1
  <2>3. ~(Vector[t][1] >= WordLimit[c])
    BY <2>1, WidthsPositive
  <2> QED
    BY <1>4, <2>1, <2>2, <2>3 DEF ValueFault, NoFault
<1>6. Vector["AT_PHNUM"][1] # 0
  BY <1>1, ProperHas DEF Count
<1> QED
  BY <1>3, <1>4, <1>5, <1>6 DEF VectorFault, NoFault

LEMMA HeadersExplained ==
  ASSUME Explained, pc = "headers", Len(headers) < Count, alive,
         NEW c \in Classes, class \in {Unproven, c}, Proper(c)
  PROVE  ~(HeaderAddress >= WordLimit[class]) /\ Mapped(HeaderAddress)
<1>1. class = c /\ program \in Programs
  BY SameClass DEF Explained, IInv
<1>2. Vectored /\ headers \in Seq(Records)
  BY DEF Explained, IInv, VectorOK, HeadersOK
<1>3. HeaderAddress = TableAt(class, Len(headers) + 1)
  BY <1>2 DEF HeaderAddress, TableAt, Phdr, Vector, Stride
<1>4. Len(headers) + 1 \in Indices
  BY <1>2 DEF Indices, Count, Vector, Vectored
<1>5. HeaderAddress \in DOMAIN program.memory /\ HeaderAddress < WordLimit[c]
  BY <1>1, <1>3, <1>4 DEF Proper
<1>6. HeaderAddress \in Nat /\ WordLimit[c] \in Nat
  BY <1>1, <1>5, ProgramWords, WidthsPositive
<1> QED
  BY <1>1, <1>5, <1>6 DEF Mapped

LEMMA SegmentsExplained ==
  ASSUME Explained, pc = "headers", Len(headers) = Count,
         NEW c \in Classes, class \in {Unproven, c}, Proper(c)
  PROVE  SegmentsFault = NoFault
<1>1. IInv /\ class = c /\ program \in Programs
  BY SameClass DEF Explained, IInv
<1>2. Vectored /\ Phdr \in Nat /\ WordLimit[c] \in Nat
  BY <1>1, TableCopied, WidthsPositive DEF Vectored, Words
<1>3. \A kind \in Segments : Of(kind) # {}
  <2> SUFFICES ASSUME NEW kind \in Segments PROVE Of(kind) # {}
    OBVIOUS
  <2>1. PICK i \in Indices : InTable(class, i, kind)
    BY <1>1, ProperHas DEF Unique
  <2> QED
    BY <1>1, <2>1, TableCopied DEF Of
<1>4. \A kind \in Segments : \A i \in Of(kind) : ~Second(i)
  <2> SUFFICES ASSUME NEW kind \in Segments, NEW i \in Of(kind), NEW j \in 1 .. i - 1,
                      headers[j].kind = headers[i].kind
               PROVE  FALSE
    BY DEF Second
  <2>1. i \in Indices /\ headers[i].kind = kind /\ Indices \subseteq Nat
    BY <1>1, TableCopied DEF Of
  <2>2. j \in Indices /\ j # i
    BY <1>2, <2>1 DEF Indices, Vectored, Count, Vector
  <2>3. InTable(class, i, kind) /\ InTable(class, j, kind)
    BY <1>1, <2>1, <2>2, TableCopied
  <2> QED
    BY <1>1, <2>1, <2>2, <2>3, ProperHas DEF Unique
<1>5. \A kind \in Segments : The(kind) = Sole(c, kind)
  BY <1>1, <1>3, <1>4, SoleCopied
<1>6. \A kind \in Segments :
        {Sole(c, kind).address, Sole(c, kind).file, Sole(c, kind).memory} \subseteq Nat
  BY <1>1, <1>3, <1>4, SoleCopied
<1>7. Sole(c, "phdr").address <= Phdr
  BY <1>1, <1>2, <1>6, ProperHas DEF Bias, Segments
<1>8. \A i \in Of("phdr") : headers[i] = Sole(c, "phdr")
  <2> SUFFICES ASSUME NEW i \in Of("phdr") PROVE headers[i] = Sole(c, "phdr")
    OBVIOUS
  <2>1. i \in Indices /\ InTable(class, i, "phdr")
    BY <1>1, TableCopied DEF Of, Segments
  <2>2. Unique(class, "phdr")
    BY <1>1, ProperHas DEF Segments
  <2>3. (CHOOSE k \in Indices : InTable(class, k, "phdr")) = i
    BY <2>1, <2>2 DEF Unique
  <2> QED
    BY <1>1, <2>1, <2>3, TableCopied DEF Sole, Segments
<1>9. \A i \in DOMAIN headers : ~Ends(i)
  <2> SUFFICES ASSUME NEW i \in DOMAIN headers, Ends(i) PROVE FALSE
    OBVIOUS
  <2>1. headers[i].kind \in Segments /\ i \in Of(headers[i].kind)
    BY DEF Ends, Of, Segments
  <2>2. ~Second(i)
    BY <1>4, <2>1
  <2>3. headers[i].kind = "phdr" /\ headers[i].address > Phdr
    BY <2>2 DEF Ends
  <2>4. headers[i] = Sole(c, "phdr")
    BY <1>8, <2>1, <2>3
  <2>5. Sole(c, "phdr").address \in Nat
    BY <1>6 DEF Segments
  <2> HIDE DEF Phdr
  <2> QED
    BY <1>2, <1>7, <2>3, <2>4, <2>5
<1>10. GeometryFault = NoFault
  <2>1. The("interp").file # 0
    <3>1. First(c) <= Final(c) /\ Bias(c) >= 0
      BY <1>1, ProperHas
    <3>2. /\ The("interp") = Sole(c, "interp") /\ Sole(c, "interp").file \in Nat
          /\ {Sole(c, "interp").address, Sole(c, "phdr").address} \subseteq Nat
      BY <1>5, <1>6 DEF Segments
    <3> HIDE DEF Phdr
    <3> QED
      BY <1>2, <3>1, <3>2 DEF First, Final, Bias
  <2>2. \A kind \in {"interp", "dynamic"} : ~(The(kind).file > The(kind).memory)
    BY <1>1, <1>5, <1>6, ProperHas DEF Segments
  <2>3. Phdr - The("phdr").address = Bias(c) /\ Bias(c) \in Nat
    BY <1>1, <1>2, <1>5, <1>6, ProperHas DEF Bias, Segments
  <2>4. \A kind \in {"interp", "dynamic"} : Bias(c) + Sole(c, kind).address < WordLimit[c]
    BY <1>1, ProperHas DEF First
  <2>5. \A kind \in {"interp", "dynamic"} : Translate(Bias(c), The(kind).address) # None
    BY <1>1, <1>5, <1>6, <2>3, <2>4 DEF Translate, CheckedAdd, None, Segments
  <2> QED
    BY <2>1, <2>2, <2>3, <2>5 DEF GeometryFault, NoFault
<1> QED
  BY <1>3, <1>9, <1>10 DEF SegmentsFault, Segments, NoFault

(* The image of a proper program is where the program is.                    *)
LEMMA ProperImage ==
  ASSUME Explained, image # NoImage, NEW c \in Classes, class = c, Proper(c)
  PROVE  /\ image.bias = Bias(c) /\ image.interpreter = First(c) /\ First(c) \in Nat
         /\ image.size \in Nat /\ First(c) + image.size - 1 = Final(c) /\ Final(c) \in Nat
         /\ image.dynamic = Bias(c) + Sole(c, "dynamic").address
         /\ image.extent = Sole(c, "dynamic").memory /\ image.extent \in Nat
<1>1. Depicted /\ program \in Programs
  BY DEF Explained, IInv, ImageOK
<1>2. Sole(c, "phdr").address \in Nat /\ Sole(c, "interp").address \in Nat /\ Sole(c, "interp").file \in Nat
  BY <1>1 DEF Depicted, Segments
<1>3. image.bias = Bias(c)
  BY <1>1, <1>2 DEF Depicted, Bias
<1>4. image.interpreter = First(c) /\ First(c) \in Nat /\ image.size = Sole(c, "interp").file /\ image.size \in Nat
  BY <1>1, <1>3 DEF Depicted, First
<1>5. First(c) + image.size - 1 = Final(c) /\ Final(c) \in Nat
  BY <1>1, <1>4, ProperHas DEF Final
<1> QED
  BY <1>1, <1>3, <1>4, <1>5 DEF Depicted

LEMMA InterpreterExplained ==
  ASSUME Explained, pc = "interpreter", Len(bytes) < image.size, alive,
         NEW c \in Classes, class \in {Unproven, c}, Proper(c)
  PROVE  ~(NextByte >= HostLimit) /\ \A a \in Chunk : Mapped(a)
<1>1. class = c /\ image # NoImage /\ bytes \in Seq(Letters) /\ program \in Programs
  BY SameClass DEF Explained, IInv, BytesOK
<1>2. /\ image.interpreter = First(c) /\ First(c) \in Nat /\ image.size \in Nat
      /\ First(c) + image.size - 1 = Final(c)
  BY <1>1, ProperImage
<1>3. Len(bytes) \in Nat
  BY <1>1
<1>4. NextByte \in First(c) .. Final(c)
  BY <1>2, <1>3 DEF NextByte
<1>5. Requested \in Nat /\ Requested <= image.size - Len(bytes)
  <2>1. PageBytes - (NextByte % PageBytes) \in Nat
    BY <1>2, <1>4, LeftOnPage
  <2> QED
    BY <1>2, <1>3, <2>1 DEF Requested
<1>6. NextByte + Requested - 1 <= Final(c)
  BY <1>2, <1>3, <1>5 DEF NextByte
<1>7. Chunk \subseteq First(c) .. Final(c)
  BY <1>2, <1>4, <1>5, <1>6 DEF Chunk
<1>8. NextByte \in DOMAIN program.memory /\ \A a \in Chunk : a \in DOMAIN program.memory
  BY <1>1, <1>4, <1>7, ProperPath
<1> QED
  BY <1>1, <1>8, ProgramWords DEF Mapped

LEMMA FrontOf ==
  ASSUME NEW S, NEW s \in Seq(S), NEW n \in Nat, n <= Len(s)
  PROVE  /\ Len(SubSeq(s, 1, n)) = n
         /\ \A i \in 1 .. n : SubSeq(s, 1, n)[i] = s[i]
<1>1. \A i \in 1 .. n : s[i] \in S
  OBVIOUS
<1> QED
  BY <1>1, SubSeqProperties

(* A whole copy of a proper interpreter is a path with the name required.    *)
LEMMA PathExplained ==
  ASSUME Explained, pc \in {"interpreter", "prepared"}, Len(bytes) >= image.size,
         NEW c \in Classes, class \in {Unproven, c}, Proper(c)
  PROVE  PathFault = NoFault /\ HasBasename(class)
<1>1. class = c /\ image # NoImage /\ bytes \in Seq(Letters) /\ program \in Programs /\ Len(bytes) <= image.size
  BY SameClass DEF Explained, IInv, BytesOK, Proven
<1>2. /\ image.interpreter = First(c) /\ First(c) \in Nat /\ image.size \in Nat
      /\ First(c) + image.size - 1 = Final(c) /\ First(c) < Final(c)
  BY <1>1, ProperImage, ProperPath
<1>3. Len(bytes) = image.size /\ Len(bytes) >= 2 /\ DOMAIN bytes = 1 .. Len(bytes)
  BY <1>1, <1>2
<1>4. \A i \in DOMAIN bytes : /\ First(c) + i - 1 \in First(c) .. Final(c)
                              /\ bytes[i] = program.memory[First(c) + i - 1].value
  <2> SUFFICES ASSUME NEW i \in DOMAIN bytes
               PROVE  /\ First(c) + i - 1 \in First(c) .. Final(c)
                      /\ bytes[i] = program.memory[First(c) + i - 1].value
    OBVIOUS
  <2>1. First(c) + i - 1 \in First(c) .. Final(c)
    BY <1>2, <1>3
  <2>2. bytes[i] = Byte(First(c) + i - 1)
    BY <1>2 DEF Explained, IInv, BytesOK
  <2> QED
    BY <1>1, <2>1, <2>2, ProperPath DEF Byte
<1>5. bytes[Len(bytes)] = "NUL"
  BY <1>1, <1>2, <1>3, <1>4, ProperPath
<1>6. \A i \in 1 .. Len(bytes) - 1 : bytes[i] # "NUL"
  <2> SUFFICES ASSUME NEW i \in 1 .. Len(bytes) - 1 PROVE bytes[i] # "NUL"
    OBVIOUS
  <2>1. i \in DOMAIN bytes /\ First(c) + i - 1 # Final(c)
    BY <1>2, <1>3
  <2> QED
    BY <1>1, <1>4, <2>1, ProperPath
<1>7. bytes[Len(bytes) - 1] = Basename[c]
  BY <1>1, <1>2, <1>3, <1>4, ProperPath
<1>8. Len(bytes) > 2 => bytes[Len(bytes) - 2] = "/"
  <2> SUFFICES ASSUME Len(bytes) > 2 PROVE bytes[Len(bytes) - 2] = "/"
    OBVIOUS
  <2>1. First(c) + 1 < Final(c) /\ First(c) + (Len(bytes) - 2) - 1 = Final(c) - 2 /\ Len(bytes) - 2 \in DOMAIN bytes
    BY <1>2, <1>3
  <2> QED
    BY <1>1, <1>4, <2>1, ProperPath
<1>9. bytes # <<>> /\ Len(bytes) - 1 \in 1 .. Len(bytes) - 1 /\ (Len(bytes) > 2 => Len(bytes) - 2 \in 1 .. Len(bytes) - 1)
  BY <1>3
<1>10. /\ Len(Path) = Len(bytes) - 1
       /\ Path[Len(bytes) - 1] = Basename[c]
       /\ Len(bytes) > 2 => Path[Len(bytes) - 2] = "/"
  BY <1>1, <1>7, <1>8, <1>9, FrontOf DEF Path
<1>11. HasBasename(c)
  <2>1. Path # <<>> /\ Path[Len(Path)] = Basename[c]
    BY <1>3, <1>10
  <2>2. Len(Path) > 1 => Path[Len(Path) - 1] = "/"
    BY <1>3, <1>10
  <2> QED
    BY <2>1, <2>2 DEF HasBasename
<1> QED
  BY <1>1, <1>5, <1>6, <1>11 DEF PathFault, NoFault

LEMMA TableExplained ==
  ASSUME Explained, pc = "prepared", NEW c \in Classes, class \in {Unproven, c}, Proper(c)
  PROVE  TableFault = NoFault
<1>1. class = c /\ image # NoImage /\ program \in Programs /\ Len(bytes) = image.size /\ bytes \in Seq(Letters)
  BY SameClass DEF Explained, IInv, BytesOK, Proven
<1>2. HasBasename(class)
  <2>1. image.size \in Nat
    BY <1>1, ProperImage
  <2>2. Len(bytes) >= image.size
    BY <1>1, <2>1
  <2> QED
    BY <2>2, PathExplained
<1>3. image.extent = Sole(c, "dynamic").memory /\ image.extent \in Nat
  BY <1>1, ProperImage
<1>4. image.extent % EntryBytes[c] = 0
  BY <1>1, <1>3, ProperHas
<1>5. image.extent # 0
  <2>1. PICK last \in 0 .. image.extent \div EntryBytes[c] - 1 : TRUE
    BY <1>1, <1>3, ProperHas DEF OneDebug
  <2>2. \A n \in Nat \ {0} : 0 \div n = 0
    OBVIOUS
  <2>3. EntryBytes[c] \in Nat \ {0}
    BY WidthsPositive
  <2> QED
    BY <2>1, <2>2, <2>3
<1> QED
  BY <1>1, <1>2, <1>4, <1>5 DEF TableFault, NoFault

LEMMA EntryExplained ==
  ASSUME Explained, pc = "entries", alive, NEW c \in Classes, class \in {Unproven, c}, Proper(c)
  PROVE  EntryFault = NoFault \/ (EntryFault = "NullDebugEntry" /\ early)
<1>1. class = c /\ image # NoImage /\ program \in Programs /\ Vectored /\ Depicted
  BY SameClass DEF Explained, IInv, BytesOK, Proven, VectorOK, ImageOK
<1>2. /\ image.bias = Bias(c) /\ image.dynamic = Bias(c) + Sole(c, "dynamic").address
      /\ image.extent = Sole(c, "dynamic").memory /\ image.bias \in Nat /\ Sole(c, "dynamic").address \in Nat
  BY <1>1, ProperImage DEF Depicted, Segments
<1>3. /\ at <= Entries
      /\ \A i \in 0 .. at - 1 : Passed(i)
      /\ pointer = None => \A i \in 0 .. at - 1 : ~Tagged(class, image.bias, i, "debug")
      /\ pointer # None => \E d \in 0 .. at - 1 : Found(d)
      /\ at \in Nat
  BY DEF Explained, IInv, EntriesOK, TypeOK
<1>4. Entries \in Nat /\ EntryBytes[c] \in Nat \ {0} /\ WordLimit[c] \in Nat
  BY <1>1, EntriesNatural DEF Explained
<1>5. OneDebug(c, image.bias)
  BY <1>1, <1>2, ProperHas
<1>6. PICK last \in 0 .. Entries - 1 : \E d \in 0 .. last - 1 :
        /\ Tagged(c, image.bias, last, "null") /\ SegmentAt(c, image.bias, last) < WordLimit[c]
        /\ \A i \in 0 .. last - 1 : /\ SegmentAt(c, image.bias, i) \in DOMAIN program.memory
                                    /\ ~Tagged(c, image.bias, i, "null")
                                    /\ Tagged(c, image.bias, i, "debug") <=> i = d
        /\ SegmentAt(c, image.bias, d) \in program.debug
  BY <1>1, <1>2, <1>5 DEF OneDebug, Entries
<1>7. PICK d \in 0 .. last - 1 :
        /\ Tagged(c, image.bias, last, "null") /\ SegmentAt(c, image.bias, last) < WordLimit[c]
        /\ \A i \in 0 .. last - 1 : /\ SegmentAt(c, image.bias, i) \in DOMAIN program.memory
                                    /\ ~Tagged(c, image.bias, i, "null")
                                    /\ Tagged(c, image.bias, i, "debug") <=> i = d
        /\ SegmentAt(c, image.bias, d) \in program.debug
  BY <1>6
<1>8. last \in Nat /\ last < Entries /\ d \in Nat /\ d < last
  BY <1>4, <1>6, <1>7
<1>9. at <= last
  <2> SUFFICES ASSUME last < at PROVE FALSE
    BY <1>3, <1>8
  <2>1. last \in 0 .. at - 1
    BY <1>3, <1>8
  <2> QED
    BY <1>1, <1>3, <1>7, <2>1 DEF Passed
<1>10. EntryAddress = SegmentAt(c, image.bias, at) /\ EntryAddress \in Nat
  BY <1>1, <1>2, <1>3, <1>4 DEF EntryAddress, SegmentAt
<1>11. EntryAddress < WordLimit[c]
  <2>1. \A m, n, k \in Nat : m <= n => m * k <= n * k
    OBVIOUS
  <2>2. at * EntryBytes[c] <= last * EntryBytes[c]
    BY <1>3, <1>4, <1>8, <1>9, <2>1
  <2>3. at * EntryBytes[c] \in Nat /\ last * EntryBytes[c] \in Nat
    BY <1>3, <1>4, <1>8
  <2> QED
    BY <1>2, <1>4, <1>7, <1>10, <2>2, <2>3 DEF SegmentAt
<1>12. SegmentAt(class, image.bias, at) \in DOMAIN program.memory /\ Mapped(EntryAddress)
  <2>1. CASE at < last
    BY <1>1, <1>3, <1>7, <1>8, <1>10, <2>1 DEF Mapped
  <2>2. CASE at = last
    BY <1>1, <1>7, <1>10, <2>2 DEF Mapped, Tagged
  <2> QED
    BY <1>3, <1>8, <1>9, <2>1, <2>2
<1>13. Lifted = Entry(SegmentAt(class, image.bias, at))
  BY <1>1, <1>10 DEF Lifted
<1>14. at # Entries
  BY <1>3, <1>8, <1>9
<1>15. CASE Lifted.tag = "null"
  <2>1. Tagged(c, image.bias, at, "null")
    BY <1>1, <1>3, <1>12, <1>13, <1>15, EntryRead DEF Explained
  <2>2. at = last
    BY <1>3, <1>7, <1>8, <1>9, <2>1
  <2>3. d \in 0 .. at - 1 /\ Tagged(c, image.bias, d, "debug")
    BY <1>7, <1>8, <2>2
  <2>4. pointer # None
    BY <1>1, <1>3, <2>3
  <2> QED
    BY <1>1, <1>4, <1>10, <1>11, <1>12, <1>14, <1>15, <2>4 DEF EntryFault, NoFault
<1>16. CASE Lifted.tag = "debug" /\ Lifted.value # 0
  <2>1. Tagged(c, image.bias, at, "debug") /\ Passed(at)
    BY <1>1, <1>3, <1>12, <1>13, <1>16, EntryRead DEF Explained
  <2>2. at # last
    BY <1>1, <1>7, <2>1 DEF Passed
  <2>3. at = d
    BY <1>3, <1>7, <1>8, <1>9, <2>1, <2>2
  <2>4. pointer = None
    <3> SUFFICES ASSUME pointer # None PROVE FALSE
      OBVIOUS
    <3>1. PICK e \in 0 .. at - 1 : Found(e)
      BY <1>3
    <3>2. Tagged(c, image.bias, e, "debug") /\ e \in 0 .. last - 1 /\ e # d
      BY <1>1, <1>3, <1>8, <1>9, <2>3, <3>1 DEF Found
    <3> QED
      BY <1>7, <3>2
  <2> QED
    BY <1>1, <1>4, <1>10, <1>11, <1>12, <1>14, <1>16, <2>4 DEF EntryFault, InsertFault, NoFault
<1>17. CASE Lifted.tag = "debug" /\ Lifted.value = 0
  <2>1. /\ program.memory[EntryAddress].cell = "entry" /\ program.memory[EntryAddress].tag = "debug"
        /\ ~(EntryAddress \in program.debug /\ started)
    <3>1. Rendezvous # 0
      BY WidthsPositive
    <3>2. program.memory[EntryAddress].cell = "entry"
      BY <1>12, <1>17 DEF Lifted, Entry, Holding
    <3>3. ~(EntryAddress \in program.debug /\ started)
      BY <1>12, <1>17, <3>1, <3>2 DEF Lifted, Entry, Holding
    <3> QED
      BY <1>12, <1>17, <3>2, <3>3 DEF Lifted, Entry, Holding
  <2>2. Tagged(c, image.bias, at, "debug") /\ ~Tagged(c, image.bias, at, "null")
    BY <1>1, <1>10, <1>12, <2>1 DEF Tagged
  <2>3. at = d
    BY <1>3, <1>7, <1>8, <1>9, <2>2
  <2>4. ~started
    BY <1>7, <1>10, <2>1, <2>3
  <2>5. early
    BY <2>4 DEF Explained, EarlyOK
  <2>6. EntryFault = "NullDebugEntry"
    BY <1>1, <1>4, <1>10, <1>11, <1>12, <1>14, <1>17 DEF EntryFault, InsertFault, NoFault
  <2> QED
    BY <2>5, <2>6
<1>18. CASE Lifted.tag \notin {"null", "debug"}
  BY <1>1, <1>4, <1>10, <1>11, <1>12, <1>14, <1>18 DEF EntryFault, NoFault
<1> QED
  BY <1>15, <1>16, <1>17, <1>18

-----------------------------------------------------------------------------
LEMMA InitExplained == ASSUME Init PROVE Explained
  BY InitIInv DEF Init, Explained, EarlyOK, RefusalsExplained

(* Every refusal is excused.                                                 *)
LEMMA RefusalsExcused ==
  ASSUME Explained, Capture, NEW fault, Refuse(fault)
  PROVE  Excused(fault) \/ fault = NoFault
<1> SUFFICES ASSUME alive, fault \notin {"Namespaces", "Busy", NoFault}, ~(fault = "NullDebugEntry" /\ early),
                    NEW c \in Classes, class \in {Unproven, c}, Proper(c)
             PROVE  FALSE
  BY DEF Excused
<1>1. refusal' = fault /\ pc' = "refused"
  BY DEF Refuse
<1>2. ~Describe
  BY <1>1, DescribeExplains DEF Describe
<1>3. ~CopyHeader
  BY <1>1, HeadersExplained DEF CopyHeader
<1>4. ~ProveSegments
  BY <1>1, SegmentsExplained DEF ProveSegments
<1>5. ~CopyInterpreter
  BY <1>1, InterpreterExplained DEF CopyInterpreter
<1>6. ~FinishImage
  BY <1>1, PathExplained DEF FinishImage
<1>7. ~OpenTable
  BY <1>1, TableExplained DEF OpenTable
<1>8. ~ReadEntry
  <2> SUFFICES ASSUME ReadEntry PROVE FALSE
    OBVIOUS
  <2>1. EntryFault # NoFault /\ Refuse(EntryFault)
    BY <1>1 DEF ReadEntry
  <2>2. fault = EntryFault
    BY <1>1, <2>1 DEF Refuse
  <2> QED
    BY <2>1, <2>2, EntryExplained DEF ReadEntry
<1>9. ~ReadNamespaces /\ ~RetryNamespaces
  BY <1>1 DEF ReadNamespaces, RetryNamespaces, Refuse, Again
<1> QED
  BY <1>2, <1>3, <1>4, <1>5, <1>6, <1>7, <1>8, <1>9 DEF Capture

LEMMA NextExplained == ASSUME Explained, [Next]_vars PROVE Explained'
<1>1. IInv'
  BY NextKeeps DEF Explained
<1>2. \A c \in Classes : program' = program => Proper(c)' = Proper(c)
  BY DEF Proper, Unique, Sole, InTable, TableAt, Indices, OneDebug, SegmentAt, Tagged
<1>3. CASE pc' # "refused" /\ Capture
  <2>1. RefusalsExplained'
    BY <1>3 DEF RefusalsExplained
  <2>2. EarlyOK'
    <3>1. CASE OpenTable
      <4>1. early' = ~started /\ started' = started
        BY <1>3, <3>1 DEF OpenTable, Refuse, target
      <4> QED
        BY <4>1, Zenon DEF EarlyOK
    <3>2. CASE ReadEntry
      <4>1. pc = "entries" /\ UNCHANGED <<started, early>>
        BY <1>3, <3>2 DEF ReadEntry, Refuse, target
      <4> QED
        BY <4>1 DEF Explained, EarlyOK
    <3>3. CASE Describe \/ CopyHeader \/ ProveSegments
      BY <1>3, <3>3 DEF EarlyOK, Describe, CopyHeader, ProveSegments, Refuse
    <3>4. CASE CopyInterpreter \/ FinishImage
      BY <1>3, <3>4 DEF EarlyOK, CopyInterpreter, FinishImage, Refuse
    <3>5. CASE ReadNamespaces \/ RetryNamespaces
      BY <1>3, <3>5 DEF EarlyOK, ReadNamespaces, RetryNamespaces, Refuse, Again
    <3> QED
      BY <1>3, <3>1, <3>2, <3>3, <3>4, <3>5 DEF Capture
  <2> QED
    BY <1>1, <2>1, <2>2 DEF Explained
<1>4. CASE pc' = "refused" /\ Capture
  <2>1. PICK fault : Refuse(fault) /\ fault # NoFault
    <3>1. CASE Describe
      <4>1. VectorFault(class) # NoFault /\ Refuse(VectorFault(class))
        BY <1>4, <3>1 DEF Describe
      <4> QED
        BY <4>1
    <3>2. CASE ProveSegments \/ OpenTable \/ ReadEntry
      <4>1. \/ SegmentsFault # NoFault /\ Refuse(SegmentsFault)
            \/ TableFault # NoFault /\ Refuse(TableFault)
            \/ EntryFault # NoFault /\ Refuse(EntryFault)
        BY <1>4, <3>2 DEF ProveSegments, OpenTable, ReadEntry
      <4> QED
        BY <4>1
    <3>3. CASE CopyHeader \/ CopyInterpreter
      BY <1>4, <3>3 DEF CopyHeader, CopyInterpreter, NoFault
    <3>4. CASE FinishImage
      BY <1>4, <3>4 DEF FinishImage, NoFault
    <3>5. CASE ReadNamespaces \/ RetryNamespaces
      BY <1>4, <3>5 DEF ReadNamespaces, RetryNamespaces, NoFault, Again
    <3> QED
      BY <1>4, <3>1, <3>2, <3>3, <3>4, <3>5 DEF Capture
  <2>2. EarlyOK' /\ RefusalsExplained'
    BY <1>4, <2>1, RefusalsExcused, RefuseExplains
  <2> QED
    BY <1>1, <2>2 DEF Explained
<1>5. CASE Publish \/ Exit \/ UNCHANGED vars
  <2>1. /\ UNCHANGED <<program, class, pc, refusal, early>>
        /\ started => started'
        /\ ~alive => ~alive'
    BY <1>5 DEF Publish, Exit, vars, target
  <2>2. EarlyOK' /\ RefusalsExplained'
    BY <1>2, <2>1 DEF Explained, EarlyOK, RefusalsExplained
  <2> QED
    BY <1>1, <2>2 DEF Explained
<1> QED
  BY <1>3, <1>4, <1>5 DEF Next

(* A proper program that lives is refused only for what lies behind its      *)
(* rendezvous, or for a null DT_DEBUG that its loader had still to write.    *)
THEOREM CaptureRefusalsExplained == CaptureSpec => []RefusalsExplained
<1>1. Explained => RefusalsExplained
  BY DEF Explained
<1> QED
  BY <1>1, InitExplained, NextExplained, PTL DEF CaptureSpec

-----------------------------------------------------------------------------
(* Reading an image through its own header.                                  *)

(* The table that the kernel named is complete once an image is proven.      *)
TableWhole ==
  /\ pc = "headers" => image = NoImage
  /\ image # NoImage => Len(headers) = Count

(* The image that is read stays.                                             *)
Held ==
  /\ image # NoImage /\ pc \in Proven \cup {"refused"}
  /\ route = "facade" \/ pc \in {"done", "refused"}

Own == program.memory[image.bias]
Listed(i) == OwnHeader(class, image.bias, i)

(* The programs copied so far are those that the image's own table lists.    *)
ProgramsOK ==
  /\ image.bias \in DOMAIN program.memory /\ Own.cell = "elf"
  /\ loaded.programs \in Seq(Records) /\ Len(loaded.programs) <= Own.count
  /\ \A i \in DOMAIN loaded.programs : loaded.programs[i] = Listed(i)

Sized == \A i \in DOMAIN loaded.programs : loaded.programs[i].kind = "load" =>
                                             loaded.programs[i].file <= loaded.programs[i].memory

(* Bytes are copied of the segment that is read.                             *)
GotOK ==
  loaded.step = "notes" /\ loaded.got # 0 =>
    loaded.segment <= Len(loaded.programs) /\ IsNotes /\ SegmentStart # None

ReadingOK ==
  /\ loaded = [step |-> loaded.step, use |-> loaded.use, programs |-> loaded.programs,
               segment |-> loaded.segment, got |-> loaded.got, next |-> loaded.next,
               id |-> loaded.id, failure |-> loaded.failure]
  /\ loaded.step \in {"idle", "programs", "notes", "done", "failed"}
  /\ loaded.step = "idle" => loaded = Idle
  /\ loaded.step # "idle" => Held
  /\ loaded.step # "failed" => loaded.failure = NoFault
  /\ loaded.step = "programs" => loaded.segment = 1 /\ loaded.got = 0 /\ loaded.next = 0 /\ loaded.id = NoId
  /\ loaded.step \in {"programs", "notes", "done"} => ProgramsOK
  /\ loaded.step \in {"notes", "done"} => Len(loaded.programs) = Own.count /\ Sized
  /\ loaded.step = "notes" => loaded.use = "build_id"
  /\ loaded.step = "programs" => loaded.use \in {"symbols", "build_id"}

(* The build identifiers among the notes read so far: those of the segments  *)
(* before this one, and of this one the first n notes.                       *)
Past(n) == {x \in BuildIds : x[1] < loaded.segment \/ (x[1] = loaded.segment /\ x[2] <= n)}

Retained(ids) ==
  IF loaded.id = NoId THEN ids = {}
  ELSE \E x \in ids : ids = {x} /\ loaded.id = Descriptor(x)

(* The reading is at a boundary between notes.                               *)
AtNote(n) ==
  IF loaded.segment \in DOMAIN program.notes
  THEN /\ n <= Len(program.notes[loaded.segment].notes)
       /\ loaded.next = Boundary(program.notes[loaded.segment].notes, n)
       /\ loaded.next <= Listed(loaded.segment).file
  ELSE n = 0 /\ loaded.next = 0

NotesRead ==
  /\ loaded.segment \in 1 .. Len(loaded.programs) + 1
  /\ \A i \in DOMAIN program.notes : i < loaded.segment => program.notes[i].whole
  /\ \E n \in Nat : AtNote(n) /\ Retained(Past(n))

NotesOK == loaded.step = "notes" /\ NotesLie(class, image.bias) => NotesRead

LoadedInv == IInv /\ TableWhole /\ ReadingOK /\ GotOK /\ NotesOK /\ BuildIdExact

LEMMA InitLoaded == ASSUME AllInit PROVE LoadedInv
<1>1. IInv /\ TableWhole
  BY InitIInv DEF AllInit, Init, TableWhole
<1>2. loaded = Idle
  BY DEF AllInit
<1>3. ReadingOK
  BY <1>2 DEF ReadingOK, Idle
<1>4. GotOK /\ NotesOK /\ BuildIdExact
  BY <1>2 DEF GotOK, NotesOK, BuildIdExact, Idle
<1> QED
  BY <1>1, <1>3, <1>4 DEF LoadedInv

(* A capture leaves the image and its table alone once it is read.           *)
LEMMA HeldStays ==
  ASSUME Held, [Next]_vars
  PROVE  Held' /\ UNCHANGED <<program, class, image, headers>>
<1>1. pc # "start" /\ pc # "headers" /\ pc # "interpreter"
  BY DEF Held, Proven
<1>2. CASE UNCHANGED vars
  BY <1>2 DEF Held, Proven, vars, target
<1>3. CASE Publish \/ Exit
  BY <1>3 DEF Publish, Exit, Held, Proven
<1>4. ~Describe /\ ~CopyHeader /\ ~ProveSegments /\ ~CopyInterpreter /\ ~FinishImage
  BY <1>1 DEF Describe, CopyHeader, ProveSegments, CopyInterpreter, FinishImage
<1>5. CASE OpenTable
  BY <1>5 DEF OpenTable, Refuse, Held, Proven, target
<1>6. CASE ReadEntry
  BY <1>6 DEF ReadEntry, Refuse, Held, Proven, target
<1>7. CASE ReadNamespaces
  BY <1>7 DEF ReadNamespaces, Refuse, Held, Proven, target
<1>8. CASE RetryNamespaces
  BY <1>8 DEF RetryNamespaces, Refuse, Held, Proven, Again, target
<1> QED
  BY <1>2, <1>3, <1>4, <1>5, <1>6, <1>7, <1>8 DEF Next, Capture

LEMMA TableStaysWhole ==
  ASSUME TableWhole, [Next]_vars
  PROVE  TableWhole'
<1>1. CASE UNCHANGED vars
  BY <1>1 DEF TableWhole, Count, Vector, vars, target
<1>2. CASE Publish \/ Exit
  BY <1>2 DEF Publish, Exit, TableWhole, Count, Vector
<1>3. ASSUME NEW fault, Refuse(fault) PROVE TableWhole'
  BY <1>3 DEF Refuse, TableWhole, Count, Vector, target
<1>4. CASE Describe
  BY <1>3, <1>4 DEF Describe, TableWhole, Count, Vector, target
<1>5. CASE CopyHeader
  BY <1>3, <1>5 DEF CopyHeader, TableWhole, Count, Vector, target
<1>6. CASE ProveSegments
  BY <1>3, <1>6 DEF ProveSegments, TableWhole, Count, Vector, target
<1>7. CASE CopyInterpreter \/ FinishImage
  BY <1>3, <1>7 DEF CopyInterpreter, FinishImage, TableWhole, Count, Vector, target
<1>8. CASE OpenTable \/ ReadEntry
  BY <1>3, <1>8 DEF OpenTable, ReadEntry, TableWhole, Count, Vector, target
<1>9. CASE ReadNamespaces \/ RetryNamespaces
  BY <1>3, <1>9 DEF ReadNamespaces, RetryNamespaces, Again, TableWhole, Count, Vector, target
<1> QED
  BY <1>1, <1>2, <1>4, <1>5, <1>6, <1>7, <1>8, <1>9 DEF Next, Capture

(* What a reading holds depends on the image and on itself.                  *)
LEMMA ReadingStays ==
  ASSUME ReadingOK, GotOK, NotesOK, BuildIdExact, UNCHANGED <<program, class, image, loaded>>, Held'
  PROVE  ReadingOK' /\ GotOK' /\ NotesOK' /\ BuildIdExact'
<1>1. NotesLie(class, image.bias)' = NotesLie(class, image.bias)
  BY DEF NotesLie, NoteSegments, OwnHeader, SegmentLies, NoteLies, Lie, Boundary, Hold
<1>2. BuildIds' = BuildIds /\ \A x : Descriptor(x)' = Descriptor(x)
  BY DEF BuildIds, Descriptor
<1>3. (Own' = Own) /\ (Records' = Records) /\ \A i : Listed(i)' = Listed(i)
  BY DEF Own, Records, Listed, OwnHeader
<1>4. ProgramsOK' = ProgramsOK
  BY <1>3 DEF ProgramsOK
<1>5. ReadingOK'
  BY <1>3, <1>4 DEF ReadingOK, Sized
<1>6. NotesRead' = NotesRead
  BY <1>2, <1>3 DEF NotesRead, AtNote, Retained, Past, Boundary
<1>7. NotesOK'
  BY <1>1, <1>6 DEF NotesOK
<1>8. BuildIdExact'
  BY <1>1, <1>2 DEF BuildIdExact
<1>9. GotOK'
  BY DEF GotOK, IsNotes, Segment, SegmentStart, Translate, CheckedAdd
<1> QED
  BY <1>5, <1>7, <1>8, <1>9

LEMMA CaptureKeepsLoaded ==
  ASSUME LoadedInv, [Next]_vars, UNCHANGED loaded
  PROVE  LoadedInv'
<1>1. IInv' /\ TableWhole'
  BY NextKeeps, TableStaysWhole DEF LoadedInv
<1>2. CASE loaded.step = "idle"
  <2>1. loaded = Idle /\ loaded' = Idle
    BY <1>2 DEF LoadedInv, ReadingOK
  <2>2. ReadingOK'
    BY <2>1 DEF ReadingOK, Idle
  <2>3. GotOK' /\ NotesOK' /\ BuildIdExact'
    BY <2>1 DEF GotOK, NotesOK, BuildIdExact, Idle
  <2> QED
    BY <1>1, <2>2, <2>3 DEF LoadedInv
<1>3. CASE loaded.step # "idle"
  <2>1. Held
    BY <1>3 DEF LoadedInv, ReadingOK
  <2>2. Held' /\ UNCHANGED <<program, class, image>>
    BY <2>1, HeldStays
  <2> QED
    BY <1>1, <2>2, ReadingStays DEF LoadedInv
<1> QED
  BY <1>2, <1>3

(* What lies in the image does not move while it is read.                    *)
LEMMA ImageLies ==
  ASSUME LoadedInv, UNCHANGED vars
  PROVE  /\ IInv' /\ TableWhole' /\ Held' = Held /\ image' = image /\ class' = class /\ program' = program
         /\ NotesLie(class, image.bias)' = NotesLie(class, image.bias)
         /\ BuildIds' = BuildIds /\ \A x : Descriptor(x)' = Descriptor(x)
         /\ Own' = Own /\ Records' = Records /\ \A i : Listed(i)' = Listed(i)
<1>1. IInv' /\ TableWhole'
  BY NextKeeps, TableStaysWhole DEF LoadedInv
<1>2. Held' = Held /\ image' = image /\ class' = class /\ program' = program
  BY DEF Held, vars, target
<1>3. NotesLie(class, image.bias)' = NotesLie(class, image.bias)
  BY <1>2 DEF NotesLie, NoteSegments, OwnHeader, SegmentLies, NoteLies, Lie, Boundary, Hold
<1>4. BuildIds' = BuildIds /\ \A x : Descriptor(x)' = Descriptor(x)
  BY <1>2 DEF BuildIds, Descriptor
<1>5. Own' = Own /\ Records' = Records /\ \A i : Listed(i)' = Listed(i)
  BY <1>2 DEF Own, Records, Listed, OwnHeader
<1> QED
  BY <1>1, <1>2, <1>3, <1>4, <1>5

(* An error about notes that is true keeps the invariant, as any other does. *)
LEMMA FailKeeps ==
  ASSUME LoadedInv, UNCHANGED vars, loaded.step # "idle", NEW fault, Fail(fault),
         NotesLie(class, image.bias) =>
           /\ fault = "Missing" => BuildIds = {}
           /\ fault = "Ambiguous" => \E x, y \in BuildIds : x # y
           /\ fault = "EmptyBuildId" => \E x \in BuildIds : Descriptor(x).size = 0
           /\ fault = "MalformedNote" => \E i \in DOMAIN program.notes : ~program.notes[i].whole
  PROVE  LoadedInv'
<1>1. ReadingOK /\ Held
  BY DEF LoadedInv, ReadingOK
<1>2. /\ loaded'.step = "failed" /\ loaded'.failure = fault
      /\ loaded' = [loaded EXCEPT !.step = "failed", !.failure = fault]
  BY <1>1 DEF Fail, ReadingOK
<1>3. ReadingOK'
  BY <1>1, <1>2, ImageLies DEF ReadingOK
<1>4. GotOK' /\ NotesOK'
  BY <1>2 DEF GotOK, NotesOK
<1>5. BuildIdExact'
  <2> SUFFICES ASSUME NotesLie(class, image.bias)'
               PROVE  /\ fault = "Missing" => BuildIds' = {}
                      /\ fault = "Ambiguous" => \E x, y \in BuildIds' : x # y
                      /\ fault = "EmptyBuildId" => \E x \in BuildIds' : Descriptor(x)'.size = 0
                      /\ fault = "MalformedNote" => \E i \in DOMAIN program'.notes : ~program'.notes[i].whole
    BY <1>2 DEF BuildIdExact
  <2>1. NotesLie(class, image.bias) /\ BuildIds' = BuildIds /\ program' = program
    BY ImageLies
  <2>2. \A x : Descriptor(x)' = Descriptor(x)
    BY ImageLies
  <2> QED
    BY <2>1, <2>2, Zenon
<1> QED
  BY <1>3, <1>4, <1>5, ImageLies DEF LoadedInv

(* A header of the image's own table has natural fields.                     *)
LEMMA ListedRecord ==
  ASSUME program \in Programs, NEW i
  PROVE  Listed(i) \in Records /\ {Listed(i).address, Listed(i).file, Listed(i).memory} \subseteq Nat
<1> DEFINE a == image.bias + program.memory[image.bias].offset + (i - 1) * HeaderBytes[class]
<1>1. CASE a \in DOMAIN program.memory /\ program.memory[a].cell = "header"
  <2>1. Listed(i) = program.memory[a]
    BY <1>1 DEF Listed, OwnHeader
  <2>2. {program.memory[a].address, program.memory[a].file, program.memory[a].memory} \subseteq Nat
    <3> HIDE DEF a
    <3> QED
      BY <1>1, ProgramsUnsigned
  <2> HIDE DEF a
  <2> QED
    BY <1>1, <2>1, <2>2 DEF Records
<1>2. CASE ~(a \in DOMAIN program.memory /\ program.memory[a].cell = "header")
  <2>1. Listed(i) = OtherHeader
    BY <1>2 DEF Listed, OwnHeader
  <2> QED
    BY <2>1 DEF Records, OtherHeader
<1> QED
  BY <1>1, <1>2

LEMMA ReadHeaderKeeps == ASSUME LoadedInv, NEW use \in {"symbols", "build_id"}, ReadHeader(use) PROVE LoadedInv'
<1>1. loaded = Idle /\ UNCHANGED vars
  BY DEF LoadedInv, ReadingOK, ReadHeader
<1>2. Held
  BY DEF LoadedInv, IInv, BytesOK, ReadHeader, Held, Proven
<1>3. CASE HeaderFault # NoFault
  <2>1. loaded' = [Idle EXCEPT !.step = "failed", !.use = use, !.failure = HeaderFault]
    BY <1>1, <1>3 DEF ReadHeader
  <2>2. ReadingOK'
    BY <1>1, <1>2, <2>1, ImageLies DEF ReadingOK, Idle
  <2>3. HeaderFault \notin {"Missing", "Ambiguous", "EmptyBuildId", "MalformedNote"}
    BY DEF HeaderFault, NoFault
  <2>4. GotOK' /\ NotesOK' /\ BuildIdExact'
    BY <2>1, <2>3 DEF GotOK, NotesOK, BuildIdExact, Idle
  <2> QED
    BY <1>1, <2>2, <2>4, ImageLies DEF LoadedInv
<1>4. CASE HeaderFault = NoFault
  <2>1. loaded' = [Idle EXCEPT !.step = "programs", !.use = use]
    BY <1>1, <1>4 DEF ReadHeader
  <2>2. image.bias \in DOMAIN program.memory /\ Own.cell = "elf"
    BY <1>4 DEF HeaderFault, NoFault, Mapped, Holding, Own
  <2>3. ProgramsOK'
    <3>1. Own.count \in Nat
      BY <2>2, ProgramsUnsigned DEF LoadedInv, IInv, Own
    <3>2. loaded'.programs = <<>>
      BY <2>1 DEF Idle
    <3> QED
      BY <1>1, <2>2, <3>1, <3>2, ImageLies DEF ProgramsOK
  <2>4. ReadingOK'
    BY <1>1, <1>2, <2>1, <2>3, ImageLies DEF ReadingOK, Idle
  <2>5. GotOK' /\ NotesOK' /\ BuildIdExact'
    BY <2>1 DEF GotOK, NotesOK, BuildIdExact, Idle, NoFault
  <2> QED
    BY <1>1, <2>4, <2>5, ImageLies DEF LoadedInv
<1> QED
  BY <1>3, <1>4

LEMMA CopyProgramKeeps == ASSUME LoadedInv, CopyProgram PROVE LoadedInv'
<1>1. /\ UNCHANGED vars /\ loaded.step = "programs" /\ Len(loaded.programs) < Own.count /\ ReadingOK
      /\ ProgramsOK /\ program \in Programs
  BY DEF LoadedInv, ReadingOK, CopyProgram, Own, IInv
<1>2. CASE Fail("AddressOverflow") \/ Fail("ForeignAccess")
  BY <1>1, <1>2, FailKeeps
<1>3. CASE /\ ProgramAddress # None /\ Mapped(ProgramAddress)
           /\ loaded' = [loaded EXCEPT !.programs = Append(@, Header(ProgramAddress))]
  <2>1. PICK n \in Nat : n = Len(loaded.programs)
    BY <1>1 DEF ProgramsOK
  <2>2. PICK size \in Nat : size = HeaderBytes[class]
    BY <1>1, WidthsPositive DEF LoadedInv, IInv, TypeOK, ReadingOK, Held
  <2>3. {image.bias, Own.offset, Own.count} \subseteq Nat
    <3>1. image.bias \in Nat
      BY <1>1 DEF LoadedInv, IInv, ReadingOK, Held, ImageOK, Depicted
    <3>2. {Own.offset, Own.count} \subseteq Nat
      BY <1>1, ProgramsUnsigned DEF ProgramsOK, Own
    <3> QED
      BY <3>1, <3>2
  <2>4. ProgramAddress = image.bias + Own.offset + n * size
    <3>1. \A b, o, m \in Nat : b + (o + m) = b + o + m
      OBVIOUS
    <3>2. n * size \in Nat
      BY <2>1, <2>2
    <3>3. ProgramOffset # None /\ ProgramAddress = Translate(image.bias, ProgramOffset)
      BY <1>3 DEF ProgramAddress
    <3>4. ProgramOffset = Own.offset + n * size
      BY <2>1, <2>2, <3>3 DEF ProgramOffset, CheckedAdd, ElfHeader, Own
    <3>5. ProgramAddress = image.bias + ProgramOffset
      BY <1>3, <3>3 DEF Translate, CheckedAdd
    <3> QED
      BY <2>3, <3>1, <3>2, <3>4, <3>5
  <2>5. Header(ProgramAddress) = Listed(n + 1)
    <3>1. (n + 1) - 1 = n
      BY <2>1
    <3> QED
      BY <1>3, <2>2, <2>4, <3>1 DEF Header, Holding, Mapped, Listed, OwnHeader, Own
  <2>6. loaded'.programs = Append(loaded.programs, Listed(n + 1))
    BY <1>1, <1>3, <2>5 DEF ReadingOK
  <2>7. ProgramsOK'
    <3>1. loaded'.programs \in Seq(Records) /\ Len(loaded'.programs) = n + 1
      BY <1>1, <2>1, <2>6, ListedRecord DEF ProgramsOK
    <3>2. \A i \in DOMAIN loaded'.programs : loaded'.programs[i] = Listed(i)
      BY <1>1, <2>1, <2>6 DEF ProgramsOK
    <3>3. n + 1 <= Own.count
      BY <1>1, <2>1, <2>3
    <3> QED
      BY <1>1, <3>1, <3>2, <3>3, ImageLies DEF ProgramsOK
  <2>8. ReadingOK'
    BY <1>1, <1>3, <2>7, ImageLies DEF ReadingOK
  <2>9. GotOK' /\ NotesOK' /\ BuildIdExact'
    BY <1>1, <1>3 DEF GotOK, NotesOK, BuildIdExact, ReadingOK, NoFault
  <2> QED
    BY <1>1, <2>8, <2>9, ImageLies DEF LoadedInv
<1> QED
  BY <1>2, <1>3 DEF CopyProgram

(* The segments of notes are segments of the image's own table.              *)
LEMMA NoteSegment ==
  ASSUME NotesLie(class, image.bias), NEW i \in DOMAIN program.notes
  PROVE  /\ i \in 1 .. Own.count /\ Listed(i).kind = "note" /\ Listed(i).file # 0
         /\ SegmentLies(image.bias + Listed(i).address, Listed(i).file, program.notes[i])
         /\ Len(program.notes[i].notes) \in Nat
         /\ DOMAIN program.notes[i].notes = 1 .. Len(program.notes[i].notes)
  BY DEF NotesLie, NoteSegments, Listed, Own, SegmentLies

LEMMA BuildIdPlace ==
  ASSUME NotesLie(class, image.bias), NEW x \in BuildIds
  PROVE  /\ x[1] \in DOMAIN program.notes /\ x[1] \in 1 .. Own.count
         /\ x[2] \in 1 .. Len(program.notes[x[1]].notes) /\ x = <<x[1], x[2]>>
<1>1. x[1] \in DOMAIN program.notes /\ x[2] \in DOMAIN program.notes[x[1]].notes /\ x = <<x[1], x[2]>>
  BY DEF BuildIds
<1> QED
  BY <1>1, NoteSegment

(* A reading that comes to the start of a segment after the whole of the     *)
(* one before it.                                                            *)
LEMMA SegmentOpens ==
  ASSUME LoadedInv, NotesLie(class, image.bias), UNCHANGED vars,
         Len(loaded.programs) = Own.count, UNCHANGED loaded.programs, Own.count \in Nat,
         loaded'.segment \in 1 .. Own.count + 1, loaded'.next = 0,
         \A i \in DOMAIN program.notes : i < loaded'.segment => program.notes[i].whole,
         IF loaded'.id = NoId THEN {x \in BuildIds : x[1] < loaded'.segment} = {}
         ELSE \E y \in BuildIds : /\ {x \in BuildIds : x[1] < loaded'.segment} = {y}
                                  /\ loaded'.id = Descriptor(y)
  PROVE  NotesRead'
<1>1. AtNote(0)'
  <2>1. CASE loaded'.segment \in DOMAIN program.notes
    <3>1. Len(program.notes[loaded'.segment].notes) \in Nat
      BY <2>1, NoteSegment
    <3>2. PICK s : s = loaded'.segment
      OBVIOUS
    <3>3. Listed(s).file \in Nat
      BY ListedRecord DEF LoadedInv, IInv
    <3>4. Listed(loaded.segment)' = Listed(s)
      BY <3>2, ImageLies DEF Listed, OwnHeader
    <3>5. program' = program
      BY ImageLies
    <3> QED
      BY <2>1, <3>1, <3>2, <3>3, <3>4, <3>5 DEF AtNote, Boundary
  <2>2. CASE loaded'.segment \notin DOMAIN program.notes
    BY <2>2, ImageLies DEF AtNote
  <2> QED
    BY <2>1, <2>2
<1>2. Past(0)' = {x \in BuildIds : x[1] < loaded'.segment}
  <2>1. \A x \in BuildIds : ~(x[2] <= 0)
    BY BuildIdPlace
  <2> QED
    BY <2>1, ImageLies DEF Past
<1>3. Retained(Past(0))'
  <2>1. \A x : Descriptor(x)' = Descriptor(x)
    BY ImageLies
  <2> QED
    BY <1>2, <2>1 DEF Retained
<1> QED
  BY <1>1, <1>3, ImageLies DEF NotesRead

LEMMA FinishTableKeeps == ASSUME LoadedInv, FinishTable PROVE LoadedInv'
<1>1. /\ UNCHANGED vars /\ loaded.step = "programs" /\ Len(loaded.programs) >= Own.count /\ ReadingOK
      /\ ProgramsOK /\ program \in Programs /\ Own.count \in Nat
  <2>1. ReadingOK /\ ProgramsOK /\ program \in Programs
    BY DEF LoadedInv, ReadingOK, FinishTable, IInv
  <2>2. Own.count \in Nat
    BY <2>1, ProgramsUnsigned DEF ProgramsOK, Own
  <2> QED
    BY <2>1, <2>2 DEF FinishTable, Own
<1>2. CASE TableOrDynamicFault # NoFault
  <2>1. TableOrDynamicFault \notin {"Missing", "Ambiguous", "EmptyBuildId", "MalformedNote"}
    BY DEF TableOrDynamicFault, ExecutablesFault, DynamicFault, NoFault
  <2>2. Fail(TableOrDynamicFault)
    BY <1>2 DEF FinishTable
  <2> QED
    BY <1>1, <2>1, <2>2, FailKeeps
<1>3. CASE TableOrDynamicFault = NoFault
  <2>1. loaded' = [loaded EXCEPT !.step = IF loaded.use = "symbols" THEN "done" ELSE "notes"]
    BY <1>3 DEF FinishTable
  <2>2. Sized
    <3> SUFFICES ASSUME NEW i \in DOMAIN loaded.programs, loaded.programs[i].kind = "load",
                        ~(loaded.programs[i].file <= loaded.programs[i].memory)
                 PROVE FALSE
      BY DEF Sized
    <3>1. loaded.programs[i] = Listed(i)
      BY <1>1 DEF ProgramsOK
    <3>2. loaded.programs[i].file > loaded.programs[i].memory
      BY <1>1, <3>1, ListedRecord
    <3>3. ExecutablesFault # NoFault
      BY <3>2 DEF ExecutablesFault, NoFault
    <3> QED
      BY <1>3, <3>3 DEF TableOrDynamicFault
  <2>3. Len(loaded.programs) = Own.count
    BY <1>1 DEF ProgramsOK
  <2>4. /\ loaded'.programs = loaded.programs /\ loaded'.use = loaded.use /\ loaded'.failure = NoFault
        /\ loaded'.step = IF loaded.use = "symbols" THEN "done" ELSE "notes"
        /\ loaded'.segment = 1 /\ loaded'.got = 0 /\ loaded'.next = 0 /\ loaded'.id = NoId
    BY <1>1, <2>1 DEF ReadingOK
  <2>5. ProgramsOK' /\ Sized'
    BY <1>1, <2>2, <2>4, ImageLies DEF ProgramsOK, Sized
  <2>6. ReadingOK'
    BY <1>1, <2>1, <2>3, <2>4, <2>5, ImageLies DEF ReadingOK
  <2>7. NotesOK'
    <3> SUFFICES ASSUME NotesLie(class, image.bias)' PROVE NotesRead'
      BY DEF NotesOK
    <3>1. NotesLie(class, image.bias)
      BY <1>1, ImageLies
    <3>2. \A i \in DOMAIN program.notes : ~(i < 1)
      BY <3>1, NoteSegment
    <3>3. {x \in BuildIds : x[1] < 1} = {}
      BY <3>1, BuildIdPlace
    <3> QED
      BY <1>1, <2>3, <2>4, <3>1, <3>2, <3>3, SegmentOpens
  <2>8. GotOK' /\ BuildIdExact'
    BY <1>1, <2>4 DEF GotOK, BuildIdExact, NoFault, ReadingOK
  <2> QED
    BY <1>1, <2>6, <2>7, <2>8, ImageLies DEF LoadedInv
<1> QED
  BY <1>2, <1>3

(* What is known while the notes are read.                                   *)
LEMMA NotesStep ==
  ASSUME LoadedInv, loaded.step = "notes"
  PROVE  /\ ReadingOK /\ ProgramsOK /\ Held /\ program \in Programs /\ Own.count \in Nat /\ Sized
         /\ Len(loaded.programs) = Own.count /\ DOMAIN loaded.programs = 1 .. Own.count
         /\ loaded.use = "build_id" /\ loaded.failure = NoFault
         /\ GotOK /\ (NotesLie(class, image.bias) => NotesRead)
<1>1. ReadingOK /\ ProgramsOK /\ Held /\ program \in Programs /\ Sized
  BY DEF LoadedInv, ReadingOK, IInv
<1>2. Own.count \in Nat
  BY <1>1, ProgramsUnsigned DEF ProgramsOK, Own
<1> QED
  BY <1>1, <1>2 DEF LoadedInv, ReadingOK, ProgramsOK, NotesOK

(* A step of that reading which goes on.                                     *)
LEMMA NotesGoOn ==
  ASSUME LoadedInv, loaded.step = "notes", UNCHANGED vars, NEW segment, NEW got, NEW next, NEW id,
         loaded' = [loaded EXCEPT !.segment = segment, !.got = got, !.next = next, !.id = id],
         GotOK', NotesLie(class, image.bias) => NotesRead'
  PROVE  LoadedInv'
<1>1. /\ loaded'.programs = loaded.programs /\ loaded'.use = loaded.use /\ loaded'.failure = NoFault
      /\ loaded'.step = "notes"
  BY NotesStep DEF ReadingOK
<1>2. ProgramsOK' /\ Sized'
  BY <1>1, NotesStep, ImageLies DEF ProgramsOK, Sized
<1>3. ReadingOK'
  BY <1>1, <1>2, NotesStep, ImageLies DEF ReadingOK
<1>4. NotesOK'
  BY ImageLies DEF NotesOK
<1>5. BuildIdExact'
  BY <1>1 DEF BuildIdExact, NoFault
<1> QED
  BY <1>3, <1>4, <1>5, ImageLies DEF LoadedInv

(* The segment read is the one that the table lists.                         *)
LEMMA SegmentListed ==
  ASSUME LoadedInv, loaded.step = "notes", loaded.segment <= Len(loaded.programs),
         NotesLie(class, image.bias)
  PROVE  /\ Segment = Listed(loaded.segment) /\ loaded.segment \in 1 .. Own.count
         /\ {Segment.address, Segment.file} \subseteq Nat
         /\ IsNotes <=> loaded.segment \in DOMAIN program.notes
<1>1. loaded.segment \in 1 .. Own.count
  BY NotesStep DEF NotesRead
<1>2. Segment = Listed(loaded.segment)
  BY <1>1, NotesStep DEF Segment, ProgramsOK
<1>3. {Segment.address, Segment.file} \subseteq Nat
  BY <1>2, NotesStep, ListedRecord
<1>4. IsNotes <=> loaded.segment \in DOMAIN program.notes
  BY <1>1, <1>2 DEF IsNotes, NotesLie, NoteSegments, Listed, Own
<1> QED
  BY <1>1, <1>2, <1>3, <1>4

LEMMA CopyNotesKeeps == ASSUME LoadedInv, CopyNotes PROVE LoadedInv'
<1>1. UNCHANGED vars /\ loaded.step = "notes"
  BY DEF CopyNotes
<1>2. CASE Fail("AddressOverflow") \/ Fail("Read")
  BY <1>1, <1>2, FailKeeps
<1>3. ASSUME NEW got, loaded' = [loaded EXCEPT !.got = got], IsNotes, SegmentStart # None,
             loaded.segment <= Len(loaded.programs)
      PROVE  LoadedInv'
  <2>1. loaded' = [loaded EXCEPT !.segment = loaded.segment, !.got = got, !.next = loaded.next, !.id = loaded.id]
    BY <1>1, <1>3, NotesStep DEF ReadingOK
  <2>2. NotesLie(class, image.bias) => NotesRead'
    <3> SUFFICES ASSUME NotesLie(class, image.bias) PROVE NotesRead'
      OBVIOUS
    <3>1. /\ loaded'.segment = loaded.segment /\ loaded'.next = loaded.next /\ loaded'.id = loaded.id
          /\ loaded'.programs = loaded.programs
      BY <1>1, <1>3, NotesStep DEF ReadingOK
    <3>2. \A n : AtNote(n)' = AtNote(n) /\ Past(n)' = Past(n)
      BY <1>1, <3>1, ImageLies DEF AtNote, Boundary, Past, Listed, OwnHeader
    <3>3. \A ids : Retained(ids)' = Retained(ids)
      BY <1>1, <3>1, ImageLies DEF Retained
    <3> QED
      BY <1>1, <3>1, <3>2, <3>3, NotesStep, ImageLies DEF NotesRead
  <2>3. GotOK'
    <3>1. loaded'.segment = loaded.segment /\ loaded'.programs = loaded.programs
      BY <1>1, <1>3, NotesStep DEF ReadingOK
    <3> QED
      BY <1>1, <1>3, <3>1, ImageLies DEF GotOK, IsNotes, Segment, SegmentStart, Translate, CheckedAdd
  <2> QED
    BY <1>1, <2>1, <2>2, <2>3, NotesGoOn
<1> QED
  BY <1>2, <1>3 DEF CopyNotes

LEMMA PassSegmentKeeps == ASSUME LoadedInv, PassSegment PROVE LoadedInv'
<1>1. UNCHANGED vars /\ loaded.step = "notes" /\ loaded.segment <= Len(loaded.programs) /\ ~IsNotes
  BY DEF PassSegment
<1>2. loaded' = [loaded EXCEPT !.segment = loaded.segment + 1, !.got = loaded.got, !.next = loaded.next,
                               !.id = loaded.id]
  BY <1>1, NotesStep DEF ReadingOK, PassSegment
<1>3. ASSUME NotesLie(class, image.bias) PROVE NotesRead'
  <2>1. PICK n \in Nat : AtNote(n) /\ Retained(Past(n))
    BY <1>1, <1>3, NotesStep DEF NotesRead
  <2>2. loaded.segment \notin DOMAIN program.notes /\ loaded.segment \in 1 .. Own.count
    BY <1>1, <1>3, SegmentListed
  <2>3. loaded.next = 0
    BY <2>1, <2>2 DEF AtNote
  <2>4. /\ loaded'.segment = loaded.segment + 1 /\ loaded'.next = 0 /\ loaded'.id = loaded.id
        /\ loaded'.programs = loaded.programs
    BY <1>1, <1>2, <2>3, NotesStep DEF ReadingOK
  <2>5. Past(n) = {x \in BuildIds : x[1] < loaded'.segment}
    <3>1. \A x \in BuildIds : x[1] \in Nat /\ x[1] # loaded.segment
      BY <1>3, <2>2, BuildIdPlace
    <3> QED
      BY <2>2, <2>4, <3>1 DEF Past
  <2>6. \A i \in DOMAIN program.notes : i < loaded'.segment => program.notes[i].whole
    <3>1. \A i \in DOMAIN program.notes : i \in Nat /\ i # loaded.segment
      BY <1>3, <2>2, NoteSegment
    <3> QED
      BY <1>1, <1>3, <2>2, <2>4, <3>1, NotesStep DEF NotesRead
  <2>7. IF loaded'.id = NoId THEN {x \in BuildIds : x[1] < loaded'.segment} = {}
        ELSE \E y \in BuildIds : /\ {x \in BuildIds : x[1] < loaded'.segment} = {y}
                                 /\ loaded'.id = Descriptor(y)
    BY <2>1, <2>4, <2>5 DEF Retained, Past
  <2> QED
    BY <1>1, <1>3, <2>2, <2>4, <2>6, <2>7, NotesStep, SegmentOpens
<1>4. GotOK'
  <2>1. loaded'.got = 0
    BY <1>1, <1>2, NotesStep DEF GotOK, ReadingOK
  <2> QED
    BY <2>1 DEF GotOK
<1> QED
  BY <1>1, <1>2, <1>3, <1>4, NotesGoOn

LEMMA FinishNotesKeeps == ASSUME LoadedInv, FinishNotes PROVE LoadedInv'
<1>1. UNCHANGED vars /\ loaded.step = "notes" /\ loaded.segment > Len(loaded.programs)
  BY DEF FinishNotes
<1>2. ASSUME NotesLie(class, image.bias)
      PROVE  /\ \A i \in DOMAIN program.notes : program.notes[i].whole
             /\ Retained(BuildIds)
  <2>1. loaded.segment = Own.count + 1 /\ loaded.segment \notin DOMAIN program.notes
    BY <1>1, <1>2, NotesStep, NoteSegment DEF NotesRead
  <2>2. \A i \in DOMAIN program.notes : program.notes[i].whole
    BY <1>1, <1>2, <2>1, NotesStep, NoteSegment DEF NotesRead
  <2>3. \A n : Past(n) = BuildIds
    BY <1>1, <1>2, <2>1, NotesStep, BuildIdPlace DEF Past
  <2> QED
    BY <1>1, <1>2, <2>2, <2>3, NotesStep DEF NotesRead
<1>3. CASE loaded.id = NoId /\ Fail("Missing")
  BY <1>1, <1>2, <1>3, FailKeeps DEF Retained
<1>4. CASE loaded.id # NoId /\ loaded' = [loaded EXCEPT !.step = "done"]
  <2>1. /\ loaded'.programs = loaded.programs /\ loaded'.use = loaded.use /\ loaded'.failure = NoFault
        /\ loaded'.step = "done" /\ loaded'.id = loaded.id
    BY <1>1, <1>4, NotesStep DEF ReadingOK
  <2>2. ProgramsOK' /\ Sized'
    BY <1>1, <2>1, NotesStep, ImageLies DEF ProgramsOK, Sized
  <2>3. ReadingOK'
    BY <1>1, <1>4, <2>1, <2>2, NotesStep, ImageLies DEF ReadingOK
  <2>4. GotOK' /\ NotesOK'
    BY <2>1 DEF GotOK, NotesOK
  <2>5. BuildIdExact'
    <3> SUFFICES ASSUME NotesLie(class, image.bias)'
                 PROVE  /\ \A i \in DOMAIN program'.notes : program'.notes[i].whole
                        /\ \E x \in BuildIds' : BuildIds' = {x} /\ loaded'.id = Descriptor(x)'
      BY <2>1 DEF BuildIdExact, NoFault
    <3>1. NotesLie(class, image.bias) /\ BuildIds' = BuildIds /\ program' = program
      BY <1>1, ImageLies
    <3>2. \A x : Descriptor(x)' = Descriptor(x)
      BY <1>1, ImageLies
    <3> QED
      BY <1>2, <1>4, <2>1, <3>1, <3>2 DEF Retained
  <2> QED
    BY <1>1, <2>3, <2>4, <2>5, ImageLies DEF LoadedInv
<1> QED
  BY <1>3, <1>4 DEF FinishNotes

(* A field of some size fills its words.                                     *)
LEMMA PaddedWords ==
  ASSUME NEW size \in Nat, NEW n \in Nat, 4 * n - size \in 0 .. 3
  PROVE  Padded(size) = 4 * n
<1>1. PICK r \in 0 .. 3 : size = 4 * n - r
  <2>1. size = 4 * n - (4 * n - size)
    OBVIOUS
  <2> QED
    BY <2>1
<1>2. size % 4 = (4 - r) % 4
  BY <1>1
<1> QED
  BY <1>1, <1>2 DEF Padded, WordBytes

LEMMA LyingWord ==
  ASSUME NEW first \in Nat, NEW size \in Nat, NEW o \in Nat, NEW words, Lie(first, size, o, words)
  PROVE  \A k \in DOMAIN words : \A q \in Nat :
           k \in Nat /\ q = o + (k - 1) * 4 /\ q < size => Word(first, q) = words[k]
<1> SUFFICES ASSUME NEW k \in DOMAIN words, NEW q \in Nat, k \in Nat, q = o + (k - 1) * 4, q < size
             PROVE  Word(first, q) = words[k]
  OBVIOUS
<1>1. first + o + (k - 1) * 4 = first + q
  OBVIOUS
<1>2. PICK a : a = first + q
  OBVIOUS
<1>3. a \in DOMAIN program.memory /\ program.memory[a] = [cell |-> "word", value |-> words[k]]
  BY <1>1, <1>2 DEF Lie
<1> QED
  BY <1>2, <1>3 DEF Word

(* A note begins with the size of its name.                                  *)
LEMMA NoteStarts ==
  ASSUME NEW first \in Nat, NEW size \in Nat, NEW note, NoteLies(first, size, note)
  PROVE  note.at \in Nat /\ note.at < size /\ Word(first, note.at) = note.name /\ note.name # 0
<1>1. note.at \in Nat /\ note.at < size /\ note.name # 0
  BY DEF NoteLies
<1>2. Lie(first, size, note.at, <<note.name, note.size, note.kind>>)
  BY DEF NoteLies
<1>3. note.at = note.at + (1 - 1) * 4
  BY <1>1
<1>4. Word(first, note.at) = <<note.name, note.size, note.kind>>[1]
  BY <1>1, <1>2, <1>3, LyingWord
<1> QED
  BY <1>1, <1>4

(* Its fields are padded to the words that hold them.                        *)
LEMMA NoteFields ==
  ASSUME NEW first, NEW size \in Nat, NEW note, NoteLies(first, size, note)
  PROVE  /\ note.name \in Nat /\ note.size \in Nat /\ note.label \in Seq(Nat) /\ note.words \in Seq(Nat)
         /\ Padded(note.name) = 4 * Len(note.label) /\ Padded(note.size) = 4 * Len(note.words)
         /\ note.name \in {3, 4} => Len(note.label) = 1
<1>1. /\ note.name \in Nat /\ note.size \in Nat /\ note.label \in Seq(Nat) /\ note.words \in Seq(Nat)
      /\ 4 * Len(note.label) - note.name \in 0 .. 3 /\ 4 * Len(note.words) - note.size \in 0 .. 3
  BY DEF NoteLies, Hold
<1>2. PICK l \in Nat : l = Len(note.label)
  BY <1>1
<1>3. PICK w \in Nat : w = Len(note.words)
  BY <1>1
<1>4. Padded(note.name) = 4 * l /\ Padded(note.size) = 4 * w
  BY <1>1, <1>2, <1>3, PaddedWords
<1>5. note.name \in {3, 4} => l = 1
  <2>1. 4 * l - note.name \in 0 .. 3
    BY <1>1, <1>2, Zenon
  <2>2. \A name \in {3, 4} : 4 * l - name \in 0 .. 3 => l = 1
    OBVIOUS
  <2> QED
    BY <2>1, <2>2, Zenon
<1> QED
  BY <1>1, <1>2, <1>3, <1>4, <1>5

(* What is read of a note that lies at an offset of a segment.               *)
LEMMA NoteHead ==
  ASSUME NEW first \in Nat, NEW size \in Nat, NEW note, NoteLies(first, size, note), note.at + 12 <= size
  PROVE  Word(first, note.at + 4) = note.size /\ Word(first, note.at + 8) = note.kind
<1>1. PICK o \in Nat : o = note.at
  BY NoteStarts
<1>2. Lie(first, size, o, <<note.name, note.size, note.kind>>) /\ o + 12 <= size
  BY <1>1 DEF NoteLies
<1>3. o + 4 = o + (2 - 1) * 4 /\ o + 8 = o + (3 - 1) * 4 /\ o + 4 < size /\ o + 8 < size
  BY <1>2
<1>4. \A k \in 1 .. 3 : \A q \in Nat :
        q = o + (k - 1) * 4 /\ q < size => Word(first, q) = <<note.name, note.size, note.kind>>[k]
  BY <1>2, LyingWord
<1>5. Word(first, o + 4) = <<note.name, note.size, note.kind>>[2]
  BY <1>3, <1>4
<1>6. Word(first, o + 8) = <<note.name, note.size, note.kind>>[3]
  BY <1>3, <1>4
<1> QED
  BY <1>1, <1>5, <1>6

LEMMA NoteLabel ==
  ASSUME NEW first \in Nat, NEW size \in Nat, NEW note, NoteLies(first, size, note),
         note.label # <<>>, note.at + 12 < size
  PROVE  Word(first, note.at + 12) = note.label[1]
<1>1. PICK o \in Nat : o = note.at
  BY NoteStarts
<1>2. Lie(first, size, o + 12, note.label)
  BY <1>1 DEF NoteLies
<1>3. 1 \in DOMAIN note.label
  BY NoteFields
<1>4. o + 12 \in Nat /\ o + 12 = o + 12 + (1 - 1) * 4 /\ o + 12 < size /\ 1 \in Nat
  BY <1>1
<1>5. Word(first, o + 12) = note.label[1]
  BY <1>2, <1>3, <1>4, LyingWord
<1> QED
  BY <1>1, <1>5

LEMMA NoteWords ==
  ASSUME NEW first \in Nat, NEW size \in Nat, NEW note, NoteLies(first, size, note),
         note.at + 12 + 4 * Len(note.label) + 4 * Len(note.words) <= size
  PROVE  note.words = [k \in 1 .. Len(note.words) |->
                         Word(first, note.at + 12 + 4 * Len(note.label) + (k - 1) * 4)]
<1>1. PICK o \in Nat : o = note.at
  BY NoteStarts
<1>2. PICK l \in Nat : l = Len(note.label)
  BY NoteFields
<1>3. note.words \in Seq(Nat)
  BY NoteFields
<1>4. PICK w \in Nat : w = Len(note.words)
  BY <1>3
<1>5. Lie(first, size, o + 12 + 4 * l, note.words) /\ o + 12 + 4 * l + 4 * w <= size
  BY <1>1, <1>2, <1>4 DEF NoteLies
<1>6. ASSUME NEW k \in 1 .. w PROVE Word(first, o + 12 + 4 * l + (k - 1) * 4) = note.words[k]
  <2>1. PICK q \in Nat : q = o + 12 + 4 * l + (k - 1) * 4
    OBVIOUS
  <2>2. o + 12 + 4 * l \in Nat /\ q < size /\ k \in Nat
    BY <1>5, <2>1
  <2>3. k \in DOMAIN note.words
    BY <1>3, <1>4
  <2> QED
    BY <1>5, <2>1, <2>2, <2>3, LyingWord
<1>7. note.words = [k \in 1 .. w |-> note.words[k]]
  BY <1>3, <1>4
<1>8. note.words = [k \in 1 .. w |-> Word(first, o + 12 + 4 * l + (k - 1) * 4)]
  BY <1>6, <1>7
<1> QED
  BY <1>1, <1>2, <1>4, <1>8

(* The next note of the segment read, if there is one.                       *)
LEMMA NextNoteLies ==
  ASSUME LoadedInv, SegmentCopied, NotesLie(class, image.bias), loaded.segment \in DOMAIN program.notes,
         NEW n \in Nat, AtNote(n), n # Len(program.notes[loaded.segment].notes),
         NEW note, note = program.notes[loaded.segment].notes[n + 1]
  PROVE  /\ note.at = loaded.next /\ NoteLies(image.bias + Segment.address, Segment.file, note)
         /\ n + 1 \in DOMAIN program.notes[loaded.segment].notes
         /\ Boundary(program.notes[loaded.segment].notes, n + 1)
              = loaded.next + 12 + 4 * Len(note.label) + 4 * Len(note.words)
         /\ program.notes[loaded.segment].whole =>
              Boundary(program.notes[loaded.segment].notes, n + 1) <= Segment.file
<1>1. PICK notes : notes = program.notes[loaded.segment].notes
  OBVIOUS
<1>2. PICK s : s = loaded.segment
  OBVIOUS
<1>3. /\ SegmentLies(image.bias + Segment.address, Segment.file, program.notes[s]) /\ Len(notes) \in Nat
      /\ DOMAIN notes = 1 .. Len(notes)
  BY <1>1, <1>2, SegmentListed, NoteSegment DEF SegmentCopied
<1>4. n <= Len(notes) /\ loaded.next = Boundary(notes, n)
  BY <1>1 DEF AtNote
<1>5. n + 1 \in DOMAIN notes /\ (n + 1) - 1 = n /\ n + 1 # 0
  BY <1>1, <1>3, <1>4
<1>6. /\ notes[n + 1].at = Boundary(notes, (n + 1) - 1)
      /\ NoteLies(image.bias + Segment.address, Segment.file, notes[n + 1])
      /\ program.notes[s].whole => Boundary(notes, n + 1) <= Segment.file
  BY <1>1, <1>2, <1>3, <1>5 DEF SegmentLies
<1>7. Boundary(notes, n + 1) = note.at + 12 + 4 * Len(note.label) + 4 * Len(note.words)
  BY <1>1, <1>5 DEF Boundary
<1> QED
  BY <1>1, <1>2, <1>4, <1>5, <1>6, <1>7

(* What lies behind the last note is zero, and only that.                    *)
LEMMA ZeroBehindLast ==
  ASSUME LoadedInv, SegmentCopied, NotesLie(class, image.bias), loaded.segment \in DOMAIN program.notes,
         NEW n \in Nat, AtNote(n), SegmentStart = image.bias + Segment.address
  PROVE  /\ AllZero <=> n = Len(program.notes[loaded.segment].notes)
         /\ n = Len(program.notes[loaded.segment].notes) => program.notes[loaded.segment].whole
<1>1. PICK notes : notes = program.notes[loaded.segment].notes
  OBVIOUS
<1>2. PICK first \in Nat : first = image.bias + Segment.address
  <2>1. Segment.address \in Nat /\ image.bias \in Nat
    BY SegmentListed, NotesStep DEF SegmentCopied, LoadedInv, IInv, Held, ImageOK, Depicted
  <2> QED
    BY <2>1
<1>3. PICK size \in Nat : size = Segment.file
  BY SegmentListed DEF SegmentCopied
<1>4. PICK s : s = loaded.segment
  OBVIOUS
<1>5. SegmentLies(first, size, program.notes[s]) /\ Len(notes) \in Nat /\ DOMAIN notes = 1 .. Len(notes)
  BY <1>1, <1>2, <1>3, <1>4, SegmentListed, NoteSegment DEF SegmentCopied
<1>6. n <= Len(notes) /\ loaded.next = Boundary(notes, n) /\ loaded.next <= size
  BY <1>1, <1>3, SegmentListed DEF AtNote, SegmentCopied
<1>7. CASE n = Len(notes)
  <2>1. \A o \in Boundary(notes, n) .. size - 1 :
          first + o \in DOMAIN program.memory /\ program.memory[first + o] = [cell |-> "word", value |-> 0]
    BY <1>1, <1>4, <1>5, <1>7 DEF SegmentLies
  <2>2. AllZero
    BY <1>2, <1>3, <1>6, <2>1 DEF AllZero, Word
  <2>3. program.notes[s].whole
    <3>1. CASE n = 0
      BY <1>1, <1>4, <1>5, <1>7, <3>1 DEF SegmentLies
    <3>2. CASE n # 0
      <4>1. n \in DOMAIN notes /\ ~(n < Len(notes)) /\ Boundary(notes, n) <= size
        BY <1>5, <1>6, <1>7, <3>2
      <4> QED
        BY <1>1, <1>4, <1>5, <4>1 DEF SegmentLies
    <3> QED
      BY <3>1, <3>2
  <2> QED
    BY <1>1, <1>4, <1>7, <2>2, <2>3
<1>8. CASE n # Len(notes)
  <2>1. PICK note : note = notes[n + 1]
    OBVIOUS
  <2>2. note.at = loaded.next /\ NoteLies(first, size, note)
    BY <1>1, <1>2, <1>3, <1>8, <2>1, NextNoteLies
  <2>3. loaded.next \in Nat
    BY <1>3, <2>2 DEF NoteLies
  <2>4. note.at < size /\ Word(first, note.at) = note.name /\ note.name # 0
    BY <2>2, NoteStarts
  <2>5. loaded.next \in loaded.next .. size - 1
    BY <2>2, <2>3, <2>4
  <2>6. ~AllZero
    BY <1>2, <1>3, <2>2, <2>4, <2>5 DEF AllZero
  <2> QED
    BY <1>1, <1>8, <2>6
<1> QED
  BY <1>7, <1>8

(* The copied segment begins at the bias.                                    *)
LEMMA CopiedStart ==
  ASSUME LoadedInv, SegmentCopied
  PROVE  SegmentStart = image.bias + Segment.address
<1>1. loaded.got # 0 /\ loaded.step = "notes"
  BY DEF SegmentCopied, IsNotes
<1>2. SegmentStart # None
  BY <1>1, NotesStep DEF GotOK
<1> QED
  BY <1>2 DEF SegmentStart, Translate, CheckedAdd

LEMMA EndSegmentKeeps == ASSUME LoadedInv, EndSegment PROVE LoadedInv'
<1>1. UNCHANGED vars /\ SegmentCopied /\ AllZero /\ loaded.step = "notes" /\ loaded.segment <= Len(loaded.programs)
      /\ IsNotes
  BY DEF EndSegment, SegmentCopied
<1>2. loaded' = [loaded EXCEPT !.segment = loaded.segment + 1, !.got = 0, !.next = 0, !.id = loaded.id]
  BY <1>1, NotesStep DEF ReadingOK, EndSegment
<1>3. /\ loaded'.segment = loaded.segment + 1 /\ loaded'.next = 0 /\ loaded'.id = loaded.id /\ loaded'.got = 0
      /\ loaded'.programs = loaded.programs
  BY <1>1, <1>2, NotesStep DEF ReadingOK
<1>4. ASSUME NotesLie(class, image.bias) PROVE NotesRead'
  <2>1. PICK n \in Nat : AtNote(n) /\ Retained(Past(n))
    BY <1>1, <1>4, NotesStep DEF NotesRead
  <2>2. loaded.segment \in DOMAIN program.notes /\ loaded.segment \in 1 .. Own.count
    BY <1>1, <1>4, SegmentListed
  <2>3. n = Len(program.notes[loaded.segment].notes) /\ program.notes[loaded.segment].whole
    BY <1>1, <1>4, <2>1, <2>2, CopiedStart, ZeroBehindLast
  <2>4. Past(n) = {x \in BuildIds : x[1] < loaded'.segment}
    <3>1. \A x \in BuildIds : x[1] \in Nat /\ (x[1] = loaded.segment => x[2] <= n)
      BY <1>4, <2>2, <2>3, BuildIdPlace
    <3> QED
      BY <1>3, <2>2, <3>1 DEF Past
  <2>5. \A i \in DOMAIN program.notes : i < loaded'.segment => program.notes[i].whole
    <3>1. \A i \in DOMAIN program.notes : i \in Nat
      BY <1>4, NoteSegment
    <3> QED
      BY <1>1, <1>3, <1>4, <2>2, <2>3, <3>1, NotesStep DEF NotesRead
  <2>6. IF loaded'.id = NoId THEN {x \in BuildIds : x[1] < loaded'.segment} = {}
        ELSE \E y \in BuildIds : /\ {x \in BuildIds : x[1] < loaded'.segment} = {y}
                                 /\ loaded'.id = Descriptor(y)
    BY <1>3, <2>1, <2>4 DEF Retained, Past
  <2> QED
    BY <1>1, <1>3, <1>4, <2>2, <2>5, <2>6, NotesStep, SegmentOpens
<1>5. GotOK'
  BY <1>3 DEF GotOK
<1> QED
  BY <1>1, <1>2, <1>4, <1>5, NotesGoOn

(* What the next note is read as, in a segment whose notes lie.              *)
LEMMA NoteRead ==
  ASSUME LoadedInv, SegmentCopied, ~AllZero, NotesLie(class, image.bias), NEW n \in Nat, AtNote(n)
  PROVE  /\ loaded.segment \in DOMAIN program.notes
         /\ n + 1 \in DOMAIN program.notes[loaded.segment].notes
         /\ Torn => ~program.notes[loaded.segment].whole
         /\ ~Torn =>
              /\ NoteEnd = Boundary(program.notes[loaded.segment].notes, n + 1) /\ NoteEnd <= Segment.file
              /\ IsBuildId <=> <<loaded.segment, n + 1>> \in BuildIds
              /\ DescSize = Descriptor(<<loaded.segment, n + 1>>).size
              /\ BuildId(SegmentStart, DescAt, DescSize) = Descriptor(<<loaded.segment, n + 1>>)
<1>1. loaded.segment \in DOMAIN program.notes
  BY SegmentListed DEF SegmentCopied
<1>2. SegmentStart = image.bias + Segment.address
  BY CopiedStart
<1>3. PICK s : s = loaded.segment
  OBVIOUS
<1>4. PICK notes : notes = program.notes[s].notes
  OBVIOUS
<1>5. PICK note : note = notes[n + 1]
  OBVIOUS
<1>6. n # Len(notes)
  BY <1>1, <1>2, <1>3, <1>4, ZeroBehindLast
<1>7. PICK first \in Nat : first = SegmentStart
  <2>1. Segment.address \in Nat /\ image.bias \in Nat
    BY SegmentListed, NotesStep DEF SegmentCopied, LoadedInv, IInv, Held, ImageOK, Depicted
  <2> QED
    BY <1>2, <2>1
<1>8. PICK size \in Nat : size = Segment.file
  BY SegmentListed DEF SegmentCopied
<1>9. /\ note.at = loaded.next /\ NoteLies(first, size, note) /\ n + 1 \in DOMAIN notes
      /\ Boundary(notes, n + 1) = loaded.next + 12 + 4 * Len(note.label) + 4 * Len(note.words)
      /\ program.notes[s].whole => Boundary(notes, n + 1) <= size
  BY <1>1, <1>2, <1>3, <1>4, <1>5, <1>6, <1>7, <1>8, NextNoteLies
<1>10. PICK o \in Nat : o = loaded.next /\ o = note.at
  BY <1>9, NoteStarts
<1>11. PICK l \in Nat : l = Len(note.label)
  BY <1>9, NoteFields
<1>12. PICK w \in Nat : w = Len(note.words)
  BY <1>9, NoteFields
<1>13. NameSize = note.name /\ Padded(note.name) = 4 * l /\ Padded(note.size) = 4 * w
  BY <1>7, <1>9, <1>11, <1>12, NoteStarts, NoteFields DEF NameSize
<1>14. NameAt = o + 12 /\ DescAt = o + 12 + 4 * l
  BY <1>10, <1>13 DEF NameAt, DescAt, WordBytes
<1>15. o + 12 <= size => DescSize = note.size /\ NoteKind = note.kind /\ NoteEnd = o + 12 + 4 * l + 4 * w
  <2> SUFFICES ASSUME o + 12 <= size
               PROVE  DescSize = note.size /\ NoteKind = note.kind /\ NoteEnd = o + 12 + 4 * l + 4 * w
    OBVIOUS
  <2>1. Word(first, o + 4) = note.size /\ Word(first, o + 8) = note.kind
    <3>1. NoteLies(first, size, note) /\ note.at + 12 <= size
      BY <1>9, <1>10
    <3>2. Word(first, note.at + 4) = note.size /\ Word(first, note.at + 8) = note.kind
      BY <3>1, NoteHead
    <3> QED
      BY <1>10, <3>2
  <2>2. DescSize = note.size /\ NoteKind = note.kind
    BY <1>7, <1>10, <2>1 DEF DescSize, NoteKind, WordBytes
  <2> QED
    BY <1>13, <1>14, <2>2 DEF NoteEnd
<1>16. Torn => ~program.notes[s].whole
  <2> SUFFICES ASSUME program.notes[s].whole PROVE ~Torn
    OBVIOUS
  <2>1. o + 12 + 4 * l + 4 * w <= size
    BY <1>9, <1>10, <1>11, <1>12
  <2>2. o + 12 <= size /\ o + 12 + 4 * l <= size
    BY <2>1
  <2> QED
    BY <1>8, <1>14, <1>15, <2>1, <2>2 DEF Torn
<1>17. ASSUME ~Torn
       PROVE  /\ NoteEnd = Boundary(notes, n + 1) /\ NoteEnd <= size
              /\ IsBuildId <=> <<s, n + 1>> \in BuildIds
              /\ DescSize = Descriptor(<<s, n + 1>>).size
              /\ BuildId(SegmentStart, DescAt, DescSize) = Descriptor(<<s, n + 1>>)
  <2>1. o + 12 <= size
    BY <1>8, <1>14, <1>17 DEF Torn
  <2>2. /\ NoteEnd = o + 12 + 4 * l + 4 * w /\ o + 12 + 4 * l + 4 * w <= size
        /\ DescSize = note.size /\ NoteKind = note.kind
    BY <1>8, <1>15, <1>17, <2>1 DEF Torn
  <2>3. NoteEnd = Boundary(notes, n + 1) /\ NoteEnd <= size
    BY <1>9, <1>10, <1>11, <1>12, <2>2
  <2>4. Descriptor(<<s, n + 1>>) = [size |-> note.size, words |-> note.words]
    BY <1>4, <1>5 DEF Descriptor
  <2>5. <<s, n + 1>> \in BuildIds <=> note.kind = BuildIdType /\ note.name \in {3, 4} /\ note.label[1] = Gnu
    <3>1. <<s, n + 1>> \in UNION {{i} \X DOMAIN program.notes[i].notes : i \in DOMAIN program.notes}
      BY <1>1, <1>3, <1>4, <1>9
    <3>2. program.notes[<<s, n + 1>>[1]].notes[<<s, n + 1>>[2]] = note
      BY <1>4, <1>5
    <3> QED
      BY <3>1, <3>2 DEF BuildIds
  <2>6. l = 1 => Word(first, o + 12) = note.label[1]
    <3> SUFFICES ASSUME l = 1 PROVE Word(first, o + 12) = note.label[1]
      OBVIOUS
    <3>1. note.label # <<>> /\ o + 12 < size
      <4>1. Len(<<>>) = 0
        OBVIOUS
      <4>2. o + 12 < size
        BY <2>2
      <4>3. Len(note.label) = 1
        BY <1>11
      <4>4. note.label # <<>>
        <5> SUFFICES ASSUME note.label = <<>> PROVE FALSE
          OBVIOUS
        <5>1. Len(note.label) = 0
          BY <4>1, Zenon
        <5>2. 1 = 0
          BY <4>3, <5>1, Zenon
        <5> QED
          BY <5>2
      <4> QED
        BY <4>2, <4>4
    <3>2. NoteLies(first, size, note) /\ note.at + 12 < size
      BY <1>9, <1>10, <3>1
    <3>3. Word(first, note.at + 12) = note.label[1]
      BY <3>1, <3>2, NoteLabel
    <3> QED
      BY <1>10, <3>3
  <2>7. IsBuildId <=> note.kind = BuildIdType /\ note.name \in {3, 4} /\ note.label[1] = Gnu
    <3>1. note.name \in {3, 4} => l = 1
      BY <1>9, <1>11, NoteFields
    <3> QED
      BY <1>7, <1>13, <1>14, <2>2, <2>6, <3>1 DEF IsBuildId, IsGnu
  <2>8. BuildId(SegmentStart, DescAt, DescSize) = [size |-> note.size, words |-> note.words]
    <3>1. [k \in 1 .. w |-> Word(first, o + 12 + 4 * l + (k - 1) * 4)] = note.words
      <4>1. /\ NoteLies(first, size, note)
            /\ note.at + 12 + 4 * Len(note.label) + 4 * Len(note.words) <= size
        BY <1>9, <1>10, <1>11, <1>12, <2>2
      <4>2. note.words = [k \in 1 .. Len(note.words) |->
                            Word(first, note.at + 12 + 4 * Len(note.label) + (k - 1) * 4)]
        BY <4>1, NoteWords
      <4> QED
        BY <1>10, <1>11, <1>12, <4>2
    <3>2. Padded(note.size) \div 4 = w
      BY <1>13
    <3> QED
      BY <1>7, <1>14, <2>2, <3>1, <3>2 DEF BuildId, WordBytes
  <2> QED
    BY <2>2, <2>3, <2>4, <2>5, <2>7, <2>8
<1> QED
  BY <1>1, <1>3, <1>4, <1>8, <1>9, <1>16, <1>17

(* One note further, one more of those past may be a build identifier.       *)
LEMMA OneFurther ==
  ASSUME NotesLie(class, image.bias), NEW n \in Nat
  PROVE  Past(n + 1) = Past(n) \cup ({<<loaded.segment, n + 1>>} \cap BuildIds)
<1>1. \A x \in BuildIds : /\ x[2] \in Nat /\ x = <<x[1], x[2]>>
                          /\ x[2] <= n + 1 <=> x[2] <= n \/ x[2] = n + 1
  <2>1. \A x \in BuildIds : x[2] \in Nat /\ x = <<x[1], x[2]>>
    BY BuildIdPlace
  <2> QED
    BY <2>1
<1>2. PICK s : s = loaded.segment
  OBVIOUS
<1>3. <<s, n + 1>>[1] = s /\ <<s, n + 1>>[2] = n + 1
  OBVIOUS
<1>4. \A x \in BuildIds : x[1] = s /\ x[2] = n + 1 <=> x = <<s, n + 1>>
  BY <1>1, <1>3, Zenon
<1>5. \A x : x \in Past(n + 1) <=> x \in Past(n) \cup ({<<s, n + 1>>} \cap BuildIds)
  BY <1>1, <1>2, <1>4, Zenon DEF Past
<1> QED
  BY <1>2, <1>5

(* The reading is at the next boundary.                                      *)
LEMMA NextBoundary ==
  ASSUME LoadedInv, SegmentCopied, ~AllZero, ~Torn, NotesLie(class, image.bias), NEW n \in Nat, AtNote(n),
         UNCHANGED vars, loaded'.segment = loaded.segment, loaded'.next = NoteEnd,
         loaded'.programs = loaded.programs, Retained(Past(n + 1))'
  PROVE  NotesRead'
<1>1. loaded.step = "notes" /\ loaded.segment <= Len(loaded.programs)
  BY DEF SegmentCopied
<1>2. PICK s : s = loaded.segment
  OBVIOUS
<1>3. /\ s \in DOMAIN program.notes /\ n + 1 \in DOMAIN program.notes[s].notes
      /\ NoteEnd = Boundary(program.notes[s].notes, n + 1) /\ NoteEnd <= Segment.file
  BY <1>2, NoteRead
<1>4. Segment = Listed(s)
  BY <1>1, <1>2, SegmentListed
<1>5. n + 1 <= Len(program.notes[s].notes)
  BY <1>3, NoteSegment
<1>6. PICK end : end = NoteEnd
  OBVIOUS
<1>7. PICK bound : bound = Boundary(program.notes[s].notes, n + 1)
  OBVIOUS
<1>8. Listed(loaded.segment)' = Listed(s) /\ Boundary(program.notes[loaded.segment].notes, n + 1)' = bound
  BY <1>2, <1>7, ImageLies DEF Listed, OwnHeader, Boundary
<1>9. AtNote(n + 1)'
  BY <1>2, <1>3, <1>4, <1>5, <1>7, <1>8, ImageLies DEF AtNote
<1>10. /\ loaded'.segment \in 1 .. Len(loaded'.programs) + 1
       /\ \A i \in DOMAIN program'.notes : i < loaded'.segment => program'.notes[i].whole
  BY <1>1, NotesStep, ImageLies DEF NotesRead
<1>11. n + 1 \in Nat
  OBVIOUS
<1> QED
  BY <1>9, <1>10, <1>11 DEF NotesRead

LEMMA ReadNoteKeeps == ASSUME LoadedInv, ReadNote PROVE LoadedInv'
<1>1. UNCHANGED vars /\ SegmentCopied /\ ~AllZero /\ loaded.step = "notes"
  BY DEF ReadNote, SegmentCopied
<1>2. ASSUME NotesLie(class, image.bias) PROVE \E n \in Nat : AtNote(n) /\ Retained(Past(n))
  BY <1>1, <1>2, NotesStep DEF NotesRead
<1>3. PICK x : \A n \in Nat : x[n] = <<loaded.segment, n + 1>>
  <2>1. \A n \in Nat : [m \in Nat |-> <<loaded.segment, m + 1>>][n] = <<loaded.segment, n + 1>>
    OBVIOUS
  <2> QED
    BY <2>1
<1>4. ASSUME NEW id, loaded' = [loaded EXCEPT !.id = id, !.next = NoteEnd], ~Torn,
             NotesLie(class, image.bias) =>
               \A n \in Nat : AtNote(n) /\ Retained(Past(n)) => Retained(Past(n + 1))'
      PROVE  LoadedInv'
  <2>1. /\ loaded' = [loaded EXCEPT !.segment = loaded.segment, !.got = loaded.got, !.next = NoteEnd, !.id = id]
        /\ loaded'.segment = loaded.segment /\ loaded'.programs = loaded.programs /\ loaded'.next = NoteEnd
        /\ loaded'.got = loaded.got
    BY <1>1, <1>4, NotesStep DEF ReadingOK
  <2>2. GotOK'
    BY <1>1, <2>1, NotesStep, ImageLies DEF GotOK, IsNotes, Segment, SegmentStart, Translate, CheckedAdd,
       SegmentCopied
  <2>3. NotesLie(class, image.bias) => NotesRead'
    BY <1>1, <1>2, <1>4, <2>1, NextBoundary
  <2> QED
    BY <1>1, <2>1, <2>2, <2>3, NotesGoOn
<1>5. CASE Torn /\ Fail("MalformedNote")
  <2>1. NotesLie(class, image.bias) => \E i \in DOMAIN program.notes : ~program.notes[i].whole
    BY <1>1, <1>2, <1>5, NoteRead
  <2> QED
    BY <1>1, <1>5, <2>1, FailKeeps
<1>6. CASE ~Torn /\ ~IsBuildId /\ loaded' = [loaded EXCEPT !.next = NoteEnd]
  <2>1. loaded' = [loaded EXCEPT !.id = loaded.id, !.next = NoteEnd]
    BY <1>1, <1>6, NotesStep DEF ReadingOK
  <2>2. ASSUME NotesLie(class, image.bias), NEW n \in Nat, AtNote(n), Retained(Past(n))
        PROVE  Retained(Past(n + 1))'
    <3>1. <<loaded.segment, n + 1>> \notin BuildIds
      BY <1>1, <1>6, <2>2, NoteRead
    <3>2. Past(n + 1) = Past(n)
      BY <2>2, <3>1, OneFurther
    <3>3. loaded'.id = loaded.id /\ loaded'.segment = loaded.segment
      BY <1>1, <2>1, NotesStep DEF ReadingOK
    <3>4. Past(n + 1)' = Past(n)
      BY <1>1, <3>2, <3>3, ImageLies DEF Past
    <3> QED
      BY <1>1, <2>2, <3>3, <3>4, ImageLies DEF Retained
  <2> QED
    BY <1>4, <1>6, <2>1, <2>2
<1>7. CASE ~Torn /\ IsBuildId /\ DescSize = 0 /\ Fail("EmptyBuildId")
  <2>1. ASSUME NotesLie(class, image.bias) PROVE \E y \in BuildIds : Descriptor(y).size = 0
    <3>1. PICK n \in Nat : AtNote(n)
      BY <1>2, <2>1
    <3>2. <<loaded.segment, n + 1>> \in BuildIds /\ Descriptor(<<loaded.segment, n + 1>>).size = 0
      BY <1>1, <1>7, <2>1, <3>1, NoteRead
    <3> QED
      BY <3>2
  <2> QED
    BY <1>1, <1>7, <2>1, FailKeeps
<1>8. CASE ~Torn /\ IsBuildId /\ DescSize # 0 /\ loaded.id # NoId /\ Fail("Ambiguous")
  <2>1. ASSUME NotesLie(class, image.bias) PROVE \E y, z \in BuildIds : y # z
    <3>1. PICK n \in Nat : AtNote(n) /\ Retained(Past(n))
      BY <1>2, <2>1
    <3>2. <<loaded.segment, n + 1>> \in BuildIds
      BY <1>1, <1>8, <2>1, <3>1, NoteRead
    <3>3. PICK y \in Past(n) : TRUE
      BY <1>8, <3>1 DEF Retained
    <3>4. y \in BuildIds /\ y # <<loaded.segment, n + 1>>
      <4>1. loaded.segment \in 1 .. Own.count
        BY <1>1, <2>1, SegmentListed DEF SegmentCopied
      <4>2. <<loaded.segment, n + 1>> \notin Past(n)
        BY <4>1 DEF Past
      <4> QED
        BY <3>3, <4>2 DEF Past
    <3> QED
      BY <3>2, <3>4
  <2> QED
    BY <1>1, <1>8, <2>1, FailKeeps
<1>9. CASE /\ ~Torn /\ IsBuildId /\ DescSize # 0 /\ loaded.id = NoId
           /\ loaded' = [loaded EXCEPT !.id = BuildId(SegmentStart, DescAt, DescSize), !.next = NoteEnd]
  <2>1. ASSUME NotesLie(class, image.bias), NEW n \in Nat, AtNote(n), Retained(Past(n))
        PROVE  Retained(Past(n + 1))'
    <3>1. PICK y : y = <<loaded.segment, n + 1>>
      OBVIOUS
    <3>2. /\ y \in BuildIds /\ DescSize = Descriptor(y).size
          /\ BuildId(SegmentStart, DescAt, DescSize) = Descriptor(y)
      BY <1>1, <1>9, <2>1, <3>1, NoteRead
    <3>3. Past(n + 1) = {y}
      BY <1>9, <2>1, <3>1, <3>2, OneFurther DEF Retained
    <3>4. loaded'.id = Descriptor(y) /\ loaded'.segment = loaded.segment
      BY <1>1, <1>9, <3>2, NotesStep DEF ReadingOK
    <3>5. Past(n + 1)' = {y}
      BY <1>1, <3>3, <3>4, ImageLies DEF Past
    <3>6. Descriptor(y) # NoId
      BY <1>9, <3>2 DEF NoId
    <3>7. Descriptor(y)' = Descriptor(y)
      BY <1>1, ImageLies
    <3> QED
      BY <3>4, <3>5, <3>6, <3>7 DEF Retained
  <2> QED
    BY <1>4, <1>9, <2>1
<1> QED
  BY <1>5, <1>6, <1>7, <1>8, <1>9 DEF ReadNote

LEMMA LoadedKeeps == ASSUME LoadedInv, [AllNext]_allvars PROVE LoadedInv'
<1>1. CASE UNCHANGED allvars
  BY <1>1, CaptureKeepsLoaded DEF allvars
<1>2. CASE (Publish \/ Exit \/ Capture) /\ UNCHANGED loaded
  BY <1>2, CaptureKeepsLoaded DEF Next
<1>3. CASE Load
  BY <1>3, ReadHeaderKeeps, CopyProgramKeeps, FinishTableKeeps, PassSegmentKeeps, CopyNotesKeeps, EndSegmentKeeps,
     ReadNoteKeeps, FinishNotesKeeps DEF Load
<1> QED
  BY <1>1, <1>2, <1>3 DEF AllNext

(* Where the image's own header names the kernel's table, both copies of it  *)
(* are the same, and executable ranges lie in load segments.                 *)
LEMMA ImpliesTablesAgree == ASSUME LoadedInv PROVE TablesAgree
<1> SUFFICES ASSUME loaded.step = "done", image.bias + ElfHeader.offset = Phdr, ElfHeader.count = Count
             PROVE  /\ loaded.programs = headers
                    /\ \A range \in Executables :
                         \E j \in DOMAIN headers :
                           /\ headers[j].kind = "load"
                           /\ image.bias + headers[j].address <= range[1]
                           /\ range[2] <= image.bias + headers[j].address + headers[j].memory
  BY DEF TablesAgree
<1>1. /\ ProgramsOK /\ Sized /\ Len(loaded.programs) = Own.count /\ Held /\ HeadersOK /\ program \in Programs
      /\ Depicted /\ TableWhole
  BY DEF LoadedInv, ReadingOK, IInv, ImageOK, Held
<1>2. /\ loaded.programs \in Seq(Records) /\ headers \in Seq(Records)
      /\ Len(loaded.programs) = Count /\ Len(headers) = Count
  BY <1>1 DEF ProgramsOK, HeadersOK, TableWhole, Held, ElfHeader, Own
<1>3. ASSUME NEW i \in DOMAIN headers PROVE loaded.programs[i] = headers[i]
  <2>1. TableAt(class, i) \in DOMAIN program.memory /\ headers[i] = Copied(i)
    BY <1>1 DEF HeadersOK
  <2>2. i \in DOMAIN loaded.programs
    BY <1>2
  <2>3. loaded.programs[i] = Listed(i)
    BY <1>1, <2>2 DEF ProgramsOK
  <2>4. image.bias + program.memory[image.bias].offset + (i - 1) * HeaderBytes[class] = TableAt(class, i)
    BY DEF TableAt, ElfHeader, Phdr, Vector
  <2> QED
    BY <2>1, <2>3, <2>4 DEF Copied, Listed, OwnHeader
<1>4. loaded.programs = headers
  BY <1>2, <1>3
<1>5. ASSUME NEW range \in Executables
      PROVE  \E j \in DOMAIN headers :
               /\ headers[j].kind = "load"
               /\ image.bias + headers[j].address <= range[1]
               /\ range[2] <= image.bias + headers[j].address + headers[j].memory
  <2>1. PICK j \in DOMAIN loaded.programs :
          /\ Executable(loaded.programs[j])
          /\ range = <<image.bias + loaded.programs[j].address,
                       image.bias + loaded.programs[j].address + loaded.programs[j].file>>
    BY DEF Executables
  <2>2. headers[j].kind = "load" /\ headers[j].file <= headers[j].memory
    BY <1>1, <1>4, <2>1 DEF Executable, Sized
  <2>3. {headers[j].address, headers[j].file, headers[j].memory} \subseteq Nat /\ image.bias \in Nat
    BY <1>1, <1>4, <2>1, ListedRecord DEF ProgramsOK, Depicted
  <2>4. range[1] = image.bias + headers[j].address /\ range[2] = image.bias + headers[j].address + headers[j].file
    BY <1>4, <2>1
  <2>5. \A b, a, f, m \in Nat : f <= m => b + a <= b + a /\ b + a + f <= b + a + m
    OBVIOUS
  <2>6. /\ image.bias + headers[j].address <= range[1]
        /\ range[2] <= image.bias + headers[j].address + headers[j].memory
    BY <2>2, <2>3, <2>4, <2>5
  <2> QED
    BY <1>4, <2>1, <2>2, <2>6
<1> QED
  BY <1>4, <1>5

(* What is read through an image's own header is what the kernel and the     *)
(* linker put there: the same table, executable ranges inside its load       *)
(* segments, and the only GNU build identifier of the notes that lie in its  *)
(* note segments; and an error about notes is true.                          *)
THEOREM LoadedImagesAreExact == Spec => []LoadedExact
<1>1. LoadedInv => LoadedExact
  BY ImpliesTablesAgree DEF LoadedInv, LoadedExact
<1> QED
  BY <1>1, InitLoaded, LoadedKeeps, PTL DEF Spec

=============================================================================
