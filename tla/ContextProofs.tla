---------------------------- MODULE ContextProofs ----------------------------
(***************************************************************************)
(* The text of an AST stays what it was: SameNameSamePointer and TextsKept *)
(* for all files, all decoded strings and any number of nodes.  What makes *)
(* them inductive is ContextInv: the interning table is a bijection        *)
(* between spellings and entries, and no text is read through a reference  *)
(* into the decoder's buffer.                                              *)
(***************************************************************************)
EXTENDS ASTContext, TLAPS, SequenceTheorems

Text == Seq(STRING)
Ref == [memory : {"file", "local", "arena", "none"}, at : Nat, from : Nat, len : Nat]
Info == [Name : Ref, IsKeyword : BOOLEAN]
NodeType == [info : Nat, value : Ref, text : Text]

ContextTypes ==
  copies \in Seq(Text) /\ infos \in Seq(Info) /\ nodes \in Seq(NodeType)

\* A reference into memory that is never written again.
Stable(ref) ==
  ref.memory \in {"file", "none"} \/ (ref.memory = "arena" /\ ref.at \in DOMAIN copies)

\* Each entry is in the table under the spelling of its name, and each
\* spelling leads to an entry that is spelled so.
TableOK ==
  /\ \A i \in DOMAIN infos :
       /\ Stable(infos[i].Name)
       /\ Read(infos[i].Name) \in DOMAIN Identifiers /\ Identifiers[Read(infos[i].Name)] = i
  /\ \A s \in DOMAIN Identifiers :
       Identifiers[s] \in DOMAIN infos /\ Read(infos[Identifiers[s]].Name) = s

\* A node reads, through its entry or its value, as the text it was made for.
Reads(node) ==
  IF node.info = 0 THEN Stable(node.value) /\ Read(node.value) = node.text
  ELSE node.info \in DOMAIN infos /\ Read(infos[node.info].Name) = node.text

NodesRead == \A n \in DOMAIN nodes : Reads(nodes[n])

ContextInv == ContextTypes /\ TableOK /\ NodesRead

-----------------------------------------------------------------------------
(* References.                                                             *)

\* The arena only grows.
Grows == \A k \in DOMAIN copies : k \in DOMAIN copies' /\ copies'[k] = copies[k]

\* What is read through a stable reference stays, whatever is decoded or copied.
LEMMA ReadKept ==
  ASSUME Grows, NEW ref, Stable(ref)
  PROVE  Stable(ref)' /\ Read(ref)' = Read(ref)
  BY DEF Grows, Stable, Read, Memory

\* A sequence is a subsequence of itself.
LEMMA Whole ==
  ASSUME NEW S, NEW s \in Seq(S)
  PROVE  SubSeq(s, 1, Len(s)) = s
  OBVIOUS

\* getText makes a reference to the bytes of the token.
LEMMA TokenText ==
  ASSUME NEW t \in Tokens
  PROVE  /\ getText(t[1], t[2], t[3]) \in Ref
         /\ getText(t[1], t[2], t[3]).memory = "file"
         /\ Read(getText(t[1], t[2], t[3])) = SubSeq(Files[t[1]], t[2] + 1, t[3] + 1)
         /\ SubSeq(Files[t[1]], t[2] + 1, t[3] + 1) \in Text
<1>1. PICK file \in DOMAIN Files, start \in Int, stop \in Int :
        /\ start \in 0..(Len(Files[file]) - 1) /\ stop \in 0..(Len(Files[file]) - 1)
        /\ start <= stop /\ t = << file, start, stop >>
  BY DEF Tokens
<1>2. Files[file] \in Seq(STRING) /\ file \in Nat /\ Len(Files[file]) \in Nat
  BY FilesAssumption
<1>3. PICK buffer : buffer = Files[file]
  OBVIOUS
<1>4. getText(file, start, stop) = InFile(file, start + 1, stop - start + 1)
  BY <1>1, <1>2 DEF getText
<1>5. /\ start + 1 \in Nat /\ stop - start + 1 \in Nat
      /\ (start + 1) + (stop - start + 1) - 1 = stop + 1
  BY <1>1, <1>2
<1>6. PICK ref : ref = InFile(file, start + 1, stop - start + 1)
  OBVIOUS
<1>7. ref \in Ref /\ ref.memory = "file" /\ ref.at = file /\ ref.from = start + 1
      /\ ref.len = stop - start + 1
  BY <1>2, <1>5, <1>6 DEF InFile, Ref
<1>8. Read(ref) = SubSeq(buffer, start + 1, stop + 1)
  BY <1>3, <1>5, <1>7 DEF Read, Memory
<1>9. SubSeq(buffer, start + 1, stop + 1) \in Seq(STRING)
  <2>1. \A i \in (start + 1)..(stop + 1) : buffer[i] \in STRING
    BY <1>1, <1>2, <1>3
  <2> QED
    BY <1>1, <1>2, <1>3, <2>1, SubSeqProperties
<1>10. t[1] = file /\ t[2] = start /\ t[3] = stop
  BY <1>1
<1> QED
  BY <1>3, <1>4, <1>6, <1>7, <1>8, <1>9, <1>10 DEF Text

-----------------------------------------------------------------------------
(* The steps.                                                              *)

\* Entries are added behind the others.
Extended == /\ infos' \in Seq(Info) /\ Len(infos) <= Len(infos')
            /\ \A i \in DOMAIN infos : infos'[i] = infos[i]

\* An older node reads as it did.
LEMMA StillReads ==
  ASSUME ContextTypes, TableOK, Grows, Extended, NEW old, Reads(old)
  PROVE  Reads(old)'
<1>1. CASE old.info = 0
  <2>1. PICK ref : ref = old.value
    OBVIOUS
  <2>2. Stable(ref)' /\ Read(ref)' = old.text
    BY <1>1, <2>1, ReadKept DEF Reads
  <2> QED
    BY <1>1, <2>1, <2>2 DEF Reads
<1>2. CASE old.info # 0
  <2>1. PICK ref : ref = infos[old.info].Name
    OBVIOUS
  <2>2. old.info \in DOMAIN infos /\ Read(ref) = old.text /\ Stable(ref)
    BY <1>2, <2>1 DEF Reads, TableOK
  <2>3. Read(ref)' = old.text
    BY <2>2, ReadKept
  <2>4. infos'[old.info].Name = ref /\ old.info \in DOMAIN infos'
    <3>1. DOMAIN infos = 1..Len(infos) /\ DOMAIN infos' = 1..Len(infos')
          /\ Len(infos) \in Nat /\ Len(infos') \in Nat
      BY DEF ContextTypes, Extended
    <3> QED
      BY <2>1, <2>2, <3>1 DEF Extended
  <2> QED
    BY <1>2, <2>3, <2>4 DEF Reads
<1> QED
  BY <1>1, <1>2

\* A node is added that reads as it should: all do.
LEMMA NodeAdded ==
  ASSUME ContextInv, Grows, Extended,
         NEW node \in NodeType, nodes' = Append(nodes, node), Reads(node)'
  PROVE  NodesRead' /\ nodes' \in Seq(NodeType)
<1>1. /\ nodes \in Seq(NodeType) /\ Len(nodes) \in Nat /\ DOMAIN nodes = 1..Len(nodes)
  BY DEF ContextInv, ContextTypes
<1>2. /\ nodes' \in Seq(NodeType) /\ DOMAIN nodes' = 1..(Len(nodes) + 1)
      /\ nodes'[Len(nodes) + 1] = node /\ \A n \in DOMAIN nodes : nodes'[n] = nodes[n]
  BY <1>1
<1>3. ASSUME NEW n \in DOMAIN nodes' PROVE Reads(nodes[n])'
  <2>1. PICK x : x = nodes'[n]
    OBVIOUS
  <2>2. Reads(x)'
    <3>1. n \in DOMAIN nodes \/ n = Len(nodes) + 1
      BY <1>1, <1>2
    <3>2. CASE n \in DOMAIN nodes
      <4>1. x = nodes[n] /\ Reads(nodes[n])
        BY <1>2, <2>1, <3>2 DEF ContextInv, NodesRead
      <4>2. Reads(x)
        BY <4>1
      <4> QED
        BY <4>2, StillReads DEF ContextInv
    <3>3. CASE n = Len(nodes) + 1
      BY <1>2, <2>1, <3>3 DEF Reads
    <3> QED
      BY <3>1, <3>2, <3>3
  <2> QED
    BY <2>1, <2>2 DEF Reads
<1> QED
  BY <1>2, <1>3 DEF NodesRead

\* The table is not touched.
LEMMA TableKept ==
  ASSUME ContextInv, Grows, UNCHANGED << infos, Identifiers >>
  PROVE  TableOK' /\ Extended
<1>1. ASSUME NEW i \in DOMAIN infos
      PROVE  Stable(infos[i].Name)' /\ Read(infos[i].Name)' = Read(infos[i].Name)
  <2>1. PICK ref : ref = infos[i].Name
    OBVIOUS
  <2>2. Stable(ref)' /\ Read(ref)' = Read(ref)
    BY <2>1, ReadKept DEF ContextInv, TableOK
  <2>3. infos'[i].Name = ref
    BY <2>1
  <2> QED
    BY <2>1, <2>2, <2>3
<1>2. TableOK'
  BY <1>1 DEF ContextInv, TableOK
<1>3. infos \in Seq(Info) /\ Len(infos) \in Nat
  BY DEF ContextInv, ContextTypes
<1> QED
  BY <1>2, <1>3 DEF Extended

\* allocateCopy: the node refers to a copy of its own.
LEMMA CopyOK ==
  ASSUME ContextInv, NEW ref, NEW bytes \in Text, allocateCopy(ref, bytes),
         UNCHANGED << infos, Identifiers >>
  PROVE  ContextInv'
<1>1. copies \in Seq(Text) /\ Len(copies) \in Nat /\ DOMAIN copies = 1..Len(copies)
  BY DEF ContextInv, ContextTypes
<1>2. PICK node : /\ nodes' = Append(nodes, node)
                  /\ node = Node(0, IF bytes = << >> THEN EmptyRef
                                    ELSE InArena(Len(copies) + 1, Len(bytes)), bytes)
  BY DEF allocateCopy
<1>3. CASE bytes = << >>
  <2>1. copies' = copies
    BY <1>3 DEF allocateCopy
  <2>2. node = Node(0, EmptyRef, << >>)
    BY <1>2, <1>3
  <2>3. node \in NodeType /\ node.info = 0 /\ node.value = EmptyRef /\ node.text = << >>
    BY <2>2, <1>3 DEF Node, NodeType, EmptyRef, Ref
  <2>4. Stable(EmptyRef)' /\ Read(EmptyRef)' = << >>
    BY DEF Stable, Read, Memory, EmptyRef
  <2>5. Reads(node)'
    BY <2>3, <2>4 DEF Reads
  <2>6. Grows
    BY <2>1 DEF Grows
  <2> QED
    BY <1>1, <1>2, <2>1, <2>3, <2>5, <2>6, TableKept, NodeAdded
       DEF ContextInv, ContextTypes, Extended
<1>4. CASE bytes # << >>
  <2>1. PICK copy, id : copy = InArena(id, Len(bytes)) /\ id = Len(copies) + 1
    OBVIOUS
  <2>2. copies' = Append(copies, bytes)
    BY <1>4 DEF allocateCopy
  <2>3. /\ copies' \in Seq(Text) /\ id \in DOMAIN copies' /\ copies'[id] = bytes
        /\ \A k \in DOMAIN copies : k \in DOMAIN copies' /\ copies'[k] = copies[k]
        /\ id \in Nat
    BY <1>1, <2>1, <2>2
  <2>4. Len(bytes) \in Nat /\ SubSeq(bytes, 1, Len(bytes)) = bytes
    BY Whole DEF Text
  <2>5. /\ copy \in Ref /\ copy.memory = "arena" /\ copy.at = id /\ copy.from = 1
        /\ copy.len = Len(bytes)
    BY <2>1, <2>3, <2>4 DEF InArena, Ref
  <2>6. node = Node(0, copy, bytes)
    BY <1>2, <1>4, <2>1
  <2>7. node \in NodeType /\ node.info = 0 /\ node.value = copy /\ node.text = bytes
    BY <2>5, <2>6 DEF Node, NodeType
  <2>8. Stable(copy)' /\ Read(copy)' = bytes
    <3>1. Stable(copy)'
      BY <2>3, <2>5 DEF Stable
    <3>2. Memory(copy)' = bytes
      BY <2>3, <2>5 DEF Memory
    <3>3. 1 + Len(bytes) - 1 = Len(bytes)
      BY <2>4
    <3> QED
      BY <2>4, <2>5, <3>1, <3>2, <3>3 DEF Read
  <2>9. Reads(node)'
    BY <2>7, <2>8 DEF Reads
  <2>10. Grows
    BY <2>3 DEF Grows
  <2> QED
    BY <1>2, <2>3, <2>7, <2>9, <2>10, TableKept, NodeAdded
       DEF ContextInv, ContextTypes, Extended
<1> QED
  BY <1>3, <1>4

\* getIdentifier: a spelling that is not in the table gets an entry.
LEMMA NewName ==
  ASSUME ContextInv, Grows, NEW ref \in Ref, Stable(ref), ~ Known(ref), getIdentifier(ref, FALSE)
  PROVE  /\ TableOK' /\ Extended /\ Len(infos) + 1 \in DOMAIN infos'
         /\ infos'[Len(infos) + 1].Name = ref
<1>1. PICK info, id, name :
        info = [Name |-> ref, IsKeyword |-> FALSE] /\ id = Len(infos) + 1 /\ name = Read(ref)
  OBVIOUS
<1>2. /\ infos \in Seq(Info) /\ Len(infos) \in Nat /\ DOMAIN infos = 1..Len(infos)
      /\ info \in Info /\ info.Name = ref
  BY <1>1 DEF ContextInv, ContextTypes, Info
<1>3. /\ infos' = Append(infos, info) /\ name \notin DOMAIN Identifiers
      /\ Identifiers' = [s \in DOMAIN Identifiers \cup {name} |->
                           IF s = name THEN id ELSE Identifiers[s]]
  BY <1>1 DEF getIdentifier, Known
<1>4. /\ infos' \in Seq(Info) /\ Len(infos') = id /\ DOMAIN infos' = 1..id /\ infos'[id] = info
      /\ \A i \in DOMAIN infos : infos'[i] = infos[i]
      /\ \A i \in DOMAIN infos' : i \in DOMAIN infos \/ i = id
  BY <1>1, <1>2, <1>3
<1>5. Stable(ref)' /\ Read(ref)' = name
  BY <1>1, ReadKept
<1>6. ASSUME NEW i \in DOMAIN infos
      PROVE  /\ Stable(infos[i].Name)' /\ Read(infos[i].Name)' = Read(infos[i].Name)
             /\ Read(infos[i].Name) \in DOMAIN Identifiers
             /\ Identifiers[Read(infos[i].Name)] = i
  <2>1. PICK old : old = infos[i].Name
    OBVIOUS
  <2>2. Stable(old) /\ Read(old) \in DOMAIN Identifiers /\ Identifiers[Read(old)] = i
    BY <2>1 DEF ContextInv, TableOK
  <2>3. Stable(old)' /\ Read(old)' = Read(old)
    BY <2>2, ReadKept
  <2>4. infos'[i].Name = old
    BY <1>4, <2>1
  <2> QED
    BY <2>1, <2>2, <2>3, <2>4
<1>7. ASSUME NEW i \in DOMAIN infos'
      PROVE  /\ Stable(infos[i].Name)'
             /\ Read(infos[i].Name)' \in DOMAIN Identifiers'
             /\ Identifiers'[Read(infos[i].Name)'] = i
  <2>1. CASE i \in DOMAIN infos
    <3>1. Read(infos[i].Name) # name
      BY <1>3, <1>6, <2>1
    <3> QED
      BY <1>3, <1>6, <2>1, <3>1
  <2>2. CASE i = id
    <3>1. infos'[i].Name = ref
      BY <1>2, <1>4, <2>2
    <3>2. Stable(infos[i].Name)' /\ Read(infos[i].Name)' = name
      BY <1>5, <3>1
    <3> QED
      BY <1>3, <2>2, <3>2
  <2> QED
    BY <1>4, <2>1, <2>2
<1>8. ASSUME NEW s \in DOMAIN Identifiers'
      PROVE  Identifiers'[s] \in DOMAIN infos' /\ Read(infos[Identifiers[s]].Name)' = s
  <2>1. PICK i : i = Identifiers'[s]
    OBVIOUS
  <2>2. i \in DOMAIN infos' /\ Read(infos[i].Name)' = s
    <3>1. CASE s = name
      <4>1. i = id /\ i \in DOMAIN infos' /\ infos'[i].Name = ref
        BY <1>1, <1>2, <1>3, <1>4, <2>1, <3>1
      <4> QED
        BY <1>5, <3>1, <4>1
    <3>2. CASE s # name
      <4>1. i = Identifiers[s] /\ s \in DOMAIN Identifiers
        BY <1>3, <2>1, <3>2
      <4>2. i \in DOMAIN infos /\ Read(infos[i].Name) = s
        BY <4>1 DEF ContextInv, TableOK
      <4> QED
        BY <1>1, <1>2, <1>4, <1>6, <4>2
    <3> QED
      BY <3>1, <3>2
  <2> QED
    BY <2>1, <2>2
<1>9. TableOK'
  BY <1>7, <1>8 DEF TableOK
<1> QED
  BY <1>1, <1>2, <1>4, <1>9 DEF Extended

\* A name: found in the table or entered there, its entry is spelled like it.
LEMMA NameOK ==
  ASSUME ContextInv, NameNode
  PROVE  ContextInv'
<1>1. PICK t \in Tokens :
        LET Text_ == getText(t[1], t[2], t[3])
        IN  /\ getIdentifier(Text_, FALSE)
            /\ nodes' = Append(nodes, Node(InfoOf(Text_), EmptyRef,
                                          SubSeq(Files[t[1]], t[2] + 1, t[3] + 1)))
  BY DEF NameNode
<1>2. PICK ref, text, id :
        /\ ref = getText(t[1], t[2], t[3]) /\ text = SubSeq(Files[t[1]], t[2] + 1, t[3] + 1)
        /\ id = InfoOf(ref)
  OBVIOUS
<1>3. ref \in Ref /\ ref.memory = "file" /\ Read(ref) = text /\ text \in Text
  BY <1>2, TokenText
<1>4. getIdentifier(ref, FALSE) /\ nodes' = Append(nodes, Node(id, EmptyRef, text))
  BY <1>1, <1>2
<1>5. copies' = copies /\ Grows /\ Stable(ref)
  BY <1>3 DEF NameNode, Grows, Stable
<1>6. PICK node : node = Node(id, EmptyRef, text)
  OBVIOUS
<1>7. node.info = id /\ node.text = text /\ (id \in Nat => node \in NodeType)
  BY <1>3, <1>6 DEF Node, NodeType, EmptyRef, Ref
<1>8. /\ infos \in Seq(Info) /\ Len(infos) \in Nat /\ DOMAIN infos = 1..Len(infos)
  BY DEF ContextInv, ContextTypes
<1>9. TableOK' /\ Extended /\ id \in DOMAIN infos' /\ Read(infos[id].Name)' = text
  <2>1. CASE Known(ref)
    <3>1. UNCHANGED << infos, Identifiers >> /\ id = Identifiers[Read(ref)]
      BY <1>2, <1>4, <2>1 DEF getIdentifier, InfoOf
    <3>2. id \in DOMAIN infos /\ Read(infos[id].Name) = text /\ Stable(infos[id].Name)
      BY <1>3, <2>1, <3>1 DEF Known, ContextInv, TableOK
    <3>3. PICK name : name = infos[id].Name
      OBVIOUS
    <3>4. Read(name)' = text
      BY <1>5, <3>2, <3>3, ReadKept
    <3> QED
      BY <1>5, <3>1, <3>2, <3>3, <3>4, TableKept
  <2>2. CASE ~ Known(ref)
    <3>1. id = Len(infos) + 1
      BY <1>2, <2>2 DEF InfoOf
    <3>2. TableOK' /\ Extended /\ id \in DOMAIN infos' /\ infos'[id].Name = ref
      BY <1>3, <1>4, <1>5, <2>2, <3>1, NewName
    <3>3. Read(ref)' = text
      BY <1>3, <1>5, ReadKept
    <3> QED
      BY <3>2, <3>3
  <2> QED
    BY <2>1, <2>2
<1>10. id \in Nat /\ id # 0
  BY <1>8, <1>9 DEF Extended
<1>11. Reads(node)'
  BY <1>7, <1>9, <1>10 DEF Reads
<1>12. NodesRead' /\ nodes' \in Seq(NodeType)
  BY <1>4, <1>5, <1>6, <1>7, <1>9, <1>10, <1>11, NodeAdded
<1> QED
  BY <1>5, <1>9, <1>12 DEF ContextInv, ContextTypes, Extended

\* Every step keeps the invariant.
LEMMA ContextNextInv == ContextInv /\ [ContextNext \/ ContextDone]_contextVars => ContextInv'
<1> SUFFICES ASSUME ContextInv, [ContextNext \/ ContextDone]_contextVars PROVE ContextInv'
  OBVIOUS
<1>1. CASE NameNode
  BY <1>1, NameOK
<1>2. CASE DecodedString
  <2>1. PICK bytes \in Decoded : allocateCopy(InLocal(Len(bytes)), bytes)
    BY <1>2 DEF DecodedString
  <2>2. bytes \in Text
    BY FilesAssumption DEF Text
  <2> QED
    BY <1>2, <2>1, <2>2, CopyOK DEF DecodedString
<1>3. CASE RawString
  <2>1. PICK t \in Tokens : LET Body == getText(t[1], t[2], t[3]) IN allocateCopy(Body, Read(Body))
    BY <1>3 DEF RawString
  <2>2. PICK ref : ref = getText(t[1], t[2], t[3])
    OBVIOUS
  <2>3. Read(ref) \in Text
    BY <2>2, TokenText
  <2> QED
    BY <1>3, <2>1, <2>2, <2>3, CopyOK DEF RawString
<1>4. CASE UNCHANGED contextVars
  BY <1>4 DEF contextVars, ContextInv, ContextTypes, TableOK, NodesRead, Reads, Stable, Read, Memory
<1> QED
  BY <1>1, <1>2, <1>3, <1>4 DEF ContextNext, ContextDone

-----------------------------------------------------------------------------
(* The theorems.                                                           *)

\* The table is a bijection and every text reads as it should, throughout.
THEOREM ContextInvariance == ContextSpec => []ContextInv
<1>1. ContextInit => ContextInv
  BY DEF ContextInit, ContextInv, ContextTypes, TableOK, NodesRead
<1> QED
  BY <1>1, ContextNextInv, PTL DEF ContextSpec

\* IdentifierInfo::operator== compares pointers: names are the same exactly if
\* they are spelled the same, in whichever files they stand.
THEOREM SameNameSamePointerHolds == ContextSpec => []SameNameSamePointer
<1>1. ContextInv => SameNameSamePointer
  <2> SUFFICES ASSUME ContextInv, NEW m \in DOMAIN nodes, NEW n \in DOMAIN nodes,
                      nodes[m].info # 0, nodes[n].info # 0
               PROVE  nodes[m].info = nodes[n].info <=> nodes[m].text = nodes[n].text
    BY DEF SameNameSamePointer
  <2>1. /\ nodes[m].info \in DOMAIN infos /\ Read(infos[nodes[m].info].Name) = nodes[m].text
        /\ nodes[n].info \in DOMAIN infos /\ Read(infos[nodes[n].info].Name) = nodes[n].text
    BY DEF ContextInv, NodesRead, Reads
  <2>2. Identifiers[nodes[m].text] = nodes[m].info /\ Identifiers[nodes[n].text] = nodes[n].info
    BY <2>1 DEF ContextInv, TableOK
  <2> QED
    BY <2>1, <2>2
<1> QED
  BY <1>1, ContextInvariance, PTL

\* No StringRef of an AST dangles or reads otherwise than when it was made:
\* the decoder's buffer is copied before it is used again.
THEOREM TextsKeptHolds == ContextSpec => []TextsKept
<1>1. ContextInv => TextsKept
  <2> SUFFICES ASSUME ContextInv, NEW n \in DOMAIN nodes
               PROVE  Read(IF nodes[n].info = 0 THEN nodes[n].value
                           ELSE infos[nodes[n].info].Name) = nodes[n].text
    BY DEF TextsKept
  <2>1. Reads(nodes[n])
    BY DEF ContextInv, NodesRead
  <2> QED
    BY <2>1 DEF Reads
<1> QED
  BY <1>1, ContextInvariance, PTL
=============================================================================
