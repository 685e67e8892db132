------------------------------ MODULE ASTContext -----------------------------
(***************************************************************************)
(* Where the text of an AST lives: the builder's getText makes a StringRef *)
(* into a source buffer, ASTContext interns names and copies strings into  *)
(* its arena, and decodeStringBody works in a buffer of its own that is    *)
(* gone, or used again, when the visitor returns.  A StringRef is a place  *)
(* in one of these memories; what it reads as may change with them.        *)
(***************************************************************************)
EXTENDS Integers, Sequences

CONSTANTS
  Files,      \* the contents of the source buffers, a sequence
  Decoded,    \* what string bodies may decode to
  MaxNodes    \* bound on the nodes built

\* Files and decoded strings are texts.
ASSUME FilesAssumption ==
  MaxNodes \in Nat /\ Files \in Seq(Seq(STRING)) /\ Decoded \subseteq Seq(STRING)

VARIABLES
  local,         \* the SmallVector of decodeStringBody
  copies,        \* BumpAlloc: the texts allocateCopy has copied
  infos,         \* BumpAlloc: the IdentifierInfos, in allocation order
  Identifiers,   \* the interning table, spelling to IdentifierInfo
  nodes          \* AST nodes with a name or a string, and the text each was made for

contextVars == << local, copies, infos, Identifiers, nodes >>

-----------------------------------------------------------------------------
(* StringRefs.                                                             *)

InFile(file, from, n) == [memory |-> "file", at |-> file, from |-> from, len |-> n]
InLocal(n) == [memory |-> "local", at |-> 0, from |-> 1, len |-> n]
InArena(at, n) == [memory |-> "arena", at |-> at, from |-> 1, len |-> n]
EmptyRef == [memory |-> "none", at |-> 0, from |-> 1, len |-> 0]

Memory(ref) ==
  CASE ref.memory = "file" -> Files[ref.at] [] ref.memory = "arena" -> copies[ref.at]
    [] ref.memory = "local" -> local [] OTHER -> << >>

Read(ref) == SubSeq(Memory(ref), ref.from, ref.from + ref.len - 1)

\* ASTBuilder::getText, both ends inclusive and counted from 0.
getText(file, start, stop) ==
  LET Size == Len(Files[file])
      last == IF stop >= Size THEN Size - 1 ELSE stop
  IN  IF start >= Size \/ stop < start THEN EmptyRef
      ELSE InFile(file, start + 1, last - start + 1)

-----------------------------------------------------------------------------
(* The context.                                                            *)

Node(info, value, text) == [info |-> info, value |-> value, text |-> text]

\* Mutant: a name is interned by where it stands, not by how it is spelled.
Known_SamePlace(ref) == \E i \in DOMAIN infos : infos[i].Name = ref

\* Identifiers.find.
Known(ref) == Read(ref) \in DOMAIN Identifiers

\* The IdentifierInfo getIdentifier returns.
InfoOf(ref) == IF Known(ref) THEN Identifiers[Read(ref)] ELSE Len(infos) + 1

\* getIdentifier(Name, IsKeyword): the first call decides about IsKeyword.
getIdentifier(ref, IsKeyword) ==
  IF Known(ref) THEN UNCHANGED << infos, Identifiers >>
  ELSE /\ infos' = Append(infos, [Name |-> ref, IsKeyword |-> IsKeyword])
       /\ Identifiers' = [s \in DOMAIN Identifiers \cup {Read(ref)} |->
                            IF s = Read(ref) THEN Len(infos) + 1 ELSE Identifiers[s]]

\* Mutant: the reference is kept and nothing is copied.
allocateCopy_Aliases(ref, bytes) == copies' = copies /\ nodes' = Append(nodes, Node(0, ref, bytes))

\* Result->Value = allocateCopy(Str).
allocateCopy(ref, bytes) ==
  /\ copies' = IF bytes = << >> THEN copies ELSE Append(copies, bytes)
  /\ nodes' = Append(nodes, Node(0, IF bytes = << >> THEN EmptyRef
                                    ELSE InArena(Len(copies) + 1, Len(bytes)), bytes))

ContextInit ==
  local = << >> /\ copies = << >> /\ infos = << >> /\ Identifiers = << >> /\ nodes = << >>

\* Where a token may stand: file, start and stop.
Tokens ==
  LET offsets(file) == 0..(Len(Files[file]) - 1)
  IN  UNION {{<< file, t[1], t[2] >> : t \in {t \in offsets(file) \X offsets(file) : t[1] <= t[2]}} :
             file \in DOMAIN Files}

Building == Len(nodes) < MaxNodes

\* Result->Name = getIdentifier(Ctx->IDENTIFIER()).
NameNode ==
  /\ Building
  /\ \E t \in Tokens :
       LET Text == getText(t[1], t[2], t[3])
       IN  /\ getIdentifier(Text, FALSE)
           /\ nodes' = Append(nodes, Node(InfoOf(Text), EmptyRef, SubSeq(Files[t[1]], t[2] + 1, t[3] + 1)))
  /\ UNCHANGED << local, copies >>

\* visitLiteralConstant on a string whose body can be decoded.
DecodedString ==
  /\ Building
  /\ \E bytes \in Decoded :
       /\ local' = bytes \o SubSeq(local, Len(bytes) + 1, Len(local))
       /\ allocateCopy(InLocal(Len(bytes)), bytes)
  /\ UNCHANGED << infos, Identifiers >>

\* The same on one that cannot: the raw text is kept.
RawString ==
  /\ Building
  /\ \E t \in Tokens : LET Body == getText(t[1], t[2], t[3]) IN allocateCopy(Body, Read(Body))
  /\ UNCHANGED << local, infos, Identifiers >>

ContextNext == NameNode \/ DecodedString \/ RawString

ContextDone == Len(nodes) = MaxNodes /\ UNCHANGED contextVars

ContextSpec == ContextInit /\ [][ContextNext \/ ContextDone]_contextVars

-----------------------------------------------------------------------------

\* IdentifierInfo::operator==: "pointer identity is a valid equality test",
\* for names from different places and different files too.
SameNameSamePointer ==
  \A m, n \in DOMAIN nodes :
    (nodes[m].info # 0 /\ nodes[n].info # 0) =>
      (nodes[m].info = nodes[n].info <=> nodes[m].text = nodes[n].text)

\* A name or a string that is part of an AST reads as it did when it was
\* built, whatever is decoded, named or copied later.
TextsKept ==
  \A n \in DOMAIN nodes :
    Read(IF nodes[n].info = 0 THEN nodes[n].value ELSE infos[nodes[n].info].Name) = nodes[n].text
=============================================================================
