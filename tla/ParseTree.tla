------------------------------ MODULE ParseTree ------------------------------
(***************************************************************************)
(* The parse tree of one file, as the builder reads it through the context *)
(* classes ANTLR generates.  A node is a grammar rule or a token; nodes    *)
(* are numbered in the order the parser creates them, so the file rule is  *)
(* node 1 and Null is the null pointer.  Offsets count bytes of the source *)
(* buffer and are size_t: they wrap at SizeMod.                            *)
(***************************************************************************)
EXTENDS Integers, Sequences

CONSTANT SizeMod    \* how many values a size_t has

ASSUME SizeModAssumption == SizeMod \in Nat \ {0}

VARIABLES
  tree,        \* the nodes: symbol, children by symbol, first and last offset
  bufferSize   \* MemoryBuffer::getBufferSize()

Null == 0

Offset == 0..(SizeMod - 1)

\* A node the parser has just created.  kids maps a symbol to the children
\* with that symbol, in source order; text is what the builder will make of
\* the spelling of a literal.
NewTreeNode(sym, start, stop, text) ==
  [sym |-> sym, kids |-> << >>, start |-> start, stop |-> stop, text |-> text]

\* Ctx->block(): the children of context c with a symbol.
Kids(c, sym) == IF sym \in DOMAIN tree[c].kids THEN tree[c].kids[sym] ELSE << >>

\* Ctx->block(I), counted from 1, or the null pointer.
Nth(c, sym, i) == IF i \in DOMAIN Kids(c, sym) THEN Kids(c, sym)[i] ELSE Null

\* Ctx->type(), where the rule has at most one.
The(c, sym) == Nth(c, sym, 1)

Has(c, sym) == The(c, sym) # Null

\* available(Ctx->a(), Ctx->b(), ...): the first child that is not null.
available(c, syms) ==
  IF \E i \in DOMAIN syms : Has(c, syms[i])
  THEN The(c, syms[CHOOSE i \in DOMAIN syms :
                     Has(c, syms[i]) /\ \A j \in 1..(i - 1) : ~ Has(c, syms[j])])
  ELSE Null

\* getToken(...)->getType() over the tokens of an alternative list.
GetToken(c, types) == CHOOSE t \in types : Has(c, t)

\* f with x appended to the sequence under a key (push_back).
AppendAt(f, key, x) ==
  [k \in DOMAIN f \cup {key} |->
     IF k # key THEN f[k] ELSE IF k \in DOMAIN f THEN Append(f[k], x) ELSE << x >>]
=============================================================================
