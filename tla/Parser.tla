------------------------------- MODULE Parser -------------------------------
(***************************************************************************)
(* The parser of the shell (sh.c).  A line is a sequence of characters;    *)
(* strings in the parsed command are the positions <<q, eq>> where they    *)
(* start and end in the buffer.                                            *)
(***************************************************************************)
EXTENDS Integers, Sequences, SequencesExt, FiniteSets, FiniteSetsExt

CONSTANT MAXARGS

NUL == "nul"
Whitespace == {" "}
Symbols == {"<", "|", ">", "&", ";", "(", ")"}

Ch(s, i) == IF i <= Len(s) THEN s[i] ELSE NUL
Skip(s, i) == Min({j \in i .. Len(s) + 1 : Ch(s, j) \notin Whitespace})

WordEnd(s, i) ==
  Min({j \in i .. Len(s) + 1 :
         Ch(s, j) \in Whitespace \cup Symbols \cup {NUL}})

(* The token at b, where there is no blank, and the place after it. *)
TokenAt(s, b, c) ==
  CASE c = ">" /\ Ch(s, b + 1) = ">" -> [tok |-> "+", q |-> b, eq |-> b + 2]
    [] c = NUL -> [tok |-> NUL, q |-> b, eq |-> b]
    [] c \in Symbols /\ ~(c = ">" /\ Ch(s, b + 1) = ">") ->
         [tok |-> c, q |-> b, eq |-> b + 1]
    [] OTHER -> [tok |-> "a", q |-> b, eq |-> WordEnd(s, b)]

Skipped(s, t) == [tok |-> t.tok, q |-> t.q, eq |-> t.eq,
                  next |-> Skip(s, t.eq)]
TokenFrom(s, b) == Skipped(s, TokenAt(s, b, Ch(s, b)))
gettoken(s, i) == TokenFrom(s, Skip(s, i))

peek(s, i, toks) == Ch(s, Skip(s, i)) \in toks

execcmd(argv) == [type |-> "EXEC", argv |-> argv]
redircmd(c, r) == [type |-> "REDIR", cmd |-> c, file |-> r.file, fd |-> r.fd]
pipecmd(l, r) == [type |-> "PIPE", left |-> l, right |-> r]
listcmd(l, r) == [type |-> "LIST", left |-> l, right |-> r]
backcmd(c) == [type |-> "BACK", cmd |-> c]

(* What a parsing function returns: a command and the place after it, or   *)
(* the message of the panic that ends the process.                         *)
Parsed(c, i) == [cmd |-> c, pos |-> i, err |-> ""]
Panic(m) == [cmd |-> execcmd(<<>>), pos |-> 0, err |-> m]

(* The arguments and redirections of a simple command so far. *)
AddRedir(r, t, f) ==
  IF f.tok # "a" THEN [r EXCEPT !.err = "missing file for redirection"]
  ELSE [r EXCEPT !.pos = f.next,
                 !.redirs = Append(@, [file |-> <<f.q, f.eq>>,
                                       fd |-> IF t.tok = "<" THEN 0 ELSE 1])]
RedirAt(s, r, t) == AddRedir(r, t, gettoken(s, t.next))

RECURSIVE parseredirs(_, _)
parseredirs(s, r) ==
  IF r.err # "" \/ ~peek(s, r.pos, {"<", ">"}) THEN r
  ELSE parseredirs(s, RedirAt(s, r, gettoken(s, r.pos)))

AddArg(r, t) ==
  CASE t.tok # "a" -> [r EXCEPT !.err = "syntax"]
    [] t.tok = "a" /\ Len(r.argv) + 1 >= MAXARGS ->
         [r EXCEPT !.err = "too many args"]
    [] OTHER -> [r EXCEPT !.argv = Append(@, <<t.q, t.eq>>), !.pos = t.next]

RECURSIVE parseargs(_, _)
parseargs(s, r) ==
  IF r.err # "" \/ peek(s, r.pos, {NUL, "|", ")", "&", ";"}) THEN r
  ELSE parseargs(s, parseredirs(s, AddArg(r, gettoken(s, r.pos))))

Args(i) == [argv |-> <<>>, redirs |-> <<>>, pos |-> i, err |-> ""]
Redirected(c, r) ==
  IF r.err # "" THEN Panic(r.err)
  ELSE Parsed(FoldLeft(redircmd, c, r.redirs), r.pos)

RECURSIVE parseline(_, _), parsepipe(_, _)

Closed(s, l) ==
  CASE l.err # "" -> l
    [] l.err = "" /\ ~peek(s, l.pos, {")"}) -> Panic("syntax - missing )")
    [] OTHER -> Redirected(l.cmd,
                           parseredirs(s, Args(gettoken(s, l.pos).next)))
parseblock(s, i) == Closed(s, parseline(s, gettoken(s, i).next))

Simply(r) == Redirected(execcmd(r.argv), r)
parseexec(s, i) ==
  IF peek(s, i, {"("}) THEN parseblock(s, i)
  ELSE Simply(parseargs(s, parseredirs(s, Args(i))))

(* A command and the rest of the line, joined when both were parsed. *)
Joined(type, l, r) ==
  IF r.err # "" THEN r
  ELSE Parsed([type |-> type, left |-> l.cmd, right |-> r.cmd], r.pos)

(* Mutant of Piped: a pipeline ends after its second command. *)
PipedOnce(s, l) ==
  IF l.err # "" \/ ~peek(s, l.pos, {"|"}) THEN l
  ELSE Joined("PIPE", l, parseexec(s, gettoken(s, l.pos).next))

Piped(s, l) ==
  IF l.err # "" \/ ~peek(s, l.pos, {"|"}) THEN l
  ELSE Joined("PIPE", l, parsepipe(s, gettoken(s, l.pos).next))
parsepipe(s, i) == Piped(s, parseexec(s, i))

RECURSIVE Backs(_, _)
Backs(s, l) ==
  IF l.err # "" \/ ~peek(s, l.pos, {"&"}) THEN l
  ELSE Backs(s, Parsed(backcmd(l.cmd), gettoken(s, l.pos).next))

Listed(s, l) ==
  IF l.err # "" \/ ~peek(s, l.pos, {";"}) THEN l
  ELSE Joined("LIST", l, parseline(s, gettoken(s, l.pos).next))
parseline(s, i) == Listed(s, Backs(s, parsepipe(s, i)))

Whole(s, l) ==
  IF l.err = "" /\ Skip(s, l.pos) # Len(s) + 1 THEN Panic("syntax") ELSE l
parsecmd(s) == Whole(s, parseline(s, 1))

(* The places where nulterminate() puts a NUL. *)
RECURSIVE nulterminate(_)

nulterminate(c) ==
  CASE c.type = "EXEC" -> {w[2] : w \in ToSet(c.argv)}
    [] c.type = "REDIR" -> nulterminate(c.cmd) \cup {c.file[2]}
    [] c.type \in {"PIPE", "LIST"} ->
         nulterminate(c.left) \cup nulterminate(c.right)
    [] c.type = "BACK" -> nulterminate(c.cmd)

-----------------------------------------------------------------------------
(* The grammar: the tokens of a line, and every tree that derives them.    *)

Blank(s, i) == Ch(s, i) \in Whitespace
InWord(s, i) == Ch(s, i) \notin Whitespace \cup Symbols \cup {NUL}

(* Of the > before place i an even number stands next to it. *)
StartsArrow(s, i) ==
  LET k == Max({0} \cup {n \in 1 .. i - 1 : \A j \in i - n .. i - 1 :
                                              s[j] = ">"})
  IN  s[i] = ">" /\ k % 2 = 0

Spans(s) ==
  {<<b, e>> \in (1 .. Len(s)) \X (2 .. Len(s) + 1) :
     \/ /\ b < e /\ \A i \in b .. e - 1 : InWord(s, i)
        /\ (b = 1 \/ ~InWord(s, b - 1)) /\ ~InWord(s, e)
     \/ e = b + 1 /\ s[b] \in Symbols \ {">"}
     \/ StartsArrow(s, b) /\ e = IF Ch(s, b + 1) = ">" THEN b + 2 ELSE b + 1}

Sorted(S) == [n \in 1 .. Cardinality(S) |->
                CHOOSE x \in S : Cardinality({y \in S : y < x}) = n - 1]
Tokens(s) == LET b == Sorted({x[1] : x \in Spans(s)})
             IN  [n \in DOMAIN b |-> CHOOSE x \in Spans(s) : x[1] = b[n]]

IsSym(s, t, i, cs) == s[t[i][1]] \in cs
IsWord(s, t, i) == InWord(s, t[i][1])

(* The redirections in tokens i .. j-1, of which the others are args: < or *)
(* > and a word each.                                                      *)
Arrows(s, t, i, j) == {k \in i .. j - 1 : IsSym(s, t, k, {"<", ">"})}
Others(s, t, i, j) ==
  (i .. j - 1) \ {k + n : k \in Arrows(s, t, i, j), n \in {0, 1}}
Redirs(s, t, i, j) ==
  LET ks == Sorted(Arrows(s, t, i, j))
  IN  [n \in DOMAIN ks |-> [file |-> t[ks[n] + 1],
                            fd |-> IF s[t[ks[n]][1]] = "<" THEN 0 ELSE 1]]
Simple(s, t, i, j) ==
  /\ \A k \in (i .. j - 1) \ Arrows(s, t, i, j) : IsWord(s, t, k)
  /\ \A k \in Arrows(s, t, i, j) : k + 1 < j /\ IsWord(s, t, k + 1)
  /\ Cardinality(Others(s, t, i, j)) < MAXARGS

RECURSIVE LineTrees(_, _, _, _), PipeTrees(_, _, _, _)

(* exec ::= ( line ) redir* | (word | redir)* *)
ExecTrees(s, t, i, j) ==
  LET args == Sorted(Others(s, t, i, j))
      ends == {k \in i + 1 .. j - 1 :
                 /\ IsSym(s, t, i, {"("}) /\ IsSym(s, t, k, {")"})
                 /\ Simple(s, t, k + 1, j) /\ Others(s, t, k + 1, j) = {}}
  IN  (IF Simple(s, t, i, j)
       THEN {FoldLeft(redircmd, execcmd([n \in DOMAIN args |-> t[args[n]]]),
                      Redirs(s, t, i, j))}
       ELSE {})
      \cup UNION {{FoldLeft(redircmd, l, Redirs(s, t, k + 1, j)) :
                     l \in LineTrees(s, t, i + 1, k)} : k \in ends}

(* pipe ::= exec | exec "|" pipe *)
PipeTrees(s, t, i, j) ==
  ExecTrees(s, t, i, j) \cup
  UNION {{pipecmd(l, r) : l \in ExecTrees(s, t, i, k),
                          r \in PipeTrees(s, t, k + 1, j)} :
           k \in {k \in i .. j - 1 : IsSym(s, t, k, {"|"})}}

(* job ::= pipe | job & *)
RECURSIVE JobTrees(_, _, _, _)
JobTrees(s, t, i, j) ==
  PipeTrees(s, t, i, j) \cup
  {backcmd(c) : c \in IF j > i /\ IsSym(s, t, j - 1, {"&"})
                      THEN JobTrees(s, t, i, j - 1) ELSE {}}

(* line ::= job | job ; line *)
LineTrees(s, t, i, j) ==
  JobTrees(s, t, i, j) \cup
  UNION {{listcmd(l, r) : l \in JobTrees(s, t, i, k),
                          r \in LineTrees(s, t, k + 1, j)} :
           k \in {k \in i .. j - 1 : IsSym(s, t, k, {";"})}}

Trees(s) == UNION {LineTrees(s, t, 1, Len(t) + 1) : t \in {Tokens(s)}}

(* parsecmd() accepts the lines of the grammar, and builds the only tree   *)
(* there is: a pipeline binds closer than &, and & closer than a list.     *)
ParsesGrammar(s) ==
  \A r \in {parsecmd(s)} : Trees(s) = IF r.err = "" THEN {r.cmd} ELSE {}

(* The words of a command, and the string that starts at q in the buffer   *)
(* once nulterminate() has written its NULs.                               *)
RECURSIVE Words(_)
Words(c) ==
  CASE c.type = "EXEC" -> ToSet(c.argv)
    [] c.type = "REDIR" -> Words(c.cmd) \cup {c.file}
    [] c.type \in {"PIPE", "LIST"} -> Words(c.left) \cup Words(c.right)
    [] c.type = "BACK" -> Words(c.cmd)

CString(s, N, q) ==
  SubSeq(s, q, Min({j \in q .. Len(s) + 1 : j \in N \/ j = Len(s) + 1}) - 1)

(* Every argument and file name is a C string of its own after parsing,    *)
(* though the words were only counted and share the line's buffer.         *)
TerminatesWords(s) ==
  \A r \in {parsecmd(s)} : r.err = "" => \A w \in Words(r.cmd) :
    CString(s, nulterminate(r.cmd), w[1]) = SubSeq(s, w[1], w[2] - 1)
=============================================================================
