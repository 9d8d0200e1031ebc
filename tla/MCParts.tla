------------------------------ MODULE MCParts ------------------------------
(***************************************************************************)
(* The parts that need no other part of the system: the shell with its     *)
(* parser, the heap of a program, the call counters, grep and wc, the      *)
(* keyboard, and functions of text and numbers.  A behaviour is one of     *)
(* them, its job; the others stay as they begin.  The inputs of the        *)
(* functions are the initial values of inp.                                *)
(***************************************************************************)
EXTENDS Shell, Calls

CONSTANTS HeaderSize, MinCore, MaxBreak,   \* Heap
          BufSize,                         \* Filters
          MaxBytes,                        \* Keyboard
          DIRSIZ, Word, KERNBASE           \* Text

VARIABLES job, inp,
          heap, brk, used, core,
          data, pos, buf, out, dropped, count,
          shift, bytes, held

Pattern == <<"a">>
Sizes == {0, 9, 25}
Keys == {30, 42, 54, 157, 58}   \* a, both shifts, right control, caps lock

H == INSTANCE Heap
F == INSTANCE Filters
K == INSTANCE Keyboard
T == INSTANCE Text

heapvars   == <<heap, brk, used, core>>
filtervars == <<data, pos, buf, out, dropped, count>>
keyvars    == <<shift, bytes, held>>
partvars   == <<vars, job, inp, heapvars, callvars, filtervars, keyvars>>

MCLines == {<<>>, <<"w", "|", "r">>, <<"(", "w", "|", "r", ")", "&">>,
            <<"w", ">", "f", ";", "r", "<", "f">>,
            <<"x", "&", ";", "w", "&">>, <<"c", "d", " ", "f">>, <<"w", "|">>,
            <<"&", "w">>}

Strings(A, n) == UNION {[1 .. k -> A] : k \in 0 .. n}

(* Inputs: every short line, path, pattern and number, and a few long      *)
(* lines.                                                                  *)
LineInputs ==
  Strings(Whitespace \cup Symbols \cup {"a"}, 4) \cup
  {<<"(", "a", "|", "a", ";", "a", ")", "&", ">", "a">>,
   <<"(", "(", "a", ")", "&", ")", "<", "a", "|", "a", "a">>,
   <<"a", ">", ">", ">", "a">>, <<"a", " ", "a", " ", "a">>,
   <<"a", "<", "a", ">", ">", "a", "&", "&", ";", "a", "|", "a", "|", "a">>}

Names == {"x", "y"}
Buffers == [1 .. DIRSIZ -> Names \cup {T!NUL}]

Inputs(kind) ==
  CASE kind = "line" -> LineInputs
    [] kind = "path" -> Strings({"x", "/"}, 6) \X {<<"y", "y">>}
    [] kind = "name" -> Strings(Names, 3) \X Strings(Names, 3) \X Buffers
    [] kind = "move" -> {t \in (1 .. 6) \X (1 .. 6) \X (0 .. 5) :
                           t[1] + t[3] <= 7 /\ t[2] + t[3] <= 7}
    [] kind = "number" -> -KERNBASE .. KERNBASE - 1
    [] kind = "fetch" ->
         (0 .. Word - 1) \X {-KERNBASE, -1, 0, 1, 5, KERNBASE - 1}
           \X {{}, {3, 9}} \X {0, 3, 12, KERNBASE}
    [] kind = "match" -> Strings({"a", ".", "*", "^", "$"}, 4)
                         \X Strings({"a", "b"}, 2)

Kinds == {"line", "path", "name", "move", "number", "fetch", "match"}

PartsInit ==
  /\ Init /\ H!HeapInit /\ CallsInit /\ F!FiltersInit /\ K!KeyboardInit
  /\ \/ /\ job \in {"shell", "heap", "calls", "keyboard"}
        /\ inp = <<>> /\ data = <<>>
     \/ /\ job \in {"grep", "wc"} /\ inp = <<>>
        /\ data \in [1 .. 5 -> {"a", " ", F!NL}]
     \/ /\ job \in Kinds /\ inp \in Inputs(job) /\ data = <<>>

OthersStay(j) ==
  /\ UNCHANGED <<job, inp>>
  /\ j # "shell" => UNCHANGED vars
  /\ j # "heap" => UNCHANGED heapvars
  /\ j # "calls" => UNCHANGED callvars
  /\ j \notin {"grep", "wc"} => UNCHANGED filtervars
  /\ j # "keyboard" => UNCHANGED keyvars

PartsNext ==
  \/ job = "shell" /\ Next /\ OthersStay("shell")
  \/ job = "heap" /\ H!HeapNext /\ OthersStay("heap")
  \/ job = "calls" /\ CallsNext /\ OthersStay("calls")
  \/ job = "grep" /\ F!GrepNext /\ OthersStay("grep")
  \/ job = "wc" /\ F!WcNext /\ OthersStay("wc")
  \/ job = "keyboard" /\ K!KeyboardNext /\ OthersStay("keyboard")

(* Some process of the shell that can go on does. *)
PartsSpec == PartsInit /\ [][PartsNext]_partvars /\ WF_partvars(PartsNext)

----------------------------------------------------------------------------
(* The property of Shell: in the end a shell is back at its prompt and     *)
(* nothing of the commands is left (runcmd(), the loop of init).           *)
ShellReturns == job = "shell" => BackAtPrompt

(* parsecmd() accepts the lines of the grammar and builds their only tree; *)
(* nulterminate() makes a C string of every word.                          *)
ParsesLines == job = "line" => ParsesGrammar(inp) /\ TerminatesWords(inp)

(* malloc() and free() keep the free list a ring in the order of addresses *)
(* without two blocks that touch; the blocks, free or not, are exactly     *)
(* what sbrk() gave, and hold the bytes asked for.                         *)
HeapSound == H!RingInOrder /\ H!TilesCore /\ H!HoldsRequest

(* What comes in pieces is put together: grep writes the matching lines    *)
(* whole and once, as long as every read brings a newline; wc counts a     *)
(* word that two reads share once; kbdgetc() leaves no modifier set whose  *)
(* keys are all up.                                                        *)
PiecesJoined ==
  /\ job = "grep" => F!GrepsLines
  /\ job = "wc" => F!CountsWords
  /\ K!NoModifierStuck

(* Functions compute what they are for, at the edges too: namex() meets    *)
(* the elements of a path in order and knows the last (skipelem()); a name *)
(* is found by its first DIRSIZ characters (dirlink(), namecmp());         *)
(* memmove() copies what was there before, overlap or not; a printed       *)
(* number reads back (printint(), atoi()); getnextprime() of a number from *)
(* 1 on is the least prime above it; fetchint(), argptr() and fetchstr()   *)
(* let through what lies below sz; match() finds what a pattern denotes.   *)
FunctionsRight ==
  /\ job = "path" => T!WalksElements(inp[1], inp[2])
  /\ job = "name" => T!FindsName(inp[1], inp[2], inp[3])
  /\ job = "move" => T!CopiesOld([i \in 1 .. 6 |-> i], inp[1], inp[2], inp[3])
  /\ job = "number" => T!ReadsBack(inp) /\ T!LeastPrimeAbove(inp)
  /\ job = "fetch" => T!FetchesInside(inp[1], inp[2], inp[3], inp[4])
  /\ job = "match" => F!match(inp[1], inp[2]) = F!Denotes(inp[1], inp[2])
============================================================================
