---------------------------- MODULE CommandLine -----------------------------
(***************************************************************************)
(* read_line and split_line of shell.c: a line is read character by        *)
(* character into a buffer that grows, and its words into a vector that    *)
(* grows, closed by NULL.                                                  *)
(*                                                                         *)
(* A line is the number of its characters and its words: the blanks and    *)
(* the letters are left out.  What strtok does is external.                *)
(***************************************************************************)
EXTENDS Naturals, Sequences

CONSTANTS
  RL_BUFSIZE, TOK_BUFSIZE,
  Lines,          \* what may be typed
  NULL,
  NotSet          \* an element of the vector nothing was stored in

ASSUME BufsizeAssumption ==
  RL_BUFSIZE \in Nat \ {0} /\ TOK_BUFSIZE \in Nat \ {0}
ASSUME LinesAssumption == Lines \subseteq [chars : Nat, words : Seq(STRING)]
ASSUME NULLAssumption == NULL \notin STRING

VARIABLES
  at,          \* where main() is
  line,        \* the line being typed
  position,    \* in read_line
  bufsize,     \* of its buffer
  tokens,      \* the elements of the vector that were set
  toksize      \* how many it has room for

lineVars == <<line, position, bufsize, tokens, toksize>>

\* Variant: the buffer grows when it has been exceeded.
Grown_Late(used, size, step) == IF used > size THEN size + step ELSE size

Grown(used, size, step) == IF used >= size THEN size + step ELSE size

LineInit ==
  /\ line = [chars |-> 0, words |-> <<>>]
  /\ position = 0 /\ bufsize = RL_BUFSIZE
  /\ tokens = <<>> /\ toksize = TOK_BUFSIZE

\* The prompt is printed and read_line called.
Prompt ==
  /\ at = "prompt" /\ at' = "read"
  /\ line' \in Lines
  /\ position' = 0 /\ bufsize' = RL_BUFSIZE
  /\ tokens' = <<>> /\ toksize' = TOK_BUFSIZE

ReadChar ==
  /\ at = "read" /\ position < line.chars
  /\ position' = position + 1
  /\ bufsize' = Grown(position', bufsize, RL_BUFSIZE)
  /\ UNCHANGED <<at, line, tokens, toksize>>

\* The input may be closed at any character: what was read of the line is
\* dropped and the shell exits.
ReadEOF ==
  /\ at = "read" /\ at' = "exit"
  /\ UNCHANGED lineVars

ReadNewline ==
  /\ at = "read" /\ position = line.chars
  /\ at' = "split"
  /\ UNCHANGED lineVars

SplitWord ==
  /\ at = "split" /\ Len(tokens) < Len(line.words)
  /\ tokens' = Append(tokens, line.words[Len(tokens) + 1])
  /\ toksize' = Grown(Len(tokens'), toksize, TOK_BUFSIZE)
  /\ UNCHANGED <<at, line, position, bufsize>>

SplitEnd ==
  /\ at = "split" /\ Len(tokens) = Len(line.words)
  /\ tokens' = Append(tokens, NULL)
  /\ at' = "execute"
  /\ UNCHANGED <<line, position, bufsize, toksize>>

\* malloc or realloc may fail.
AllocFails ==
  /\ \/ at = "prompt"
     \/ at = "read" /\ position < line.chars /\ position + 1 >= bufsize
     \/ at = "split" /\ Len(tokens) < Len(line.words)
                     /\ Len(tokens) + 1 >= toksize
     \/ at = "split" /\ tokens = <<>>
  /\ at' = "failed"
  /\ UNCHANGED lineVars

LineNext ==
  \/ Prompt \/ ReadChar \/ ReadEOF \/ ReadNewline
  \/ SplitWord \/ SplitEnd \/ AllocFails

\* An element of the vector, as a command sees it.
arg(i) == IF i < Len(tokens) THEN tokens[i + 1] ELSE NotSet

-----------------------------------------------------------------------------
\* The character, the closing '\0', the word or the NULL that is stored next
\* is inside the buffer or the vector: they grow one before they are full
\* (shell.c:472, 502).
StoresInside ==
  /\ at = "read" => position < bufsize
  /\ at = "split" => Len(tokens) < toksize
=============================================================================
