---------------------------- MODULE MCShellMain -----------------------------
(***************************************************************************)
(* An instance of ShellMain for TLC: bytes of one bit, 64 addresses.       *)
(***************************************************************************)
EXTENDS ShellMain

\* Text, data and stack, as in the code: the stack starts at the last
\* address.
MCRegions ==
  << [start |-> 8, size |-> 12], [start |-> 24, size |-> 8],
     [start |-> 63, size |-> 8] >>

MCAccess == {a \in 0 .. AddrSize - 1 : a % 4 = 0}

File(contents) == [exists |-> TRUE, items |-> contents]
Missing        == [exists |-> FALSE, items |-> <<>>]

\* One file and several, longer and shorter than the one before, longer
\* than the text region, empty, missing, and not of numbers.
MCFileLists ==
  { <<File(<<1, 6>>)>>,
    <<File(<<1, 6, 13>>), File(<<11>>)>>,
    <<File(<<>>), File(<<2>>), File(<<8, 4>>)>>,
    <<File(<<5, 6, 7, 9>>)>>,
    <<File(<<3>>), Missing>>,
    <<File(<<14, Junk>>)>>, <<File(<<Junk>>)>> }

MCBuiltin ==
  [w \in {"go", "run", "mdump", "rdump", "input", "?", "quit"} |-> w]

\* Decimal or hexadecimal makes no difference here.
MCNumber(w) ==
  CASE w = "one" -> 1 [] w = "text" -> 8 [] w = "textend" -> 19
    [] w = "data" -> 28 [] w = "last" -> 31 [] w = "negative" -> 60
    [] OTHER -> 0

Typed(words, spaces) == [chars |-> 3 * Len(words) + spaces, words |-> words]

\* Complete and incomplete commands, of as many characters and words as the
\* buffers have room for, one more and one less.
MCLines ==
  { Typed(<<>>, 0), Typed(<<>>, 4), Typed(<<"go">>, 1),
    Typed(<<"run">>, 0), Typed(<<"run", "one">>, 0), Typed(<<"run", "zero">>, 1),
    Typed(<<"mdump">>, 0), Typed(<<"mdump", "text">>, 1),
    Typed(<<"mdump", "text", "textend">>, 0),
    Typed(<<"mdump", "negative", "text">>, 0),
    Typed(<<"mdump", "data", "last">>, 0),
    Typed(<<"mdump", "text", "negative", "go">>, 0),
    Typed(<<"input", "one", "one">>, 2), Typed(<<"quit">>, 0),
    Typed(<<"bye">>, 0) }

ASSUME MCAlignedUse == AlignedUse /\ TextLoads
=============================================================================
