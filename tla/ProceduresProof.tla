-------------------------- MODULE ProceduresProof --------------------------
(***************************************************************************)
(* The frames of lab1.asm and functions_adv.asm are intact, every return   *)
(* is to its call, firstmatch finds what it is to find and fact returns    *)
(* the factorial: for all strings, numbers and sizes of words.             *)
(***************************************************************************)
EXTENDS Procedures, WellFoundedInduction, TLAPS

-----------------------------------------------------------------------------
(* The invariant.                                                          *)

MatchFrame == [low |-> Top - 5, words |-> <<Sites.matched, Addr1, Addr2>>]

\* Where the call of level f of the recursion was.
CallSite(f) == IF f = 1 THEN Sites.shown ELSE Sites.multiply

LevelFrame(f) == [low |-> Top - 2 * f, words |-> <<n - f + 1, CallSite(f)>>]

Labels ==
  {"lab1", "firstmatch", "fm_loop", "strchr", "found", "matched",
   "functions_adv", "fact", "L1", "multiply", "shown", "exit"}

Matching  == pc \in {"fm_loop", "strchr", "found"}
Recursing == pc \in {"fact", "L1", "multiply"}
Outside   == pc \in {"lab1", "functions_adv", "firstmatch", "matched",
                     "shown", "exit"}

DataOK ==
  /\ str1 \in Seq(Nat \ {0}) /\ str1 # <<>>
  /\ str2 \in Seq(Nat \ {0}) /\ str2 # <<>>
  /\ n \in Numbers

\* The frames there are, and the registers that count them.
FramesOK ==
  /\ DOMAIN stack = 0 .. Top
  /\ pc \in Labels
  /\ Outside => sp = Top /\ frames = <<>>
  /\ pc = "firstmatch" => ra = Sites.matched /\ a0 = Addr1 /\ a1 = Addr2
  /\ Matching =>
       /\ sp = Top - 3 /\ frames = <<MatchFrame>>
       /\ stack[Top - 5] = Sites.matched /\ stack[Top - 4] = Addr1
       /\ stack[Top - 3] = Addr2
  /\ pc = "strchr" => ra = Sites.found
  /\ Recursing =>
       \E k \in Nat :
         /\ frames = [f \in 1 .. k |-> LevelFrame(f)]
         /\ sp = Top - 2 * k
         /\ k = 0 \/ k <= n
         /\ \A f \in 1 .. k :
              /\ stack[Top - 2 * f] = n - f + 1
              /\ stack[Top - 2 * f + 1] = CallSite(f)
         /\ pc = "fact" => a0 = n - k /\ ra = CallSite(k + 1)
         /\ pc = "L1" => k > 0 /\ a0 = n - k + 1
         /\ pc = "multiply" => k > 0

-----------------------------------------------------------------------------
(* Words, labels and frames.                                               *)

LEMMA WrapFits ==
  ASSUME NEW x \in Int, x \in -(WordSize \div 2) .. WordSize \div 2 - 1
  PROVE  Wrap(x) = x
  BY TopAssumption DEF Wrap

\* jr goes where jal came from.
LEMMA Returns ==
  /\ LabelAt(Sites.matched) = "matched" /\ LabelAt(Sites.found) = "found"
  /\ LabelAt(Sites.shown) = "shown" /\ LabelAt(Sites.multiply) = "multiply"
<1>1. DOMAIN Sites = {"matched", "found", "shown", "multiply"}
  BY DEF Sites
<1>2. /\ Sites.matched = WordSize /\ Sites.found = WordSize + 1
      /\ Sites.shown = WordSize + 2 /\ Sites.multiply = WordSize + 3
      /\ Sites["matched"] = WordSize /\ Sites["found"] = WordSize + 1
      /\ Sites["shown"] = WordSize + 2 /\ Sites["multiply"] = WordSize + 3
  BY DEF Sites
<1>3. WordSize \in Nat
  BY TopAssumption
<1>4. \A l \in DOMAIN Sites :
        LabelAt(Sites[l]) = CHOOSE m \in DOMAIN Sites : Sites[m] = Sites[l]
  BY DEF LabelAt
<1>5. \A l, m \in DOMAIN Sites : Sites[l] = Sites[m] => l = m
  BY <1>1, <1>2, <1>3
<1>6. \A l \in DOMAIN Sites : LabelAt(Sites[l]) = l
  <2> SUFFICES ASSUME NEW l \in DOMAIN Sites PROVE LabelAt(Sites[l]) = l
    OBVIOUS
  <2>1. (CHOOSE m \in DOMAIN Sites : Sites[m] = Sites[l]) = l
    BY <1>5
  <2> QED  BY <1>4, <2>1
<1> QED  BY <1>1, <1>2, <1>6

LEMMA SiteTypes ==
  /\ Sites.matched \in Int /\ Sites.found \in Int
  /\ \A f \in Nat : CallSite(f) \in Int
  BY TopAssumption DEF Sites, CallSite

LEMMA NumberTypes == DataOK => n \in Int /\ 2 * n + 2 <= Top /\ Top \in Nat
                               /\ n \in -(WordSize \div 2) .. WordSize \div 2 - 1
  BY NumbersAssumption, TopAssumption, RoomAssumption DEF DataOK

\* FramesOK says what FramesIntact and ReturnsToCaller ask for.
LEMMA FramesGive == DataOK /\ FramesOK => FramesIntact /\ ReturnsToCaller
<1> SUFFICES ASSUME DataOK, FramesOK PROVE FramesIntact /\ ReturnsToCaller
  OBVIOUS
<1>1. ReturnsToCaller
  BY DEF FramesOK, ReturnsToCaller, Outside, Labels
<1>2. CASE Outside
  <2>1. DOMAIN frames = {}
    BY <1>2 DEF FramesOK
  <2> QED  BY <1>1, <2>1 DEF FramesIntact
<1>3. CASE Matching
  <2>1. /\ DOMAIN frames = {1} /\ frames[1].low = Top - 5
        /\ frames[1].words = <<Sites.matched, Addr1, Addr2>>
    BY <1>3 DEF FramesOK, MatchFrame
  <2>2. /\ DOMAIN frames[1].words = 1 .. 3
        /\ frames[1].words[1] = Sites.matched /\ frames[1].words[2] = Addr1
        /\ frames[1].words[3] = Addr2
    BY <2>1
  <2>3. /\ Top - 5 + 1 - 1 = Top - 5 /\ Top - 5 + 2 - 1 = Top - 4
        /\ Top - 5 + 3 - 1 = Top - 3
    BY TopAssumption
  <2>4. /\ stack[Top - 5] = Sites.matched /\ stack[Top - 4] = Addr1
        /\ stack[Top - 3] = Addr2
    BY <1>3 DEF FramesOK
  <2>5. \A w \in 1 .. 3 :
          stack[frames[1].low + w - 1] = frames[1].words[w]
    BY <2>1, <2>2, <2>3, <2>4
  <2> QED  BY <1>1, <2>1, <2>2, <2>5 DEF FramesIntact
<1>4. CASE Recursing
  <2>1. PICK k \in Nat :
          /\ frames = [f \in 1 .. k |-> LevelFrame(f)]
          /\ \A f \in 1 .. k :
               /\ stack[Top - 2 * f] = n - f + 1
               /\ stack[Top - 2 * f + 1] = CallSite(f)
    BY <1>4 DEF FramesOK
  <2>2. ASSUME NEW f \in DOMAIN frames, NEW w \in DOMAIN frames[f].words
        PROVE  stack[frames[f].low + w - 1] = frames[f].words[w]
    <3>1. f \in 1 .. k /\ frames[f].low = Top - 2 * f
          /\ frames[f].words = <<n - f + 1, CallSite(f)>>
      BY <2>1, <2>2 DEF LevelFrame
    <3>2. w \in 1 .. 2 /\ frames[f].words[1] = n - f + 1
          /\ frames[f].words[2] = CallSite(f)
      BY <2>2, <3>1
    <3>3. /\ Top - 2 * f + 1 - 1 = Top - 2 * f
          /\ Top - 2 * f + 2 - 1 = Top - 2 * f + 1
      BY <3>1, TopAssumption
    <3> QED  BY <2>1, <3>1, <3>2, <3>3
  <2> QED  BY <1>1, <2>2 DEF FramesIntact
<1> QED
  BY <1>1, <1>2, <1>3, <1>4 DEF FramesOK, Labels, Outside, Matching, Recursing

-----------------------------------------------------------------------------
(* The steps keep the frames.                                              *)

LEMMA PushWords ==
  ASSUME DOMAIN stack = 0 .. Top, NEW low \in Nat, NEW words \in Seq(Int),
         low + Len(words) - 1 <= Top, Push(low, words)
  PROVE  /\ DOMAIN stack' = 0 .. Top
         /\ \A w \in 1 .. Len(words) : stack'[low + w - 1] = words[w]
         /\ \A i \in 0 .. Top : i >= low + Len(words) => stack'[i] = stack[i]
         /\ frames' = Append(frames, [low |-> low, words |-> words])
<1>1. /\ stack' = [i \in 0 .. Top |-> IF i \in low .. low + Len(words) - 1
                                    THEN words[i - low + 1] ELSE stack[i]]
      /\ frames' = Append(frames, [low |-> low, words |-> words])
  BY DEF Push
<1>2. ASSUME NEW w \in 1 .. Len(words)
      PROVE  stack'[low + w - 1] = words[w]
  <2>1. Len(words) \in Nat
    OBVIOUS
  <2>2. /\ low + w - 1 \in 0 .. Top
        /\ low + w - 1 \in low .. low + Len(words) - 1
        /\ (low + w - 1) - low + 1 = w
    BY <2>1, TopAssumption
  <2> QED  BY <1>1, <2>2
<1>3. \A i \in 0 .. Top : i >= low + Len(words) => stack'[i] = stack[i]
  BY <1>1
<1> QED  BY <1>1, <1>2, <1>3

LEMMA FramesInit == Init => DataOK /\ FramesOK
<1> SUFFICES ASSUME Init PROVE DataOK /\ FramesOK
  OBVIOUS
<1>1. DataOK
  BY StringsAssumption DEF Init, DataOK
<1>2. DOMAIN stack = 0 .. Top
  BY DEF Init
<1> QED
  BY <1>1, <1>2
  DEF Init, FramesOK, Labels, Outside, Matching, Recursing

LEMMA DataStep == DataOK /\ [Next]_vars => DataOK'
  BY DEF DataOK, Next, vars, data, main, firstmatch, fm_loop, sc_loop, fm_found,
         fm_continue, fact_main, fact, L1, multiply, show

\* The programs outside their procedures.
LEMMA FramesOutside ==
  ASSUME DataOK, FramesOK, main \/ fact_main \/ show
  PROVE  FramesOK'
<1>1. CASE main
  BY <1>1 DEF main, data, FramesOK, Labels, Outside, Matching, Recursing,
              Addr1, Addr2
<1>2. CASE fact_main
  <2>1. /\ pc' = "fact" /\ a0' = n /\ ra' = Sites.shown
        /\ sp' = Top /\ frames' = <<>> /\ UNCHANGED <<stack, n>>
        /\ DOMAIN stack = 0 .. Top
    BY <1>2 DEF fact_main, data, FramesOK, Outside
  <2>2. /\ frames' = [f \in 1 .. 0 |-> LevelFrame(f)']
        /\ sp' = Top - 2 * 0 /\ a0' = n - 0 /\ ra' = CallSite(0 + 1)
    BY <2>1, NumberTypes DEF CallSite
  <2> QED
    BY <2>1, <2>2 DEF FramesOK, Labels, Outside, Matching, Recursing, CallSite
<1>3. CASE show
  BY <1>3 DEF show, data, FramesOK, Labels, Outside, Matching, Recursing
<1> QED  BY <1>1, <1>2, <1>3

LEMMA FramesFirstmatch ==
  ASSUME DataOK, FramesOK, firstmatch
  PROVE  FramesOK'
<1>1. /\ sp = Top /\ frames = <<>> /\ DOMAIN stack = 0 .. Top
      /\ ra = Sites.matched /\ a0 = Addr1 /\ a1 = Addr2
  BY DEF firstmatch, FramesOK, Outside
<1>2. Addr1 \in Int /\ Addr2 \in Int /\ Top \in Nat /\ 5 <= Top
  BY TopAssumption, RoomAssumption DEF DataOK, Addr1, Addr2, Base
<1> DEFINE words == <<Sites.matched, Addr1, Addr2>>
<1>3. /\ words \in Seq(Int) /\ Len(words) = 3 /\ words[1] = Sites.matched
      /\ words[2] = Addr1 /\ words[3] = Addr2
  BY <1>2, SiteTypes
<1>4. /\ pc' = "fm_loop" /\ sp' = Top - 3 /\ Push(Top - 5, words)
      /\ UNCHANGED <<str1, str2, n>>
  BY <1>1, <1>2 DEF firstmatch, data
<1>5. Top - 5 \in Nat /\ (Top - 5) + Len(words) - 1 <= Top
  BY <1>2, <1>3
<1> HIDE DEF words
<1>6. /\ DOMAIN stack' = 0 .. Top
      /\ \A w \in 1 .. 3 : stack'[(Top - 5) + w - 1] = words[w]
      /\ frames' = Append(<<>>, [low |-> Top - 5, words |-> words])
  BY <1>1, <1>3, <1>4, <1>5, PushWords
<1>7. /\ stack'[Top - 5] = Sites.matched /\ stack'[Top - 4] = Addr1
      /\ stack'[Top - 3] = Addr2
  <2>1. /\ (Top - 5) + 1 - 1 = Top - 5 /\ (Top - 5) + 2 - 1 = Top - 4
        /\ (Top - 5) + 3 - 1 = Top - 3
    BY <1>2
  <2>2. /\ stack'[(Top - 5) + 1 - 1] = words[1]
        /\ stack'[(Top - 5) + 2 - 1] = words[2]
        /\ stack'[(Top - 5) + 3 - 1] = words[3]
    BY <1>6
  <2> QED  BY <1>3, <2>1, <2>2
<1>8. Addr1' = Addr1 /\ Addr2' = Addr2
  BY <1>4 DEF Addr1, Addr2
<1>9. frames' = <<MatchFrame'>>
  BY <1>6, <1>8 DEF MatchFrame, words
<1> QED
  BY <1>4, <1>6, <1>7, <1>8, <1>9
  DEF FramesOK, Labels, Outside, Matching, Recursing

LEMMA FramesMatching ==
  ASSUME DataOK, FramesOK, fm_loop \/ sc_loop \/ fm_found \/ fm_continue
  PROVE  FramesOK'
<1>1. /\ Matching /\ sp = Top - 3 /\ frames = <<MatchFrame>>
      /\ stack[Top - 5] = Sites.matched /\ UNCHANGED <<str1, str2, n, stack>>
  BY DEF fm_loop, sc_loop, fm_found, fm_continue, fm_return, Pop, data,
         FramesOK, Matching
<1>2. Addr1' = Addr1 /\ Addr2' = Addr2 /\ MatchFrame' = MatchFrame
  BY <1>1 DEF Addr1, Addr2, MatchFrame
<1>3. SavedRa = Sites.matched
  BY <1>1, TopAssumption DEF SavedRa
<1>4. ASSUME NEW value, fm_return(value)
      PROVE  pc' = "matched" /\ sp' = Top /\ frames' = <<>>
  BY <1>1, <1>3, <1>4, Returns, TopAssumption
  DEF fm_return, Return, Pop, Front
<1>5. CASE fm_loop
  BY <1>1, <1>2, <1>5 DEF fm_loop, FramesOK, Labels, Outside, Matching, Recursing
<1>6. CASE sc_loop
  <2>1. pc' \in {"strchr", "found"} /\ UNCHANGED <<sp, ra, frames>>
    BY <1>6, Returns DEF sc_loop, FramesOK, Return
  <2> QED
    BY <1>1, <1>2, <1>6, <2>1
    DEF sc_loop, FramesOK, Labels, Outside, Matching, Recursing
<1>7. CASE fm_found
  <2>1. pc' = "matched" /\ sp' = Top /\ frames' = <<>>
    BY <1>4, <1>7 DEF fm_found
  <2> QED
    BY <1>1, <2>1 DEF FramesOK, Labels, Outside, Matching, Recursing
<1>8. CASE fm_continue
  <2>1. \/ pc' = "matched" /\ sp' = Top /\ frames' = <<>>
        \/ pc' = "fm_loop" /\ UNCHANGED <<sp, frames>>
    BY <1>4, <1>8 DEF fm_continue
  <2> QED
    BY <1>1, <1>2, <2>1 DEF FramesOK, Labels, Outside, Matching, Recursing
<1> QED  BY <1>5, <1>6, <1>7, <1>8

\* What FramesOK says of k levels of the recursion.
Levels(k) ==
  /\ frames = [f \in 1 .. k |-> LevelFrame(f)]
  /\ sp = Top - 2 * k
  /\ k = 0 \/ k <= n
  /\ \A f \in 1 .. k :
       /\ stack[Top - 2 * f] = n - f + 1
       /\ stack[Top - 2 * f + 1] = CallSite(f)

LEMMA LevelsGive ==
  ASSUME NEW k \in Nat, DOMAIN stack = 0 .. Top, Levels(k), Recursing,
         pc = "fact" => a0 = n - k /\ ra = CallSite(k + 1),
         pc = "L1" => k > 0 /\ a0 = n - k + 1,
         pc = "multiply" => k > 0
  PROVE  FramesOK
  BY DEF FramesOK, Levels, Labels, Outside, Matching, Recursing

LEMMA FramesFact ==
  ASSUME DataOK, FramesOK, fact
  PROVE  FramesOK'
<1>1. DOMAIN stack = 0 .. Top /\ pc = "fact" /\ UNCHANGED <<a0, ra, n>>
  BY DEF fact, data, FramesOK
<1>2. PICK k \in Nat : Levels(k) /\ a0 = n - k /\ ra = CallSite(k + 1)
  BY <1>1 DEF FramesOK, Recursing, Levels
<1>3. n \in Int /\ Top \in Nat /\ 2 * n + 2 <= Top
  BY NumberTypes
<1>4. CASE a0 < 1
  <2>1. /\ Return(ra) /\ UNCHANGED <<sp, frames>>
        /\ stack' = [stack EXCEPT ![sp - 1] = ra, ![sp - 2] = a0]
    BY <1>2, <1>3, <1>4 DEF fact, FactFrame, Levels
  <2>2. DOMAIN stack' = 0 .. Top
    BY <1>1, <2>1
  <2>3. \A i \in 0 .. Top : i >= sp => stack'[i] = stack[i]
    BY <1>1, <1>2, <1>3, <2>1 DEF Levels
  <2>4. \A f \in 1 .. k : /\ Top - 2 * f \in 0 .. Top
                          /\ Top - 2 * f + 1 \in 0 .. Top
                          /\ Top - 2 * f >= Top - 2 * k
                          /\ Top - 2 * f + 1 >= Top - 2 * k
    BY <1>2, <1>3 DEF Levels
  <2>5. Levels(k)'
    <3>1. \A f \in 1 .. k : /\ stack'[Top - 2 * f] = n - f + 1
                            /\ stack'[Top - 2 * f + 1] = CallSite(f)
      BY <1>2, <2>3, <2>4 DEF Levels
    <3> QED  BY <1>1, <1>2, <2>1, <3>1 DEF Levels, LevelFrame, CallSite
  <2>6. CASE k = 0
    <3>1. pc' = "shown"
      BY <1>2, <2>1, <2>6, Returns DEF Return, CallSite
    <3>2. sp' = Top /\ frames' = <<>>
      BY <1>3, <2>5, <2>6 DEF Levels
    <3> QED
      BY <2>2, <3>1, <3>2 DEF FramesOK, Labels, Outside, Matching, Recursing
  <2>7. CASE k > 0
    <3>1. pc' = "multiply"
      BY <1>2, <2>1, <2>7, Returns DEF Return, CallSite
    <3> QED
      BY <2>2, <2>5, <2>7, <3>1
      DEF FramesOK, Levels, Labels, Outside, Matching, Recursing
  <2> QED  BY <2>6, <2>7
<1>5. CASE ~(a0 < 1)
  <2> DEFINE words == <<a0, ra>>
             k1 == k + 1
  <2>1. k1 <= n /\ k1 \in Nat /\ k1 > 0 /\ sp = Top - 2 * k
        /\ Top - 2 * k1 \in Nat
    BY <1>2, <1>3, <1>5 DEF Levels
  <2>2. /\ pc' = "L1" /\ sp' = Top - 2 * k1 /\ Push(Top - 2 * k1, words)
    BY <1>3, <1>5, <2>1 DEF fact, FactFrame
  <2>3. words \in Seq(Int) /\ Len(words) = 2 /\ words[1] = n - k1 + 1
        /\ words[2] = CallSite(k1)
    BY <1>2, <1>3, <2>1, SiteTypes
  <2>4. words = <<n - k1 + 1, CallSite(k1)>>
    BY <1>2, <1>3
  <2> HIDE DEF words, k1
  <2>5. (Top - 2 * k1) + Len(words) - 1 <= Top
    BY <1>3, <2>1, <2>3
  <2>6. /\ DOMAIN stack' = 0 .. Top
        /\ \A w \in 1 .. 2 : stack'[(Top - 2 * k1) + w - 1] = words[w]
        /\ \A i \in 0 .. Top : i >= (Top - 2 * k1) + 2 => stack'[i] = stack[i]
        /\ frames' = Append(frames, [low |-> Top - 2 * k1, words |-> words])
    <3> DEFINE low == Top - 2 * k1
    <3>1. /\ low \in Nat /\ Push(low, words) /\ words \in Seq(Int)
          /\ Len(words) = 2 /\ low + Len(words) - 1 <= Top
      BY <2>1, <2>2, <2>3, <2>5
    <3> HIDE DEF low
    <3>2. /\ DOMAIN stack' = 0 .. Top
          /\ \A w \in 1 .. Len(words) : stack'[low + w - 1] = words[w]
          /\ \A i \in 0 .. Top : i >= low + Len(words) => stack'[i] = stack[i]
          /\ frames' = Append(frames, [low |-> low, words |-> words])
      BY <1>1, <3>1, PushWords
    <3> QED  BY <3>1, <3>2 DEF low
  <2>7. frames' = [f \in 1 .. k1 |-> LevelFrame(f)]
    <3>1. frames = [f \in 1 .. k |-> LevelFrame(f)]
      BY <1>2 DEF Levels
    <3>2. LevelFrame(k1) = [low |-> Top - 2 * k1, words |-> words]
      BY <2>4 DEF LevelFrame
    <3> HIDE DEF LevelFrame
    <3>3. Append(frames, LevelFrame(k1)) = [f \in 1 .. k + 1 |-> LevelFrame(f)]
      BY <1>2, <3>1, <2>1 DEF k1
    <3> QED  BY <2>6, <3>2, <3>3 DEF k1
  <2>8. ASSUME NEW f \in 1 .. k1
        PROVE  /\ stack'[Top - 2 * f] = n - f + 1
               /\ stack'[Top - 2 * f + 1] = CallSite(f)
    <3>1. CASE f = k1
      <4>1. /\ (Top - 2 * k1) + 1 - 1 = Top - 2 * f
            /\ (Top - 2 * k1) + 2 - 1 = Top - 2 * f + 1
        BY <1>3, <2>1, <3>1
      <4> QED  BY <2>3, <2>6, <3>1, <4>1
    <3>2. CASE f # k1
      <4>1. f \in 1 .. k
        BY <2>1, <3>2 DEF k1
      <4>2. /\ Top - 2 * f \in 0 .. Top /\ Top - 2 * f + 1 \in 0 .. Top
            /\ Top - 2 * f >= (Top - 2 * k1) + 2
            /\ Top - 2 * f + 1 >= (Top - 2 * k1) + 2
        BY <1>3, <2>1, <4>1 DEF k1
      <4> QED  BY <1>2, <2>6, <4>1, <4>2 DEF Levels
    <3> QED  BY <3>1, <3>2
  <2>9. Levels(k1)'
    BY <1>1, <2>1, <2>2, <2>7, <2>8 DEF Levels, LevelFrame, CallSite
  <2>10. a0' = n' - k1 + 1
    BY <1>1, <1>2, <1>3, <2>1 DEF k1
  <2> QED
    BY <2>1, <2>2, <2>6, <2>9, <2>10
    DEF FramesOK, Levels, Labels, Outside, Matching, Recursing
<1>6. a0 \in Int
  BY <1>2, <1>3
<1> QED  BY <1>4, <1>5

LEMMA FramesL1 ==
  ASSUME DataOK, FramesOK, L1
  PROVE  FramesOK'
<1>1. /\ DOMAIN stack = 0 .. Top /\ pc = "L1" /\ pc' = "fact"
      /\ UNCHANGED <<sp, stack, frames, n>> /\ ra' = Sites.multiply
  BY DEF L1, data, FramesOK
<1>2. PICK k \in Nat : Levels(k) /\ k > 0 /\ a0 = n - k + 1
  BY <1>1 DEF FramesOK, Recursing, Levels
<1>3. n \in Int /\ n \in -(WordSize \div 2) .. WordSize \div 2 - 1
  BY NumberTypes
<1>4. a0 - 1 = n - k /\ n - k \in Int
      /\ n - k \in -(WordSize \div 2) .. WordSize \div 2 - 1
  BY <1>2, <1>3, TopAssumption DEF Levels
<1>5. a0' = n - k
  BY <1>4, WrapFits DEF L1
<1>6. Levels(k)' /\ ra' = CallSite(k + 1)
  BY <1>1, <1>2 DEF Levels, LevelFrame, CallSite
<1> QED
  BY <1>1, <1>5, <1>6
  DEF FramesOK, Levels, Labels, Outside, Matching, Recursing, CallSite

LEMMA FramesMultiply ==
  ASSUME DataOK, FramesOK, multiply
  PROVE  FramesOK'
<1>1. /\ DOMAIN stack = 0 .. Top /\ pc = "multiply"
      /\ UNCHANGED <<stack, n>> /\ Return(stack[sp + 1])
      /\ sp' = sp + 2 /\ frames' = Front(frames)
  BY DEF multiply, data, FramesOK, Pop, FactFrame, Return
<1>2. PICK k \in Nat : Levels(k) /\ k > 0
  BY <1>1 DEF FramesOK, Recursing, Levels
<1>3. n \in Int /\ Top \in Nat
  BY NumberTypes
<1>10. PICK k1 \in Nat : k = k1 + 1
  <2>1. k - 1 \in Nat /\ k = (k - 1) + 1
    BY <1>2
  <2> QED  BY <2>1
<1>4. k = k1 + 1 /\ sp' = Top - 2 * k1
      /\ sp + 1 = Top - 2 * k + 1
  BY <1>1, <1>2, <1>3, <1>10 DEF Levels
<1>5. Return(CallSite(k))
  BY <1>1, <1>2, <1>4 DEF Levels
<1>6. frames' = [f \in 1 .. k1 |-> LevelFrame(f)]
  <2>1. frames = [f \in 1 .. k |-> LevelFrame(f)]
    BY <1>2 DEF Levels
  <2> HIDE DEF LevelFrame
  <2>2. Len(frames) = k
    BY <2>1
  <2> QED  BY <1>1, <1>4, <2>1, <2>2 DEF Front
<1>7. Levels(k1)'
  <2>1. k1 = 0 \/ k1 <= n
    BY <1>2, <1>3, <1>4 DEF Levels
  <2>2. \A f \in 1 .. k1 : f \in 1 .. k
    BY <1>4
  <2>3. \A f \in 1 .. k1 : /\ stack[Top - 2 * f] = n - f + 1
                           /\ stack[Top - 2 * f + 1] = CallSite(f)
    BY <1>2, <2>2 DEF Levels
  <2> QED  BY <1>1, <1>4, <1>6, <2>1, <2>3 DEF Levels, LevelFrame, CallSite
<1>8. CASE k1 = 0
  <2>1. pc' = "shown"
    BY <1>4, <1>5, <1>8, Returns DEF Return, CallSite
  <2>2. sp' = Top /\ frames' = <<>>
    BY <1>3, <1>7, <1>8 DEF Levels
  <2> QED
    BY <1>1, <2>1, <2>2 DEF FramesOK, Labels, Outside, Matching, Recursing
<1>9. CASE k1 > 0
  <2>1. pc' = "multiply"
    BY <1>4, <1>5, <1>9, Returns DEF Return, CallSite
  <2> QED
    BY <1>1, <1>4, <1>7, <1>9, <2>1
    DEF FramesOK, Levels, Labels, Outside, Matching, Recursing
<1> QED  BY <1>4, <1>8, <1>9

LEMMA FramesStep == DataOK /\ FramesOK /\ [Next]_vars => FramesOK'
<1> SUFFICES ASSUME DataOK, FramesOK, [Next]_vars PROVE FramesOK'
  OBVIOUS
<1>1. CASE UNCHANGED vars
  BY <1>1 DEF vars, FramesOK, Outside, Matching, Recursing, MatchFrame,
              LevelFrame, CallSite, Addr1, Addr2
<1> QED
  BY <1>1, FramesOutside, FramesFirstmatch, FramesMatching, FramesFact,
     FramesL1, FramesMultiply
  DEF Next

\* What a procedure saved is in its place until it returns, for all strings,
\* all numbers and any depth of recursion the stack has room for
\* (lab1.asm:36-62, functions_adv.asm:30-49).
THEOREM FramesCorrect == Spec => []FramesIntact
  BY FramesInit, DataStep, FramesStep, FramesGive, PTL DEF Spec

\* Every return is to its call, and main gets its stack pointer back
\* (lab1.asm:47-50, functions_adv.asm:45-49).
THEOREM ReturnsCorrect == Spec => []ReturnsToCaller
  BY FramesInit, DataStep, FramesStep, FramesGive, PTL DEF Spec

-----------------------------------------------------------------------------
(* What firstmatch finds.                                                  *)

\* How far the search has come: no character of str1 before s0 occurs in
\* str2, and none of str2 before a0 is the one at s0.
SearchOK ==
  /\ Matching =>
       /\ s0 \in Addr1 .. Addr1 + Len(str1) - 1
       /\ \A j \in 1 .. s0 - Addr1 : ~InStr2(str1[j])
  /\ pc = "strchr" =>
       /\ a0 \in Addr2 .. Addr2 + Len(str2) - 1
       /\ a1 = str1[s0 - Addr1 + 1]
       /\ \A j \in 1 .. a0 - Addr2 : str2[j] # a1
  /\ pc = "found" => (v0 # 0 <=> InStr2(str1[s0 - Addr1 + 1]))
  /\ FirstMatchIsRight

LEMMA ByteAt ==
  ASSUME DataOK
  PROVE  /\ Addr1 = 1 /\ Addr2 = Len(str1) + 2
         /\ Len(str1) \in Nat \ {0} /\ Len(str2) \in Nat \ {0}
         /\ \A j \in 1 .. Len(str1) : byte(Addr1 + j - 1) = str1[j]
                                      /\ str1[j] \in Nat \ {0}
         /\ byte(Addr1 + Len(str1)) = 0
         /\ \A j \in 1 .. Len(str2) : byte(Addr2 + j - 1) = str2[j]
                                      /\ str2[j] \in Nat \ {0}
         /\ byte(Addr2 + Len(str2)) = 0
<1> DEFINE n1 == Len(str1)
           n2 == Len(str2)
<1>1. /\ str1 \in Seq(Nat) /\ str2 \in Seq(Nat)
      /\ n1 \in Nat \ {0} /\ n2 \in Nat \ {0}
      /\ \A j \in 1 .. n1 : str1[j] \in Nat \ {0}
      /\ \A j \in 1 .. n2 : str2[j] \in Nat \ {0}
  BY DEF DataOK
<1>2. Addr1 = 1 /\ Addr2 = n1 + 2
  BY <1>1 DEF Addr1, Addr2, Base
<1> DEFINE first == str1 \o <<0>>
<1>3. /\ first \in Seq(Nat) /\ Len(first) = n1 + 1 /\ first[n1 + 1] = 0
      /\ \A j \in 1 .. n1 : first[j] = str1[j]
  BY <1>1
<1> HIDE DEF first
<1> DEFINE both == first \o str2
<1>4. /\ both \in Seq(Nat) /\ Len(both) = n1 + 1 + n2
      /\ \A j \in 1 .. n1 + 1 : both[j] = first[j]
      /\ \A j \in 1 .. n2 : both[n1 + 1 + j] = str2[j]
  <2>1. both \in Seq(Nat) /\ Len(both) = n1 + 1 + n2
    <3>1. Len(first) = n1 + 1 /\ Len(str2) = n2 /\ first \in Seq(Nat)
          /\ str2 \in Seq(Nat)
      BY <1>1, <1>3
    <3>2. both \in Seq(Nat) /\ Len(both) = Len(first) + Len(str2)
      BY <3>1
    <3> QED  BY <3>1, <3>2
  <2>2. \A j \in 1 .. n1 + 1 : both[j] = first[j]
    BY <1>1, <1>3
  <2>3. ASSUME NEW j \in 1 .. n2 PROVE both[n1 + 1 + j] = str2[j]
    <3>1. /\ Len(first) \in Nat /\ n1 + 1 + j \in 1 .. Len(first) + n2
          /\ ~(n1 + 1 + j <= Len(first))
          /\ n1 + 1 + j - Len(first) = j
      BY <1>1, <1>3
    <3> QED  BY <1>1, <1>3, <3>1
  <2> QED  BY <2>1, <2>2, <2>3
<1> HIDE DEF both
<1>5. /\ \A j \in 1 .. n1 + 1 + n2 : (both \o <<0>>)[j] = both[j]
      /\ (both \o <<0>>)[n1 + 1 + n2 + 1] = 0
  BY <1>1, <1>4
<1>6. Bytes = both \o <<0>>
  BY DEF Bytes, both, first
<1>7. \A a \in Nat : byte(a) = Bytes[a]
  <2>1. \A a \in Nat : a - Base + 1 = a
    BY DEF Base
  <2> QED  BY <2>1 DEF byte
<1> HIDE DEF n1, n2
<1>8. \A j \in 1 .. n1 : byte(Addr1 + j - 1) = str1[j]
  BY <1>1, <1>2, <1>3, <1>4, <1>5, <1>6, <1>7
<1>9. byte(Addr1 + n1) = 0
  BY <1>1, <1>2, <1>3, <1>4, <1>5, <1>6, <1>7
<1>10. \A j \in 1 .. n2 : byte(Addr2 + j - 1) = str2[j]
  <2> SUFFICES ASSUME NEW j \in 1 .. n2 PROVE byte(Addr2 + j - 1) = str2[j]
    OBVIOUS
  <2>1. Addr2 + j - 1 = n1 + 1 + j /\ n1 + 1 + j \in 1 .. n1 + 1 + n2
        /\ n1 + 1 + j \in Nat
    BY <1>1, <1>2
  <2> QED  BY <1>4, <1>5, <1>6, <1>7, <2>1
<1>11. byte(Addr2 + n2) = 0
  <2>1. Addr2 + n2 = n1 + 1 + n2 + 1 /\ Addr2 + n2 \in Nat
    BY <1>1, <1>2
  <2> QED  BY <1>5, <1>6, <1>7, <2>1
<1> QED  BY <1>1, <1>2, <1>8, <1>9, <1>10, <1>11 DEF n1, n2

LEMMA SearchInit == Init => SearchOK
  BY DEF Init, SearchOK, Matching, FirstMatchIsRight

\* The steps that do not look at the strings.
LEMMA SearchElsewhere ==
  ASSUME DataOK, FramesOK, SearchOK,
         \/ main \/ firstmatch \/ fact_main \/ fact \/ L1 \/ multiply \/ show
  PROVE  SearchOK'
<1>1. CASE firstmatch
  <2>1. /\ pc' = "fm_loop" /\ s0' = a0 /\ UNCHANGED <<str1, str2>>
        /\ a0 = Addr1
    BY <1>1 DEF firstmatch, data, FramesOK
  <2>2. s0' \in Addr1 .. Addr1 + Len(str1) - 1 /\ 1 .. s0' - Addr1 = {}
    BY <2>1, ByteAt
  <2> QED
    BY <2>1, <2>2 DEF SearchOK, Matching, FirstMatchIsRight, Addr1, Addr2
<1>2. CASE fact \/ multiply
  <2>1. pc' \in {"shown", "multiply", "L1"}
    <3>1. PICK k \in Nat : Levels(k) /\ (pc = "multiply" => k > 0)
                           /\ (pc = "fact" => ra = CallSite(k + 1))
      BY <1>2 DEF fact, multiply, FramesOK, Recursing, Levels
    <3>2. CASE fact
      BY <3>1, <3>2, Returns DEF fact, Return, CallSite
    <3>3. CASE multiply
      <4>1. sp + 1 = Top - 2 * k + 1 /\ k \in 1 .. k
        BY <3>1, <3>3, TopAssumption DEF multiply, Levels
      <4>2. stack[sp + 1] = CallSite(k)
        BY <3>1, <4>1 DEF Levels
      <4> QED  BY <3>3, <4>2, Returns DEF multiply, Return, CallSite
    <3> QED  BY <1>2, <3>2, <3>3
  <2> QED  BY <2>1 DEF SearchOK, Matching, FirstMatchIsRight
<1>3. CASE main \/ fact_main \/ L1 \/ show
  BY <1>3 DEF main, fact_main, L1, show, SearchOK, Matching, FirstMatchIsRight
<1> QED  BY <1>1, <1>2, <1>3

LEMMA SearchLoop ==
  ASSUME DataOK, FramesOK, SearchOK, fm_loop \/ sc_loop
  PROVE  SearchOK'
<1> DEFINE p == s0 - Addr1 + 1
<1>1. /\ Matching /\ UNCHANGED <<str1, str2, s0>> /\ s0 \in Int
      /\ p \in 1 .. Len(str1) /\ s0 = Addr1 + p - 1
      /\ byte(s0) = str1[p] /\ stack[sp] = Addr2
  <2>1. Matching /\ UNCHANGED <<str1, str2, s0>> /\ stack[sp] = Addr2
    BY DEF fm_loop, sc_loop, data, FramesOK, Matching
  <2>2. s0 \in Addr1 .. Addr1 + Len(str1) - 1
    BY <2>1 DEF SearchOK
  <2>3. p \in 1 .. Len(str1) /\ s0 = Addr1 + p - 1 /\ s0 \in Int
    BY <2>2, ByteAt
  <2> QED  BY <2>1, <2>3, ByteAt
<1>2. CASE fm_loop
  <2>1. /\ pc' = "strchr" /\ a0' = Addr2 /\ a1' = str1[p]
    BY <1>1, <1>2 DEF fm_loop
  <2>2. a0' \in Addr2 .. Addr2 + Len(str2) - 1 /\ 1 .. a0' - Addr2 = {}
    BY <2>1, ByteAt
  <2> QED
    BY <1>1, <2>1, <2>2
    DEF SearchOK, Matching, FirstMatchIsRight, InStr2, Addr1, Addr2
<1>3. CASE sc_loop
  <2> DEFINE q == a0 - Addr2 + 1
  <2>1. /\ pc = "strchr" /\ ra = Sites.found /\ a1 = str1[p]
        /\ a0 \in Addr2 .. Addr2 + Len(str2) - 1
        /\ \A j \in 1 .. a0 - Addr2 : str2[j] # a1
    BY <1>3 DEF sc_loop, SearchOK, FramesOK
  <2>2. /\ q \in 1 .. Len(str2) /\ a0 = Addr2 + q - 1 /\ a0 \in Nat \ {0}
        /\ byte(a0) = str2[q] /\ a0 - Addr2 = q - 1
    <3>1. q \in 1 .. Len(str2) /\ a0 = Addr2 + q - 1 /\ a0 \in Nat \ {0}
          /\ a0 - Addr2 = q - 1
      BY <2>1, ByteAt
    <3> QED  BY <3>1, ByteAt
  <2>3. q < Len(str2) => byte(a0 + 1) # 0
    <3>1. SUFFICES ASSUME q < Len(str2) PROVE byte(a0 + 1) # 0
      OBVIOUS
    <3>2. q + 1 \in 1 .. Len(str2) /\ a0 + 1 = Addr2 + (q + 1) - 1
      BY <2>2, <3>1, ByteAt
    <3>3. byte(a0 + 1) = str2[q + 1] /\ str2[q + 1] # 0
      BY <3>2, ByteAt
    <3> QED  BY <3>3
  <2>4. q = Len(str2) => byte(a0 + 1) = 0
    <3>1. SUFFICES ASSUME q = Len(str2) PROVE byte(a0 + 1) = 0
      OBVIOUS
    <3>2. a0 + 1 = Addr2 + Len(str2)
      <4>1. Addr2 \in Int /\ a0 = Addr2 + q - 1 /\ q \in Int
        BY <2>2, ByteAt
      <4>2. a0 + 1 = Addr2 + q
        BY <4>1
      <4> QED  BY <4>2, <3>1
    <3>3. byte(Addr2 + Len(str2)) = 0
      BY ByteAt
    <3> QED  BY <3>2, <3>3
  <2>5. DOMAIN str2 = 1 .. Len(str2)
    BY DEF DataOK
  <2> HIDE DEF q
  <2>6. CASE str2[q] = a1
    <3>1. pc' = "found" /\ v0' = a0 /\ v0' # 0
      BY <1>3, <2>1, <2>2, <2>6, Returns DEF sc_loop, Return
    <3>2. InStr2(str1[p])
      BY <2>1, <2>2, <2>5, <2>6 DEF InStr2
    <3> QED
      BY <1>1, <3>1, <3>2
      DEF SearchOK, Matching, FirstMatchIsRight, InStr2, Addr1, Addr2
  <2>7. \A j \in 1 .. q : str2[q] # a1 => str2[j] # a1
    BY <2>1, <2>2
  <2>8. CASE str2[q] # a1 /\ q = Len(str2)
    <3>1. pc' = "found" /\ v0' = 0
      BY <1>3, <2>1, <2>2, <2>4, <2>8, Returns DEF sc_loop, Return
    <3>2. ~InStr2(str1[p])
      BY <2>1, <2>5, <2>7, <2>8 DEF InStr2
    <3> QED
      BY <1>1, <3>1, <3>2
      DEF SearchOK, Matching, FirstMatchIsRight, InStr2, Addr1, Addr2
  <2>9. CASE str2[q] # a1 /\ q < Len(str2)
    <3>1. pc' = "strchr" /\ a0' = a0 + 1 /\ a1' = a1
      BY <1>3, <2>1, <2>2, <2>3, <2>9 DEF sc_loop
    <3>2. a0' \in Addr2 .. Addr2 + Len(str2) - 1 /\ a0' - Addr2 = q
      BY <2>2, <2>9, <3>1, ByteAt
    <3> QED
      BY <1>1, <2>1, <2>7, <2>9, <3>1, <3>2
      DEF SearchOK, Matching, FirstMatchIsRight, InStr2, Addr1, Addr2
  <2>10. q = Len(str2) \/ q < Len(str2)
    BY <2>2, ByteAt
  <2> QED  BY <2>6, <2>8, <2>9, <2>10
<1> QED  BY <1>2, <1>3

\* The characters of str1 that occur in str2, by their places.
Hits == {j \in DOMAIN str1 : InStr2(str1[j])}

LEMMA SearchReturns ==
  ASSUME DataOK, FramesOK, SearchOK, fm_found \/ fm_continue
  PROVE  SearchOK'
<1> DEFINE p == s0 - Addr1 + 1
<1>1. /\ pc = "found" /\ UNCHANGED <<str1, str2>>
      /\ DOMAIN str1 = 1 .. Len(str1) /\ Addr1 \in Int
      /\ p \in 1 .. Len(str1) /\ s0 = Addr1 + p - 1 /\ s0 - Addr1 = p - 1
      /\ \A j \in 1 .. p - 1 : ~InStr2(str1[j])
      /\ v0 # 0 <=> InStr2(str1[p])
  <2>1. /\ pc = "found" /\ UNCHANGED <<str1, str2>> /\ Matching
    BY DEF fm_found, fm_continue, data, Matching
  <2>2. s0 \in Addr1 .. Addr1 + Len(str1) - 1
    BY <2>1 DEF SearchOK
  <2>3. /\ p \in 1 .. Len(str1) /\ s0 = Addr1 + p - 1 /\ s0 - Addr1 = p - 1
        /\ Addr1 \in Int
    BY <2>2, ByteAt
  <2>4. DOMAIN str1 = 1 .. Len(str1)
    BY DEF DataOK
  <2> QED  BY <2>1, <2>3, <2>4 DEF SearchOK
<1> HIDE DEF p
<1>2. stack[sp - 2] = Sites.matched
  <2>1. sp - 2 = Top - 5 /\ stack[Top - 5] = Sites.matched
    BY <1>1, TopAssumption DEF FramesOK, Matching
  <2> QED  BY <2>1
<1>3. ASSUME NEW value, fm_return(value)
      PROVE  pc' = "matched" /\ v0' = value
  BY <1>2, <1>3, Returns DEF fm_return, Return, SavedRa
<1>4. ASSUME pc' = "matched",
             v0' = IF Hits = {} THEN 0 ELSE Addr1 + Min(Hits) - 1
      PROVE  SearchOK'
  BY <1>1, <1>4
  DEF SearchOK, Matching, FirstMatchIsRight, Hits, InStr2, Addr1
<1>5. CASE fm_found
  <2>1. pc' = "matched" /\ v0' = s0 /\ v0 # 0
    BY <1>3, <1>5 DEF fm_found, FoundAt
  <2>2. p \in Hits /\ \A j \in Hits : p <= j
    BY <1>1, <2>1 DEF Hits
  <2>3. Min(Hits) = p
    <3>1. \A j \in Hits : j \in Int
      BY <1>1 DEF Hits
    <3>2. \A j \in Hits : (\A m \in Hits : j <= m) => j = p
      BY <2>2, <3>1
    <3> QED  BY <2>2, <3>2 DEF Min
  <2> QED  BY <1>1, <1>4, <2>1, <2>2, <2>3
<1>6. CASE fm_continue
  <2>1. /\ v0 = 0 /\ s0' = s0 + 1 /\ ~InStr2(str1[p])
    BY <1>1, <1>6 DEF fm_continue, NextChar
  <2>2. \A j \in 1 .. p : ~InStr2(str1[j])
    BY <1>1, <2>1
  <2>3. CASE p = Len(str1)
    <3>1. s0' = Addr1 + Len(str1)
      BY <1>1, <2>1, <2>3
    <3>2. byte(s0') = 0 /\ Bytes' = Bytes
      BY <1>1, <3>1, ByteAt DEF Bytes
    <3>3. t0' = 0
      BY <1>6, <3>2 DEF fm_continue
    <3>4. pc' = "matched" /\ v0' = 0
      BY <1>3, <1>6, <3>3 DEF fm_continue
    <3>5. Hits = {}
      BY <1>1, <2>2, <2>3 DEF Hits
    <3> QED  BY <1>4, <3>4, <3>5
  <2>4. CASE p < Len(str1)
    <3>1. /\ p + 1 \in 1 .. Len(str1) /\ s0' = Addr1 + (p + 1) - 1
      BY <1>1, <2>1, <2>4
    <3>2. byte(s0') = str1[p + 1] /\ str1[p + 1] # 0
      BY <3>1, ByteAt
    <3>3. pc' = "fm_loop"
      BY <1>6, <3>2 DEF fm_continue
    <3>4. /\ s0' \in Addr1 .. Addr1 + Len(str1) - 1 /\ s0' - Addr1 = p
      BY <1>1, <3>1, ByteAt
    <3> QED
      BY <1>1, <2>2, <3>3, <3>4
      DEF SearchOK, Matching, FirstMatchIsRight, InStr2, Addr1
  <2>5. p = Len(str1) \/ p < Len(str1)
    <3>1. Len(str1) \in Nat
      BY ByteAt
    <3>2. p \in 1 .. Len(str1)
      BY <1>1
    <3> QED  BY <3>1, <3>2
  <2> QED  BY <2>3, <2>4, <2>5
<1> QED  BY <1>5, <1>6

LEMMA SearchStep == DataOK /\ FramesOK /\ SearchOK /\ [Next]_vars => SearchOK'
<1> SUFFICES ASSUME DataOK, FramesOK, SearchOK, [Next]_vars PROVE SearchOK'
  OBVIOUS
<1>1. CASE UNCHANGED vars
  BY <1>1 DEF vars, SearchOK, Matching, FirstMatchIsRight, InStr2, Addr1, Addr2
<1> QED
  BY <1>1, SearchElsewhere, SearchLoop, SearchReturns DEF Next

\* firstmatch of lab1 returns the address of the first character of str1 that
\* occurs in str2, or zero, for all strings (lab1.asm:36-75).
THEOREM FirstMatchCorrect == Spec => []FirstMatchIsRight
<1>1. SearchOK => FirstMatchIsRight
  BY DEF SearchOK
<1> QED
  BY <1>1, FramesInit, SearchInit, DataStep, FramesStep, SearchStep, PTL
  DEF Spec

-----------------------------------------------------------------------------
(* The factorials: there is a function that its recursion defines.         *)

LEMMA NatInductionSet ==
  ASSUME NEW S \in SUBSET Nat, 0 \in S, \A m \in S : m + 1 \in S
  PROVE  S = Nat
<1> SUFFICES ASSUME Nat \ S # {} PROVE FALSE
  OBVIOUS
<1>1. PICK x \in Nat \ S : \A y \in Nat \ S : ~ (<<y, x>> \in OpToRel(<, Nat))
  BY NatLessThanWellFounded, WFMin
<1>2. x \in Nat /\ x # 0 /\ x - 1 \in Nat /\ x - 1 < x /\ x = (x - 1) + 1
  <2>1. x \in Nat /\ x # 0
    OBVIOUS
  <2> QED  BY <2>1
<1>3. x - 1 \in S
  BY <1>1, <1>2 DEF OpToRel
<1> QED  BY <1>1, <1>2, <1>3

\* The factorials of 0 to m.
Table(g, m) ==
  /\ DOMAIN g = 0 .. m /\ g[0] = 1
  /\ \A k \in 1 .. m : g[k] = k * g[k - 1]

LEMMA TableExists ==
  ASSUME NEW m \in Nat
  PROVE  \E g : Table(g, m)
<1> DEFINE S == {i \in Nat : \E g : Table(g, i)}
<1>1. 0 \in S
  <2>1. Table([i \in 0 .. 0 |-> 1], 0)
    BY DEF Table
  <2> QED  BY <2>1
<1>2. ASSUME NEW i \in S PROVE i + 1 \in S
  <2>1. PICK g : Table(g, i)
    OBVIOUS
  <2> DEFINE h == [k \in 0 .. i + 1 |-> IF k <= i THEN g[k] ELSE k * g[k - 1]]
  <2>2. \A k \in 0 .. i : h[k] = g[k]
    OBVIOUS
  <2>3. h[i + 1] = (i + 1) * h[i]
    BY <2>2
  <2>4. Table(h, i + 1)
    BY <2>1, <2>2, <2>3 DEF Table
  <2> QED  BY <2>4
<1> HIDE DEF S
<1>3. S = Nat
  BY <1>1, <1>2, NatInductionSet DEF S
<1> QED  BY <1>3 DEF S

LEMMA TableUnique ==
  ASSUME NEW m \in Nat, NEW g, Table(g, m), NEW p \in Nat, NEW h, Table(h, p),
         m <= p
  PROVE  \A k \in 0 .. m : g[k] = h[k]
<1> DEFINE S == {i \in Nat : i <= m => g[i] = h[i]}
<1>1. 0 \in S
  BY DEF Table
<1>2. ASSUME NEW i \in S PROVE i + 1 \in S
  <2> SUFFICES ASSUME i + 1 <= m PROVE g[i + 1] = h[i + 1]
    OBVIOUS
  <2>1. i + 1 \in 1 .. m /\ i + 1 \in 1 .. p /\ (i + 1) - 1 = i /\ i <= m
    OBVIOUS
  <2> QED  BY <2>1 DEF Table
<1> HIDE DEF S
<1>3. S = Nat
  BY <1>1, <1>2, NatInductionSet DEF S
<1> QED  BY <1>3 DEF S

LEMMA FactorialDef ==
  Factorial = [k \in Nat |-> IF k = 0 THEN 1 ELSE k * Factorial[k - 1]]
<1> DEFINE T(k) == CHOOSE g : Table(g, k)
           F == [k \in Nat |-> T(k)[k]]
<1>1. \A k \in Nat : Table(T(k), k)
  BY TableExists
<1> HIDE DEF T
<1>2. ASSUME NEW k \in Nat PROVE F[k] = IF k = 0 THEN 1 ELSE k * F[k - 1]
  <2>1. CASE k = 0
    BY <1>1, <2>1 DEF Table
  <2>2. CASE k # 0
    <3>1. k - 1 \in Nat /\ k \in 1 .. k /\ k - 1 \in 0 .. k - 1
      BY <2>2
    <3>2. T(k)[k] = k * T(k)[k - 1]
      BY <1>1, <3>1 DEF Table
    <3>3. T(k - 1)[k - 1] = T(k)[k - 1]
      BY <1>1, <3>1, TableUnique
    <3> QED  BY <2>2, <3>1, <3>2, <3>3
  <2> QED  BY <2>1, <2>2
<1>3. F = [k \in Nat |-> IF k = 0 THEN 1 ELSE k * F[k - 1]]
  BY <1>2
<1> HIDE DEF F
<1>4. \E g : g = [k \in Nat |-> IF k = 0 THEN 1 ELSE k * g[k - 1]]
  BY <1>3
<1> QED  BY <1>4 DEF Factorial

LEMMA FactorialType ==
  /\ \A k \in Nat : Factorial[k] \in Nat
  /\ Factorial[0] = 1
  /\ \A k \in Nat \ {0} : Factorial[k] = k * Factorial[k - 1]
<1>1. /\ Factorial[0] = 1
      /\ \A k \in Nat \ {0} : Factorial[k] = k * Factorial[k - 1]
  BY FactorialDef
<1> DEFINE S == {k \in Nat : Factorial[k] \in Nat}
<1>2. 0 \in S
  BY <1>1
<1>3. ASSUME NEW k \in S PROVE k + 1 \in S
  <2>1. Factorial[k + 1] = (k + 1) * Factorial[k]
    BY <1>1
  <2> QED  BY <2>1
<1> HIDE DEF S
<1>4. S = Nat
  BY <1>2, <1>3, NatInductionSet DEF S
<1> QED  BY <1>1, <1>4 DEF S

-----------------------------------------------------------------------------
(* What fact returns.                                                      *)

\* The rest of a division is the only one there is.
LEMMA OneRest ==
  ASSUME NEW d \in Nat \ {0}, NEW q \in Int, NEW r \in 0 .. d - 1
  PROVE  (q * d + r) % d = r
<1> DEFINE x == q * d + r
           q2 == x \div d
           r2 == x % d
<1>1. /\ q2 \in Int /\ r2 \in 0 .. d - 1 /\ x = q2 * d + r2
  OBVIOUS
<1>2. (q - q2) * d = r2 - r
  BY <1>1
<1> DEFINE e == q - q2
<1>3. e \in Int
  BY <1>1
<1> HIDE DEF q2, r2, e
<1>4. e = 0
  <2>1. CASE e >= 1
    <3>1. e * d >= d
      BY <1>3, <2>1
    <3> QED  BY <1>1, <1>2, <3>1 DEF e
  <2>2. CASE e <= -1
    <3>1. e * d <= -d
      BY <1>3, <2>2
    <3> QED  BY <1>1, <1>2, <3>1 DEF e
  <2> QED  BY <1>3, <2>1, <2>2
<1> QED  BY <1>1, <1>2, <1>4 DEF e, r2

\* Words that were cut may be multiplied as if they had not been.
LEMMA WrapOfProduct ==
  ASSUME NEW x \in Int, NEW y \in Int
  PROVE  Wrap(x * Wrap(y)) = Wrap(x * y)
<1> DEFINE d == WordSize
           h == WordSize \div 2
           q == (y + h) \div d
           r == (y + h) % d
           z == x * y + h
           zq == z \div d
           zr == z % d
<1>1. d \in Nat \ {0} /\ h \in Nat
  BY TopAssumption
<1>2. /\ q \in Int /\ r \in 0 .. d - 1 /\ y + h = q * d + r
  BY <1>1
<1>3. Wrap(y) = r - h
  BY DEF Wrap
<1> HIDE DEF q, r
<1>4. Wrap(y) = y - q * d /\ Wrap(y) \in Int
  BY <1>1, <1>2, <1>3
<1>5. z \in Int
  BY <1>1
<1>6. /\ zq \in Int /\ zr \in 0 .. d - 1 /\ z = zq * d + zr
  <2> HIDE DEF z
  <2> QED  BY <1>1, <1>5
<1>7. Wrap(x * y) = zr - h
  BY DEF Wrap
<1> HIDE DEF zq, zr
<1>8. x * Wrap(y) + h = (zq - x * q) * d + zr
  <2>1. x * Wrap(y) = x * y - (x * q) * d
    BY <1>1, <1>2, <1>4
  <2>2. (zq - x * q) * d = zq * d - (x * q) * d
    BY <1>1, <1>2, <1>6
  <2> DEFINE xq == (x * q) * d
             zz == zq * d
             xy == x * y
  <2>3. xq \in Int /\ zz \in Int /\ xy \in Int
    BY <1>1, <1>2, <1>6
  <2> HIDE DEF xq, zz, xy
  <2>4. x * Wrap(y) = xy - xq
    BY <2>1 DEF xy, xq
  <2>5. xy + h = zz + zr
    BY <1>6 DEF xy, zz
  <2>6. (zq - x * q) * d = zz - xq
    BY <2>2 DEF zz, xq
  <2> HIDE DEF d, h
  <2>7. zr \in Int /\ h \in Int
    BY <1>1, <1>6
  <2> QED  BY <2>3, <2>4, <2>5, <2>6, <2>7
<1>9. zq - x * q \in Int
  BY <1>2, <1>6
<1>10. (x * Wrap(y) + h) % d = zr
  <2> DEFINE c == zq - x * q
  <2>1. c \in Int /\ x * Wrap(y) + h = c * d + zr
    BY <1>8, <1>9
  <2> HIDE DEF c
  <2> QED  BY <1>1, <1>6, <2>1, OneRest
<1> QED  BY <1>7, <1>10 DEF Wrap

\* The product so far: that of the levels that have returned.
ProductOK ==
  /\ pc = "multiply" => v0 = Wrap(Factorial[n - Len(frames)])
  /\ FactIsRight

LEMMA LevelCount ==
  ASSUME NEW k \in Nat, Levels(k)
  PROVE  Len(frames) = k
<1>1. frames = [f \in 1 .. k |-> LevelFrame(f)]
  BY DEF Levels
<1> HIDE DEF LevelFrame
<1> QED  BY <1>1

LEMMA ProductFact ==
  ASSUME WordSize > 3, DataOK, FramesOK, fact
  PROVE  ProductOK'
<1>1. pc = "fact" /\ UNCHANGED <<a0, ra, n>>
  BY DEF fact, data
<1>2. PICK k \in Nat : Levels(k) /\ a0 = n - k /\ ra = CallSite(k + 1)
  BY <1>1 DEF FramesOK, Recursing, Levels
<1>3. n \in Int
  BY NumberTypes
<1>4. CASE a0 < 1
  <2>1. v0' = 1 /\ Return(ra) /\ frames' = frames
    BY <1>3, <1>4 DEF fact
  <2>2. CASE k = 0
    <3>1. pc' = "shown" /\ n < 1
      BY <1>2, <1>3, <1>4, <2>1, <2>2, Returns DEF Return, CallSite
    <3> QED  BY <1>1, <2>1, <3>1 DEF ProductOK, FactIsRight
  <2>3. CASE k > 0
    <3>1. pc' = "multiply"
      BY <1>2, <2>1, <2>3, Returns DEF Return, CallSite
    <3>2. n' - Len(frames') = 0
      BY <1>1, <1>2, <1>3, <1>4, <2>1, <2>3, LevelCount DEF Levels
    <3>3. Wrap(1) = 1
      BY WrapFits, TopAssumption
    <3> QED
      BY <2>1, <3>1, <3>2, <3>3, FactorialType DEF ProductOK, FactIsRight
  <2> QED  BY <2>2, <2>3
<1>5. CASE ~(a0 < 1)
  <2>1. pc' = "L1"
    BY <1>5 DEF fact
  <2> QED  BY <2>1 DEF ProductOK, FactIsRight
<1> QED  BY <1>4, <1>5

LEMMA ProductMultiply ==
  ASSUME DataOK, FramesOK, ProductOK, multiply
  PROVE  ProductOK'
<1>1. /\ pc = "multiply" /\ n' = n /\ Return(stack[sp + 1])
      /\ v0' = Wrap(stack[sp] * v0) /\ frames' = Front(frames)
  BY DEF multiply, data, Pop, Return, Restored
<1>2. PICK k \in Nat : Levels(k) /\ k > 0
  BY <1>1 DEF FramesOK, Recursing, Levels
<1>3. n \in Int /\ k <= n /\ Top \in Nat
  BY <1>2, NumberTypes DEF Levels
<1> DEFINE m == n - k
<1>4. m \in Nat /\ m + 1 \in Nat \ {0} /\ n - k + 1 = m + 1
      /\ (m + 1) - 1 = m
  BY <1>2, <1>3
<1>5. stack[sp] = m + 1 /\ stack[sp + 1] = CallSite(k)
  <2>1. sp = Top - 2 * k /\ sp + 1 = Top - 2 * k + 1 /\ k \in 1 .. k
    BY <1>2, <1>3 DEF Levels
  <2> QED  BY <1>2, <1>4, <2>1 DEF Levels
<1>6. v0 = Wrap(Factorial[m])
  BY <1>1, <1>2, LevelCount DEF ProductOK
<1> HIDE DEF m
<1>7. v0' = Wrap(Factorial[m + 1])
  <2>1. Wrap((m + 1) * Wrap(Factorial[m])) = Wrap((m + 1) * Factorial[m])
    <3>1. m + 1 \in Int /\ Factorial[m] \in Int
      BY <1>4, FactorialType
    <3> QED  BY <3>1, WrapOfProduct
  <2>2. Factorial[m + 1] = (m + 1) * Factorial[m]
    BY <1>4, FactorialType
  <2> QED  BY <1>1, <1>5, <1>6, <2>1, <2>2
<1>8. CASE k = 1
  <2>1. pc' = "shown" /\ n = m + 1 /\ ~(n < 1)
    BY <1>1, <1>3, <1>5, <1>8, Returns DEF Return, CallSite, m
  <2> QED  BY <1>1, <1>7, <2>1 DEF ProductOK, FactIsRight
<1>9. CASE k > 1
  <2>1. pc' = "multiply"
    BY <1>1, <1>5, <1>9, Returns DEF Return, CallSite
  <2>2. Len(frames') = k - 1
    <3>1. frames = [f \in 1 .. k |-> LevelFrame(f)] /\ Len(frames) = k
      BY <1>2, LevelCount DEF Levels
    <3> HIDE DEF LevelFrame
    <3> QED  BY <1>1, <1>2, <1>9, <3>1 DEF Front
  <2>3. n' - Len(frames') = m + 1
    BY <1>1, <1>3, <1>9, <2>2 DEF m
  <2> QED  BY <1>7, <2>1, <2>3 DEF ProductOK, FactIsRight
<1> QED  BY <1>2, <1>8, <1>9

LEMMA ProductStep ==
  WordSize > 3 /\ DataOK /\ FramesOK /\ ProductOK /\ [Next]_vars => ProductOK'
<1> SUFFICES ASSUME WordSize > 3, DataOK, FramesOK, ProductOK, [Next]_vars
             PROVE  ProductOK'
  OBVIOUS
<1>1. CASE main \/ firstmatch \/ fm_loop \/ fact_main \/ L1 \/ show
  BY <1>1 DEF main, firstmatch, fm_loop, fact_main, L1, show, ProductOK,
              FactIsRight
<1>2. CASE sc_loop
  <2>1. pc' \in {"strchr", "found"}
    BY <1>2, Returns DEF sc_loop, FramesOK, Return
  <2> QED  BY <2>1 DEF ProductOK, FactIsRight
<1>3. CASE fm_found \/ fm_continue
  <2>1. SavedRa = Sites.matched
    <3>1. Matching
      BY <1>3 DEF fm_found, fm_continue, Matching
    <3> QED  BY <3>1, TopAssumption DEF FramesOK, SavedRa
  <2>2. pc' \in {"matched", "fm_loop"}
    BY <1>3, <2>1, Returns DEF fm_found, fm_continue, fm_return, Return
  <2> QED  BY <2>2 DEF ProductOK, FactIsRight
<1>4. CASE UNCHANGED vars
  BY <1>4 DEF vars, ProductOK, FactIsRight
<1> QED
  BY <1>1, <1>2, <1>3, <1>4, ProductFact, ProductMultiply DEF Next

\* fact returns the factorial of what was typed, cut to a word once for every
\* multiplication and no less right for it, through as many frames as the
\* number is large (functions_adv.asm:30-49).  Words are large enough for a
\* one.
THEOREM FactorialCorrect ==
  ASSUME WordSize > 3
  PROVE  Spec => []FactIsRight
<1>1. Init => ProductOK
  BY DEF Init, ProductOK, FactIsRight
<1>2. ProductOK => FactIsRight
  BY DEF ProductOK
<1>3. DataOK /\ FramesOK /\ ProductOK /\ [Next]_vars => ProductOK'
  BY ProductStep
<1> QED
  BY <1>1, <1>2, <1>3, FramesInit, DataStep, FramesStep, PTL DEF Spec
-----------------------------------------------------------------------------
(* How long the programs run.                                              *)

\* Blocks for a character of str1 that is not in str2.
Pass == Len(str2) + 2

\* Blocks for the characters of str1 behind the one at s0.
Behind == (Len(str1) - s0) * Pass

Depth == IF n < 1 THEN 0 ELSE n

\* The blocks a program still has to go, or more: fewer if a character is
\* found.  The factorial has two blocks for a level on the way down and one on
\* the way back.
BlocksLeft ==
  CASE pc = "lab1"          -> Len(str1) * Pass + 3
    [] pc = "firstmatch"    -> Len(str1) * Pass + 2
    [] pc = "fm_loop"       -> Behind + Pass + 1
    [] pc = "strchr"        -> Behind + 2 + (Addr2 + Len(str2) - a0)
    [] pc = "found"         -> Behind + 2
    [] pc = "functions_adv" -> 3 * Depth + 3
    [] pc = "fact"          -> 2 * (Depth - Len(frames)) + Depth + 2
    [] pc = "L1"            -> 2 * (Depth - Len(frames)) + Depth + 3
    [] pc = "multiply"      -> Len(frames) + 1
    [] pc \in {"matched", "shown"} -> 1
    [] OTHER                -> 0

RunsDown == [][BlocksLeft' < BlocksLeft]_vars

LEMMA PassTypes ==
  ASSUME DataOK
  PROVE  /\ Len(str1) \in Nat \ {0} /\ Len(str2) \in Nat \ {0}
         /\ Pass \in Nat /\ Pass = Len(str2) + 2 /\ Depth \in Nat
         /\ \A r \in Nat : r * Pass \in Nat /\ (r + 1) * Pass = r * Pass + Pass
<1>1. Pass \in Nat
  BY ByteAt DEF Pass
<1>2. \A r, w \in Nat : r * w \in Nat /\ (r + 1) * w = r * w + w
  OBVIOUS
<1> QED  BY <1>1, <1>2, ByteAt, NumberTypes DEF Pass, Depth

\* The blocks left are counted by a number in every state that is reached.
LEMMA BlocksAreCounted ==
  ASSUME DataOK, FramesOK, SearchOK
  PROVE  BlocksLeft \in Nat
<1>1. /\ Len(str1) \in Nat /\ Len(str2) \in Nat /\ Pass \in Nat
      /\ Depth \in Nat /\ \A r \in Nat : r * Pass \in Nat
  BY PassTypes
<1>2. Len(str1) * Pass \in Nat
  BY <1>1
<1>3. CASE Matching
  <2>1. Len(str1) - s0 \in Nat
    BY <1>1, <1>3, ByteAt DEF SearchOK
  <2>2. Behind \in Nat
    BY <1>1, <2>1 DEF Behind
  <2>3. pc = "strchr" => Addr2 + Len(str2) - a0 \in Nat
    BY <1>1, ByteAt DEF SearchOK
  <2>4. CASE pc = "fm_loop"
    <3>1. BlocksLeft = Behind + Pass + 1
      BY <2>4 DEF BlocksLeft
    <3> QED  BY <1>1, <2>2, <3>1
  <2>5. CASE pc = "strchr"
    <3>1. BlocksLeft = Behind + 2 + (Addr2 + Len(str2) - a0)
      BY <2>5 DEF BlocksLeft
    <3> QED  BY <2>2, <2>3, <2>5, <3>1
  <2>6. CASE pc = "found"
    <3>1. BlocksLeft = Behind + 2
      BY <2>6 DEF BlocksLeft
    <3> QED  BY <2>2, <3>1
  <2> QED  BY <1>3, <2>4, <2>5, <2>6 DEF Matching
<1>4. CASE Recursing
  <2>1. PICK k \in Nat : Levels(k)
    BY <1>4 DEF FramesOK, Levels
  <2>2. Len(frames) = k /\ k <= Depth
    BY <2>1, LevelCount, NumberTypes DEF Levels, Depth
  <2>3. \/ BlocksLeft = 2 * (Depth - k) + Depth + 2
        \/ BlocksLeft = 2 * (Depth - k) + Depth + 3
        \/ BlocksLeft = k + 1
    BY <1>4, <2>2 DEF BlocksLeft, Recursing
  <2> QED  BY <1>1, <2>2, <2>3
<1>5. CASE Outside
  <2>1. \/ BlocksLeft = Len(str1) * Pass + 3
        \/ BlocksLeft = Len(str1) * Pass + 2
        \/ BlocksLeft = 3 * Depth + 3
        \/ BlocksLeft \in {0, 1}
    BY <1>5 DEF BlocksLeft, Outside
  <2> QED  BY <1>1, <1>2, <2>1
<1> QED  BY <1>3, <1>4, <1>5 DEF FramesOK, Labels, Matching, Recursing, Outside

LEMMA MatchRunsDown ==
  ASSUME DataOK, FramesOK, SearchOK,
         main \/ firstmatch \/ fm_loop \/ sc_loop \/ fm_found \/ fm_continue
  PROVE  BlocksLeft' < BlocksLeft
<1>1. /\ UNCHANGED <<str1, str2>> /\ Addr1 = 1 /\ Addr2 = Len(str1) + 2
      /\ Len(str1) \in Nat \ {0} /\ Len(str2) \in Nat \ {0}
      /\ Pass \in Nat /\ Pass = Len(str2) + 2 /\ Pass' = Pass
      /\ Addr1' = Addr1 /\ Addr2' = Addr2
  BY PassTypes, ByteAt
  DEF main, firstmatch, fm_loop, sc_loop, fm_found, fm_continue, data, Pass,
      Addr1, Addr2
<1>2. \A r \in Nat : r * Pass \in Nat /\ (r + 1) * Pass = r * Pass + Pass
  BY PassTypes
<1>3. Matching => Len(str1) - s0 \in Nat /\ s0 \in Nat
  BY <1>1 DEF SearchOK
<1>4. Matching => Behind \in Nat
  BY <1>2, <1>3 DEF Behind
<1>5. CASE main
  <2>1. Len(str1) * Pass \in Nat
    BY <1>1, <1>2
  <2>2. pc = "lab1" /\ pc' = "firstmatch"
    BY <1>5 DEF main
  <2>3. BlocksLeft = Len(str1) * Pass + 3 /\ BlocksLeft' = Len(str1) * Pass + 2
    BY <1>1, <2>2 DEF BlocksLeft
  <2> QED  BY <2>1, <2>3
<1>6. CASE firstmatch
  <2>1. PICK r \in Nat : Len(str1) = r + 1
    <3>1. Len(str1) - 1 \in Nat /\ Len(str1) = (Len(str1) - 1) + 1
      BY <1>1
    <3> QED  BY <3>1
  <2>2. pc = "firstmatch" /\ pc' = "fm_loop" /\ s0' = 1
    BY <1>1, <1>6 DEF firstmatch, FramesOK
  <2>3. Behind' = r * Pass
    <3>1. Len(str1) - 1 = r
      BY <2>1
    <3> QED  BY <1>1, <2>2, <3>1 DEF Behind
  <2>4. /\ BlocksLeft = (r + 1) * Pass + 2
        /\ BlocksLeft' = r * Pass + Pass + 1
    BY <1>1, <2>1, <2>2, <2>3 DEF BlocksLeft
  <2>5. (r + 1) * Pass = r * Pass + Pass /\ r * Pass \in Nat
    BY <1>2
  <2> QED  BY <1>1, <2>4, <2>5
<1>7. CASE fm_loop
  <2>1. /\ pc = "fm_loop" /\ pc' = "strchr" /\ a0' = Addr2 /\ s0' = s0
        /\ Matching
    BY <1>7 DEF fm_loop, FramesOK, Matching
  <2>2. Behind' = Behind
    BY <1>1, <2>1 DEF Behind
  <2>3. /\ BlocksLeft = Behind + Pass + 1
        /\ BlocksLeft' = Behind + 2 + (Addr2 + Len(str2) - Addr2)
    BY <1>1, <2>1, <2>2 DEF BlocksLeft
  <2> QED  BY <1>1, <1>4, <2>1, <2>3
<1>8. CASE sc_loop
  <2>1. /\ pc = "strchr" /\ Matching /\ s0' = s0
        /\ a0 \in Addr2 .. Addr2 + Len(str2) - 1
        /\ ra = Sites.found
    BY <1>8 DEF sc_loop, Matching, SearchOK, FramesOK
  <2>2. Behind' = Behind
    BY <1>1, <2>1 DEF Behind
  <2>3. \/ pc' = "found"
        \/ pc' = "strchr" /\ a0' = a0 + 1
    BY <1>8, <2>1, Returns DEF sc_loop, Return
  <2>4. BlocksLeft = Behind + 2 + (Addr2 + Len(str2) - a0)
    BY <2>1 DEF BlocksLeft
  <2>5. CASE pc' = "found"
    <3>1. BlocksLeft' = Behind + 2
      BY <2>2, <2>5 DEF BlocksLeft
    <3> QED  BY <1>1, <1>4, <2>1, <2>4, <3>1
  <2>6. CASE pc' = "strchr" /\ a0' = a0 + 1
    <3>1. BlocksLeft' = Behind + 2 + (Addr2 + Len(str2) - (a0 + 1))
      BY <1>1, <2>2, <2>6 DEF BlocksLeft
    <3> QED  BY <1>1, <1>4, <2>1, <2>4, <3>1
  <2> QED  BY <2>3, <2>5, <2>6
<1>9. CASE fm_found \/ fm_continue
  <2>1. pc = "found" /\ Matching
    BY <1>9 DEF fm_found, fm_continue, Matching
  <2>2. BlocksLeft = Behind + 2 /\ Behind \in Nat
    BY <1>4, <2>1 DEF BlocksLeft
  <2>3. SavedRa = Sites.matched
    BY <2>1, TopAssumption DEF FramesOK, SavedRa
  <2>4. \/ pc' = "matched"
        \/ pc' = "fm_loop" /\ s0' = s0 + 1
    BY <1>9, <2>3, Returns
    DEF fm_found, fm_continue, fm_return, Return, NextChar
  <2>5. CASE pc' = "matched"
    <3>1. BlocksLeft' = 1
      BY <2>5 DEF BlocksLeft
    <3> QED  BY <2>2, <3>1
  <2>6. CASE pc' = "fm_loop" /\ s0' = s0 + 1
    <3>1. SearchOK'
      <4>1. [Next]_vars
        BY <1>9 DEF Next
      <4> QED  BY <4>1, SearchStep
    <3>2. Matching' /\ s0' \in Addr1 .. Addr1 + Len(str1) - 1
      BY <1>1, <2>6, <3>1 DEF SearchOK, Matching
    <3>3. PICK r \in Nat : Len(str1) - s0 = r + 1 /\ Len(str1) - (s0 + 1) = r
      <4>1. /\ Len(str1) - (s0 + 1) \in Nat
            /\ Len(str1) - s0 = (Len(str1) - (s0 + 1)) + 1
        BY <1>1, <1>3, <2>1, <2>6, <3>2
      <4> QED  BY <4>1
    <3>4. Behind = (r + 1) * Pass /\ Behind' = r * Pass
      BY <1>1, <2>6, <3>3 DEF Behind
    <3>5. BlocksLeft' = Behind' + Pass + 1
      BY <1>1, <2>6 DEF BlocksLeft
    <3>6. (r + 1) * Pass = r * Pass + Pass /\ r * Pass \in Nat
      BY <1>2
    <3> QED  BY <1>1, <2>2, <3>4, <3>5, <3>6
  <2> QED  BY <2>4, <2>5, <2>6
<1> QED  BY <1>5, <1>6, <1>7, <1>8, <1>9

LEMMA FactRunsDown ==
  ASSUME DataOK, FramesOK, fact_main \/ fact \/ L1 \/ multiply \/ show
  PROVE  BlocksLeft' < BlocksLeft
<1>1. n' = n /\ Depth \in Nat /\ Depth' = Depth /\ n \in Int
  BY PassTypes, NumberTypes
  DEF fact_main, fact, L1, multiply, show, data, Depth
<1>2. CASE show
  <2>1. pc \in {"matched", "shown"} /\ pc' = "exit"
    BY <1>2 DEF show
  <2>2. BlocksLeft = 1 /\ BlocksLeft' = 0
    BY <2>1 DEF BlocksLeft
  <2> QED  BY <2>2
<1>3. CASE fact_main
  <2>1. pc = "functions_adv" /\ pc' = "fact" /\ frames' = <<>>
    BY <1>3 DEF fact_main, FramesOK, Outside
  <2>2. /\ BlocksLeft = 3 * Depth + 3
        /\ BlocksLeft' = 2 * (Depth - 0) + Depth + 2
    BY <1>1, <2>1 DEF BlocksLeft
  <2> QED  BY <1>1, <2>2
<1>4. CASE fact \/ L1 \/ multiply
  <2>1. PICK k \in Nat :
          /\ Levels(k)
          /\ pc = "fact" => a0 = n - k /\ ra = CallSite(k + 1)
          /\ pc = "multiply" => k > 0
    BY <1>4 DEF fact, L1, multiply, FramesOK, Recursing, Levels
  <2>2. Len(frames) = k /\ k <= Depth /\ (k = 0 \/ k <= n)
    BY <1>1, <2>1, LevelCount DEF Levels, Depth
  <2>3. frames = [f \in 1 .. k |-> LevelFrame(f)]
    BY <2>1 DEF Levels
  <2>4. CASE L1
    <3>1. pc = "L1" /\ pc' = "fact" /\ frames' = frames
      BY <2>4 DEF L1
    <3>2. /\ BlocksLeft = 2 * (Depth - k) + Depth + 3
          /\ BlocksLeft' = 2 * (Depth - k) + Depth + 2
      BY <1>1, <2>2, <3>1 DEF BlocksLeft
    <3> QED  BY <1>1, <3>2
  <2>5. CASE fact /\ a0 < 1
    <3>1. pc = "fact" /\ frames' = frames /\ pc' \in {"shown", "multiply"}
      BY <2>1, <2>5, Returns DEF fact, Return, CallSite
    <3>2. k = Depth
      BY <1>1, <2>1, <2>2, <2>5, <3>1 DEF Depth
    <3>3. BlocksLeft = k + 2 /\ (BlocksLeft' = 1 \/ BlocksLeft' = k + 1)
      BY <1>1, <2>2, <3>1, <3>2 DEF BlocksLeft
    <3> QED  BY <3>3
  <2>6. CASE fact /\ ~(a0 < 1)
    <3>1. pc = "fact" /\ pc' = "L1" /\ Len(frames') = k + 1
      <4> HIDE DEF LevelFrame
      <4>1. PICK f : frames' = Append(frames, f)
        BY <2>6 DEF fact, Push
      <4> QED  BY <2>3, <2>6, <4>1 DEF fact
    <3>2. /\ BlocksLeft = 2 * (Depth - k) + Depth + 2
          /\ BlocksLeft' = 2 * (Depth - (k + 1)) + Depth + 3
      BY <1>1, <2>2, <3>1 DEF BlocksLeft
    <3> QED  BY <1>1, <3>2
  <2>7. CASE multiply
    <3>1. pc = "multiply" /\ k > 0 /\ frames' = Front(frames)
          /\ Return(stack[sp + 1])
      BY <2>1, <2>7 DEF multiply, Pop, Return
    <3>2. Len(frames') = k - 1
      <4> HIDE DEF LevelFrame
      <4> QED  BY <2>2, <2>3, <3>1 DEF Front
    <3>3. pc' \in {"shown", "multiply"}
      <4>1. sp + 1 = Top - 2 * k + 1 /\ k \in 1 .. k
        BY <2>1, <3>1, TopAssumption DEF Levels
      <4>2. stack[sp + 1] = CallSite(k)
        BY <2>1, <4>1 DEF Levels
      <4> QED  BY <3>1, <4>2, Returns DEF Return, CallSite
    <3>4. /\ BlocksLeft = k + 1
          /\ BlocksLeft' = IF pc' = "shown" THEN 1 ELSE (k - 1) + 1
      BY <2>2, <3>1, <3>2, <3>3 DEF BlocksLeft
    <3> QED  BY <3>1, <3>4
  <2> QED  BY <1>4, <2>4, <2>5, <2>6, <2>7
<1> QED  BY <1>2, <1>3, <1>4

\* Every block brings the programs nearer to their end, from at most
\* Len(str1) * (Len(str2) + 2) + 3 of them in lab1.asm and 3 * n + 3 in
\* functions_adv.asm: neither loops, for any strings and any number
\* (lab1.asm:36-75, functions_adv.asm:30-49).
THEOREM ProgramsRunDown == Spec => [](BlocksLeft \in Nat) /\ RunsDown
<1>1. DataOK /\ FramesOK /\ SearchOK => BlocksLeft \in Nat
  BY BlocksAreCounted
<1>2. DataOK /\ FramesOK /\ SearchOK /\ [Next]_vars =>
        [BlocksLeft' < BlocksLeft]_vars
  BY MatchRunsDown, FactRunsDown DEF Next
<1> QED
  BY <1>1, <1>2, FramesInit, SearchInit, DataStep, FramesStep, SearchStep, PTL
  DEF Spec, RunsDown
=============================================================================
