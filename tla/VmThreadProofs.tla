--------------------------- MODULE VmThreadProofs ---------------------------
(***************************************************************************)
(* The structured error that a run ends with, for any module that the      *)
(* verifier accepts: its frames are the activations that were open where   *)
(* it arose, whatever was caught, finalized and thrown again on the way.   *)
(***************************************************************************)
EXTENDS VmThread, SequenceTheorems, WellFoundedInduction, TLAPS

-----------------------------------------------------------------------------
(* The invariant                                                           *)

Fns == DOMAIN code.functions
Instructions ==
    UNION {{code.functions[fn][at] : at \in DOMAIN code.functions[fn]} : fn \in Fns}
Labels == {i.label : i \in Instructions} \cup {"refused", "try_end", "end_catch", "end_finally"}
Kinds == {"throw", "fault", "fail"}
Errors == [kind : Kinds, label : Labels, trail : Seq(Fns), origin : Seq(Fns)]
TryFrames ==
    [catch : Nat \cup {None}, finally : Nat \cup {None}, end : Nat, in_catch : BOOLEAN,
     in_finally : BOOLEAN, rethrow : BOOLEAN, pending : Errors \cup {None}]
Activations == [fn : Fns, pc : Nat, tries : Seq(TryFrames), tail : BOOLEAN]

TypeOK ==
    /\ code \in Codes
    /\ frames \in Seq(Activations)
    /\ error \in Errors \cup {None}

\* What an error tells that is about to leave the activation at this depth: its origin is
\* the chain of activations that are still open with those it left, and its frames are
\* those it left, innermost first.
Tells(e, depth) ==
    /\ Len(e.origin) = depth + Len(e.trail)
    /\ \A i \in 1..depth : e.origin[i] = frames[i].fn
    /\ \A k \in 1..Len(e.trail) : e.trail[k] = e.origin[Len(e.origin) + 1 - k]

\* Errors that a catch or finally block interrupted wait in the block's try frame.
TriesTell(tries, depth) ==
    \A i \in DOMAIN tries : tries[i].pending # None => Tells(tries[i].pending, depth)

ErrorsTell ==
    /\ error # None => Tells(error, Depth)
    /\ \A n \in 1..Depth : TriesTell(frames[n].tries, n)

IInv == TypeOK /\ ErrorsTell /\ FramesTellCallChain

-----------------------------------------------------------------------------
(* Lemmas                                                                  *)

\* A set of positions that is not empty has a last one.
LEMMA LastPosition ==
    ASSUME NEW n \in Nat, NEW S \in SUBSET (1..n), S # {}
    PROVE  Max(S) \in S /\ \A y \in S : Max(S) >= y
<1> DEFINE T == {n - y : y \in S}
<1>1. T \subseteq Nat /\ T # {}
  <2>1. \A y \in S : n - y \in Nat
    OBVIOUS
  <2> QED
    BY <2>1
<1>2. PICK m \in T : \A k \in T : ~(<<k, m>> \in OpToRel(<, Nat))
  BY <1>1, WFMin, NatLessThanWellFounded
<1>3. \A k \in T : ~(k < m)
  BY <1>1, <1>2 DEF OpToRel
<1>4. PICK x \in S : m = n - x
  BY <1>2
<1>5. \A y \in S : x >= y
  BY <1>3, <1>4
<1> QED
  BY <1>4, <1>5 DEF Max

\* The instruction that is executed is one of the verified module.
LEMMA Verified ==
    ASSUME TypeOK, NEW ops, Executes(ops)
    PROVE  /\ Depth \in Nat \ {0} /\ Current \in Activations /\ error = None /\ Inst.op \in ops
           /\ Inst.op \in {"call", "tail_call"} => Inst.fn \in Fns
           /\ Inst.op = "try_begin" => {Inst.catch, Inst.finally} \subseteq Nat \cup {None} /\ Inst.end \in Nat
           /\ Inst.label \in Labels
<1>1. Depth \in Nat \ {0} /\ Current \in Activations
  BY DEF TypeOK, Executes, Depth, Current
<1>2. Current.fn \in DOMAIN code.functions /\ Current.pc \in DOMAIN code.functions[Current.fn]
  BY <1>1 DEF Executes, InRange, Activations, Fns
<1> QED
  BY <1>1, <1>2, CodesAssumption DEF TypeOK, Executes, Inst, Fns, Instructions, Labels

\* What an error tells depends on the functions that are open, not on where they are.
LEMMA TellsOfFunctions ==
    ASSUME NEW e, NEW n \in Nat, \A i \in 1..n : frames'[i].fn = frames[i].fn
    PROVE  Tells(e, n) => Tells(e, n)'
BY DEF Tells

\* The current activation goes on with try frames whose errors tell what they should.
LEMMA GoesOnKeeps ==
    ASSUME TypeOK, Depth \in Nat \ {0}, code' = code, error' \in Errors \cup {None},
           \A n \in 1..Depth : TriesTell(frames[n].tries, n),
           NEW pc \in Nat, NEW tries \in Seq(TryFrames), TriesTell(tries, Depth),
           GoesOn(pc, tries)
    PROVE  /\ TypeOK' /\ Depth' = Depth
           /\ \A i \in 1..Depth : frames'[i].fn = frames[i].fn
           /\ \A n \in 1..Depth : TriesTell(frames[n].tries, n)'
<1>1. /\ frames \in Seq(Activations) /\ Depth = Len(frames) /\ Fns' = Fns
      /\ Errors' = Errors /\ TryFrames' = TryFrames /\ Activations' = Activations
  BY DEF TypeOK, Depth, Fns, Instructions, Labels, Errors, TryFrames, Activations
<1>2. frames' = [frames EXCEPT ![Depth] = [frames[Depth] EXCEPT !.pc = pc, !.tries = tries]]
  BY DEF GoesOn
<1>3. [frames[Depth] EXCEPT !.pc = pc, !.tries = tries] \in Activations
  <2>1. frames[Depth] \in Activations
    BY <1>1
  <2> QED
    BY <2>1 DEF Activations
<1>4. /\ frames' \in Seq(Activations) /\ Len(frames') = Len(frames)
      /\ frames'[Depth].tries = tries /\ frames'[Depth].fn = frames[Depth].fn
      /\ \A i \in 1..Depth : i # Depth => frames'[i] = frames[i]
  BY <1>1, <1>2, <1>3, ExceptSeq DEF Activations
<1>5. \A i \in 1..Depth : frames'[i].fn = frames[i].fn
  BY <1>4
<1>6. ASSUME NEW n \in 1..Depth PROVE TriesTell(frames[n].tries, n)'
  <2>1. TriesTell(frames'[n].tries, n)
    BY <1>4, <1>6
  <2>2. \A e : Tells(e, n) => Tells(e, n)'
    BY <1>5, <1>6, TellsOfFunctions
  <2> QED
    BY <2>1, <2>2 DEF TriesTell
<1> QED
  BY <1>1, <1>4, <1>5, <1>6 DEF TypeOK, Depth

\* Activations that stay keep the errors that wait in them.
LEMMA PrefixKeeps ==
    ASSUME TypeOK, code' = code, \A n \in 1..Depth : TriesTell(frames[n].tries, n),
           NEW m \in Nat, m <= Depth,
           \A i \in 1..m : frames'[i].fn = frames[i].fn /\ frames'[i].tries = frames[i].tries
    PROVE  /\ \A n \in 1..m : TriesTell(frames[n].tries, n)'
           /\ \A e : Tells(e, m) => Tells(e, m)'
<1>0. Depth \in Nat
  BY DEF TypeOK, Depth
<1>1. ASSUME NEW n \in 1..m PROVE TriesTell(frames[n].tries, n)'
  <2>1. TriesTell(frames'[n].tries, n)
    BY <1>0, <1>1
  <2>2. \A i \in 1..n : frames'[i].fn = frames[i].fn
    BY <1>1
  <2>3. \A e : Tells(e, n) => Tells(e, n)'
    BY <1>1, <2>2, TellsOfFunctions
  <2> QED
    BY <2>1, <2>3 DEF TriesTell
<1>2. \A e : Tells(e, m) => Tells(e, m)'
  BY TellsOfFunctions
<1> QED
  BY <1>1, <1>2

\* An error that is raised tells of all activations that are open.
LEMMA RaiseTells ==
    ASSUME TypeOK, UNCHANGED <<code, frames>>, NEW kind \in Kinds, NEW label \in Labels,
           Raise(kind, label)
    PROVE  error' \in Errors /\ Tells(error, Depth)'
<1>1. Chain \in Seq(Fns) /\ Len(Chain) = Depth /\ Depth \in Nat
      /\ \A i \in 1..Depth : Chain[i] = frames[i].fn
  <2>1. Depth \in Nat /\ \A i \in 1..Depth : frames[i] \in Activations
    BY DEF TypeOK, Depth
  <2>2. \A i \in 1..Depth : frames[i].fn \in Fns
    BY <2>1 DEF Activations
  <2> QED
    BY <2>1, <2>2 DEF Chain
<1>2. error' = [kind |-> kind, label |-> label, trail |-> <<>>, origin |-> Chain]
  BY DEF Raise
<1>3. error' \in Errors
  BY <1>1, <1>2 DEF Errors
<1> QED
  BY <1>1, <1>2, <1>3 DEF Tells, Depth

\* The error of a run tells of no open activation: its frames are the origin, innermost first.
LEMMA TrailOfRun ==
    ASSUME TypeOK, NEW e \in Errors, Len(e.origin) = Len(e.trail),
           \A k \in 1..Len(e.trail) : e.trail[k] = e.origin[Len(e.origin) + 1 - k]
    PROVE  e.trail = Reverse(e.origin)
<1>1. e.trail \in Seq(Fns) /\ e.origin \in Seq(Fns)
  BY DEF Errors
<1>2. Len(e.origin) \in Nat /\ e.trail = [k \in 1..Len(e.origin) |-> e.trail[k]]
  BY <1>1
<1>3. \A k \in 1..Len(e.origin) : e.trail[k] = e.origin[(Len(e.origin) - k) + 1]
  <2>1. \A k \in 1..Len(e.origin) : Len(e.origin) + 1 - k = (Len(e.origin) - k) + 1
    BY <1>2
  <2> QED
    BY <2>1
<1>4. e.trail = [k \in 1..Len(e.origin) |-> e.origin[(Len(e.origin) - k) + 1]]
  BY <1>2, <1>3
<1> QED
  BY <1>4 DEF Reverse

-----------------------------------------------------------------------------
(* The steps                                                               *)

LEMMA NextInv == IInv /\ [Next]_vars => IInv'
<1> SUFFICES ASSUME IInv, [Next]_vars PROVE IInv'
  OBVIOUS
<1>0. TypeOK /\ ErrorsTell /\ FramesTellCallChain
  BY DEF IInv
<1>1. /\ Depth \in Nat /\ \A i \in 1..Depth : frames[i] \in Activations
      /\ \A n \in 1..Depth : TriesTell(frames[n].tries, n)
  BY <1>0 DEF TypeOK, Depth, ErrorsTell
<1>2. Depth > 0 =>
        /\ Current \in Activations /\ NextPc \in Nat /\ Current.tries \in Seq(TryFrames)
        /\ TriesTell(Current.tries, Depth)
  BY <1>1 DEF Current, NextPc, Activations
<1>3. Depth > 0 /\ Current.tries # <<>> =>
        /\ TopTry \in TryFrames /\ OuterTries \in Seq(TryFrames)
        /\ TopTry.pending # None => Tells(TopTry.pending, Depth)
        /\ TriesTell(OuterTries, Depth)
  <2> SUFFICES ASSUME Depth > 0, Current.tries # <<>>
               PROVE  /\ TopTry \in TryFrames /\ OuterTries \in Seq(TryFrames)
                      /\ TopTry.pending # None => Tells(TopTry.pending, Depth)
                      /\ TriesTell(OuterTries, Depth)
    OBVIOUS
  <2> DEFINE n == Len(Current.tries)
  <2>1. n \in Nat \ {0} /\ Current.tries \in Seq(TryFrames)
    BY <1>2
  <2>2. TopTry \in TryFrames /\ (TopTry.pending # None => Tells(TopTry.pending, Depth))
    BY <1>2, <2>1 DEF TopTry, TriesTell
  <2>3. OuterTries \in Seq(TryFrames) /\ Len(OuterTries) = n - 1
        /\ \A i \in 1..n - 1 : OuterTries[i] = Current.tries[i]
    BY <2>1, SubSeqProperties DEF OuterTries, Front
  <2>4. TriesTell(OuterTries, Depth)
    BY <1>2, <2>1, <2>3 DEF TriesTell
  <2> QED
    BY <2>2, <2>3, <2>4
<1> DEFINE Kept == TypeOK' /\ ErrorsTell' /\ FramesTellCallChain'
<1>4. ASSUME code' = code, outcome' = outcome, Depth > 0, error' \in Errors \cup {None},
             error' # None => Tells(error', Depth),
             NEW pc \in Nat, NEW tries \in Seq(TryFrames), TriesTell(tries, Depth),
             GoesOn(pc, tries)
      PROVE  Kept
  <2>1. /\ TypeOK' /\ Depth' = Depth
        /\ \A i \in 1..Depth : frames'[i].fn = frames[i].fn
        /\ \A n \in 1..Depth : TriesTell(frames[n].tries, n)'
    BY <1>0, <1>1, <1>4, GoesOnKeeps
  <2>2. error' # None => Tells(error, Depth)'
    BY <1>1, <1>4, <2>1 DEF Tells
  <2>3. FramesTellCallChain'
    BY <1>0, <1>4 DEF FramesTellCallChain
  <2> QED
    BY <2>1, <2>2, <2>3 DEF ErrorsTell
<1>5. ASSUME NEW kind \in Kinds, NEW label \in Labels, Raise(kind, label),
             UNCHANGED <<code, frames, outcome>>
      PROVE  Kept
  <2>1. error' \in Errors /\ Tells(error, Depth)'
    BY <1>0, <1>5, RaiseTells
  <2>2. TypeOK'
    BY <1>0, <1>5, <2>1 DEF TypeOK, Activations, TryFrames, Errors, Labels, Instructions, Fns
  <2>3. \A n \in 1..Depth : TriesTell(frames[n].tries, n)'
    BY <1>0, <1>1, <1>5, PrefixKeeps
  <2>4. ErrorsTell' /\ FramesTellCallChain'
    BY <1>0, <1>5, <2>1, <2>3 DEF ErrorsTell, FramesTellCallChain, Depth
  <2> QED
    BY <2>2, <2>4
<1> HIDE DEF Kept
<1>6. ASSUME Mark PROVE Kept
  <2>1. error' = None /\ Depth > 0
    BY <1>6, <1>1 DEF Mark, Executes
  <2> QED
    BY <1>2, <1>4, <1>6, <2>1 DEF Mark
<1>7. ASSUME Fails PROVE Kept
  BY <1>0, <1>5, <1>7, Verified DEF Fails, Kinds
<1>8. ASSUME TryBegin PROVE Kept
  <2> DEFINE new == [catch |-> Inst.catch, finally |-> Inst.finally, end |-> Inst.end,
                     in_catch |-> FALSE, in_finally |-> FALSE, rethrow |-> FALSE, pending |-> None]
  <2>1. new \in TryFrames /\ error' = None /\ Depth > 0
    BY <1>0, <1>8, Verified DEF TryBegin, TryFrames
  <2>2. /\ Append(Current.tries, new) \in Seq(TryFrames)
        /\ TriesTell(Append(Current.tries, new), Depth)
    BY <1>2, <2>1, AppendProperties DEF TriesTell
  <2> QED
    BY <1>2, <1>4, <1>8, <2>1, <2>2 DEF TryBegin
<1>9. ASSUME TryEnd PROVE Kept
  <2>1. /\ error = None /\ Depth > 0 /\ Inst.op \in Labels
    BY <1>0, <1>9, Verified DEF TryEnd, Labels
  <2>2. CASE Current.tries = <<>>
    <3>1. Raise("throw", Inst.op) /\ UNCHANGED <<code, frames, outcome>>
      BY <1>9, <2>2 DEF TryEnd
    <3> QED
      BY <1>5, <2>1, <3>1 DEF Kinds
  <2>3. CASE Current.tries # <<>> /\ TopTry.finally # None
    <3> DEFINE tries == Append(OuterTries, Finally(TopTry))
    <3>1. TopTry.finally \in Nat /\ Finally(TopTry) \in TryFrames /\ Finally(TopTry).pending = None
      BY <1>3, <2>1, <2>3 DEF Finally, TryFrames
    <3>2. tries \in Seq(TryFrames) /\ TriesTell(tries, Depth)
      BY <1>3, <2>1, <2>3, <3>1, AppendProperties DEF TriesTell
    <3> QED
      BY <1>4, <1>9, <2>1, <2>3, <3>1, <3>2 DEF TryEnd, Completes
  <2>4. CASE Current.tries # <<>> /\ TopTry.finally = None
    <3>1. TopTry.end \in Nat
      BY <1>3, <2>1, <2>4 DEF TryFrames
    <3> QED
      BY <1>3, <1>4, <1>9, <2>1, <2>4, <3>1 DEF TryEnd, Completes
  <2> QED
    BY <2>2, <2>3, <2>4
<1>10. ASSUME EndFinally PROVE Kept
  <2>1. /\ error = None /\ Depth > 0 /\ Inst.op \in Labels
    BY <1>0, <1>10, Verified DEF EndFinally, Labels
  <2>2. CASE Current.tries = <<>>
    <3>1. Raise("throw", Inst.op) /\ UNCHANGED <<code, frames, outcome>>
      BY <1>10, <2>2 DEF EndFinally
    <3> QED
      BY <1>5, <2>1, <3>1 DEF Kinds
  <2>3. CASE Current.tries # <<>>
    <3>1. /\ error' = IF Rethrows(TopTry) THEN TopTry.pending ELSE None
          /\ GoesOn(IF Rethrows(TopTry) THEN Current.pc ELSE TopTry.end, OuterTries)
          /\ UNCHANGED <<code, outcome>>
      BY <1>10, <2>3 DEF EndFinally
    <3>2. error' \in Errors \cup {None} /\ (error' # None => Tells(error', Depth))
      BY <1>3, <2>1, <2>3, <3>1 DEF TryFrames
    <3>3. (IF Rethrows(TopTry) THEN Current.pc ELSE TopTry.end) \in Nat
      BY <1>2, <1>3, <2>1, <2>3 DEF TryFrames, Activations
    <3> QED
      BY <1>3, <1>4, <2>1, <2>3, <3>1, <3>2, <3>3
  <2> QED
    BY <2>2, <2>3
<1>11. ASSUME Handles PROVE Kept
  <2> DEFINE i == Max(Handlers(Current.tries))
             t == Current.tries[i]
             outer == SubSeq(Current.tries, 1, i - 1)
  <2>1. /\ Depth > 0 /\ error # None /\ error' = None /\ UNCHANGED <<code, outcome>>
        /\ Handlers(Current.tries) # {}
    BY <1>11 DEF Handles
  <2>2. /\ Current.tries \in Seq(TryFrames) /\ Len(Current.tries) \in Nat
        /\ Handlers(Current.tries) \in SUBSET (1..Len(Current.tries))
    <3>1. Current.tries \in Seq(TryFrames) /\ DOMAIN Current.tries = 1..Len(Current.tries)
      BY <1>2, <2>1
    <3>2. Handlers(Current.tries) \subseteq DOMAIN Current.tries
      BY DEF Handlers
    <3> QED
      BY <3>1, <3>2
  <2>3. i \in Handlers(Current.tries) /\ i \in 1..Len(Current.tries)
    BY <2>1, <2>2, LastPosition
  <2>4. t \in TryFrames /\ (Catches(t) \/ Finalizes(t))
    <3>1. Catches(t) \/ Finalizes(t)
      BY <2>3 DEF Handlers
    <3> QED
      BY <2>2, <2>3, <3>1
  <2>5. /\ outer \in Seq(TryFrames) /\ Len(outer) = i - 1
        /\ \A j \in 1..i - 1 : outer[j] = Current.tries[j]
    BY <2>2, <2>3, SubSeqProperties
  <2>6. error \in Errors /\ Tells(error, Depth)
    BY <1>0, <2>1 DEF TypeOK, ErrorsTell
  <2>7. ASSUME NEW u \in TryFrames, u.pending = error
        PROVE  Append(outer, u) \in Seq(TryFrames) /\ TriesTell(Append(outer, u), Depth)
    BY <1>2, <2>1, <2>2, <2>3, <2>5, <2>6, <2>7, AppendProperties DEF TriesTell
  <2> HIDE DEF i, t, outer
  <2>8. CASE Catches(t) /\ GoesOn(t.catch, Append(outer,
               [t EXCEPT !.in_catch = TRUE, !.rethrow = FALSE, !.pending = error]))
    <3> DEFINE u == [t EXCEPT !.in_catch = TRUE, !.rethrow = FALSE, !.pending = error]
    <3>1. u \in TryFrames /\ u.pending = error /\ t.catch \in Nat
      BY <2>4, <2>6, <2>8 DEF TryFrames, Catches
    <3> HIDE DEF u
    <3>2. Append(outer, u) \in Seq(TryFrames) /\ TriesTell(Append(outer, u), Depth)
      BY <2>7, <3>1
    <3> QED
      BY <1>4, <2>1, <2>8, <3>1, <3>2 DEF u
  <2>9. CASE ~Catches(t) /\ GoesOn(t.finally, Append(outer,
               [t EXCEPT !.in_catch = FALSE, !.in_finally = TRUE, !.rethrow = TRUE,
                         !.pending = error]))
    <3> DEFINE u == [t EXCEPT !.in_catch = FALSE, !.in_finally = TRUE, !.rethrow = TRUE,
                              !.pending = error]
    <3>1. u \in TryFrames /\ u.pending = error /\ t.finally \in Nat
      BY <2>4, <2>6, <2>9 DEF TryFrames, Finalizes
    <3> HIDE DEF u
    <3>2. Append(outer, u) \in Seq(TryFrames) /\ TriesTell(Append(outer, u), Depth)
      BY <2>7, <3>1
    <3> QED
      BY <1>4, <2>1, <2>9, <3>1, <3>2 DEF u
  <2> QED
    BY <1>11, <2>8, <2>9 DEF Handles, i, t, outer
<1>12. ASSUME UNCHANGED code, NEW m \in Nat, m <= Depth, frames' \in Seq(Activations),
              Len(frames') = m,
              \A i \in 1..m : frames'[i].fn = frames[i].fn /\ frames'[i].tries = frames[i].tries
       PROVE  /\ \A n \in 1..Depth' : TriesTell(frames[n].tries, n)'
              /\ \A e : Tells(e, m) => Tells(e, m)'
              /\ Depth' = m /\ Activations' = Activations /\ Errors' = Errors
  <2>1. Depth' = m /\ Activations' = Activations /\ Errors' = Errors
    BY <1>12 DEF Depth, Activations, TryFrames, Errors, Labels, Instructions, Fns
  <2> QED
    BY <1>0, <1>1, <1>12, <2>1, PrefixKeeps
<1>13. ASSUME Depth > 0, frames' = Front(frames), UNCHANGED code, NEW left \in Errors,
              Len(left.origin) = Depth - 1 + Len(left.trail),
              \A i \in 1..Depth - 1 : left.origin[i] = frames[i].fn,
              \A k \in 1..Len(left.trail) : left.trail[k] = left.origin[Len(left.origin) + 1 - k],
              error' = IF Depth = 1 THEN None ELSE left,
              outcome' = IF Depth = 1 THEN [how |-> "error", error |-> left] ELSE outcome
       PROVE  Kept
  <2>1. /\ frames' \in Seq(Activations) /\ Len(frames') = Depth - 1
        /\ \A i \in 1..Depth - 1 : frames'[i] = frames[i]
    <3>1. frames \in Seq(Activations) /\ Len(frames) = Depth /\ Depth \in Nat \ {0}
      BY <1>0, <1>1, <1>13 DEF TypeOK, Depth
    <3>2. frames' = SubSeq(frames, 1, Depth - 1)
      BY <1>13 DEF Front, Depth
    <3> QED
      BY <3>1, <3>2, SubSeqProperties
  <2>2. /\ \A n \in 1..Depth' : TriesTell(frames[n].tries, n)'
        /\ Depth' = Depth - 1 /\ Activations' = Activations /\ Errors' = Errors
    <3>1. Depth - 1 \in Nat /\ Depth - 1 <= Depth
      BY <1>1, <1>13
    <3> QED
      BY <1>12, <1>13, <2>1, <3>1
  <2>3. TypeOK'
    BY <1>0, <1>13, <2>1, <2>2 DEF TypeOK
  <2>4. error' # None => Tells(error, Depth)'
    BY <1>1, <1>13, <2>1, <2>2 DEF Tells
  <2>5. FramesTellCallChain'
    <3>1. CASE Depth = 1
      <4>1. left.trail = Reverse(left.origin)
        <5>1. Len(left.origin) = Len(left.trail)
          BY <1>13, <3>1 DEF Errors
        <5> QED
          BY <1>0, <1>13, <5>1, TrailOfRun
      <4> QED
        BY <1>13, <3>1, <4>1 DEF FramesTellCallChain
    <3>2. CASE Depth # 1
      BY <1>0, <1>13, <3>2 DEF FramesTellCallChain
    <3> QED
      BY <3>1, <3>2
  <2> QED
    BY <2>2, <2>3, <2>4, <2>5 DEF ErrorsTell, Kept
<1>14. ASSUME Leaves PROVE Kept
  <2> DEFINE left == [error EXCEPT !.kind = IF @ = "fault" THEN "throw" ELSE @,
                                   !.trail = Stamped(error, Current.fn)]
  <2>1. /\ Depth > 0 /\ error \in Errors /\ Tells(error, Depth) /\ Current.fn \in Fns
    BY <1>0, <1>2, <1>14 DEF Leaves, TypeOK, ErrorsTell, Activations
  <2>2. /\ left \in Errors /\ left.origin = error.origin
        /\ left.trail = Append(error.trail, Current.fn)
    <3>1. /\ error.kind \in Kinds /\ error.label \in Labels /\ error.trail \in Seq(Fns)
          /\ error.origin \in Seq(Fns)
      BY <2>1 DEF Errors
    <3>2. Stamped(error, Current.fn) = Append(error.trail, Current.fn)
      BY DEF Stamped
    <3>3. Append(error.trail, Current.fn) \in Seq(Fns)
      BY <2>1, <3>1
    <3>4. (IF error.kind = "fault" THEN "throw" ELSE error.kind) \in Kinds
      BY <3>1 DEF Kinds
    <3> QED
      BY <2>1, <3>2, <3>3, <3>4 DEF Errors
  <2> HIDE DEF left
  <2>3. /\ Len(left.trail) = Len(error.trail) + 1 /\ left.trail[Len(error.trail) + 1] = Current.fn
        /\ \A k \in 1..Len(error.trail) : left.trail[k] = error.trail[k]
    BY <2>1, <2>2, AppendProperties DEF Errors
  <2>4. Len(error.trail) \in Nat /\ Len(error.origin) = Depth + Len(error.trail)
    BY <2>1 DEF Tells, Errors
  <2>5. /\ Len(left.origin) = Depth - 1 + Len(left.trail)
        /\ \A i \in 1..Depth - 1 : left.origin[i] = frames[i].fn
    <3>1. Len(left.origin) = Depth - 1 + Len(left.trail)
      BY <1>1, <2>2, <2>3, <2>4
    <3>2. \A i \in 1..Depth : left.origin[i] = frames[i].fn
      BY <2>1, <2>2 DEF Tells
    <3> QED
      BY <1>1, <3>1, <3>2
  <2>6. ASSUME NEW k \in 1..Len(left.trail)
        PROVE  left.trail[k] = left.origin[Len(left.origin) + 1 - k]
    <3>1. CASE k = Len(error.trail) + 1
      <4>1. Len(left.origin) + 1 - k = Depth
        BY <1>1, <2>2, <2>4, <3>1
      <4> QED
        BY <1>1, <2>1, <2>2, <2>3, <3>1, <4>1 DEF Tells, Current
    <3>2. CASE k \in 1..Len(error.trail)
      BY <2>1, <2>2, <2>3, <3>2 DEF Tells
    <3> QED
      BY <2>3, <2>4, <2>6, <3>1, <3>2
  <2>7. /\ error' = IF Depth = 1 THEN None ELSE left
        /\ outcome' = IF Depth = 1 THEN [how |-> "error", error |-> left] ELSE outcome
        /\ frames' = Front(frames) /\ UNCHANGED code
    BY <1>14 DEF Leaves, left
  <2> QED
    BY <1>13, <2>1, <2>2, <2>5, <2>6, <2>7
<1>15. ASSUME Refuses PROVE Kept
  <2> DEFINE left == [kind |-> "fail", label |-> "refused", trail |-> <<>>, origin |-> Front(Chain)]
  <2>1. Depth > 0 /\ \A i \in 1..Depth : frames[i].fn \in Fns
    BY <1>1, <1>15 DEF Refuses, Activations
  <2>2. Chain \in Seq(Fns) /\ Len(Chain) = Depth
    BY <1>1, <2>1 DEF Chain
  <2>3. /\ Front(Chain) \in Seq(Fns) /\ Len(Front(Chain)) = Depth - 1
        /\ \A i \in 1..Depth - 1 : Front(Chain)[i] = frames[i].fn
    BY <1>1, <2>1, <2>2, SubSeqProperties DEF Front, Chain
  <2>4. /\ left \in Errors /\ Len(left.trail) = 0
        /\ Len(left.origin) = Depth - 1 + Len(left.trail)
        /\ \A i \in 1..Depth - 1 : left.origin[i] = frames[i].fn
    <3>1. left \in Errors
      BY <2>3 DEF Errors, Kinds, Labels
    <3> QED
      BY <1>1, <2>1, <2>3, <3>1
  <2> HIDE DEF left
  <2>5. /\ error' = IF Depth = 1 THEN None ELSE left
        /\ outcome' = IF Depth = 1 THEN [how |-> "error", error |-> left] ELSE outcome
        /\ frames' = Front(frames) /\ UNCHANGED code
    BY <1>15 DEF Refuses, left
  <2> QED
    <3>1. \A k \in 1..Len(left.trail) : left.trail[k] = left.origin[Len(left.origin) + 1 - k]
      BY <2>4
    <3> QED
      BY <1>13, <2>1, <2>4, <2>5, <3>1
<1>16. ASSUME Call PROVE Kept
  <2> DEFINE caller == [frames EXCEPT ![Depth].tail = (Inst.op = "tail_call")]
             callee == Activation(Inst.fn, FALSE)
  <2>1. /\ Depth > 0 /\ error = None /\ Inst.fn \in Fns /\ frames' = Append(caller, callee)
        /\ UNCHANGED <<code, error, outcome>>
    BY <1>0, <1>16, Verified DEF Call
  <2>2. callee \in Activations /\ callee.tries = <<>>
    BY <2>1 DEF Activation, Activations
  <2>3. /\ caller \in Seq(Activations) /\ Len(caller) = Depth
        /\ \A i \in 1..Depth : caller[i].fn = frames[i].fn /\ caller[i].tries = frames[i].tries
    <3>1. caller = [frames EXCEPT ![Depth] = [frames[Depth] EXCEPT !.tail = (Inst.op = "tail_call")]]
      OBVIOUS
    <3>2. [frames[Depth] EXCEPT !.tail = (Inst.op = "tail_call")] \in Activations
      <4>1. frames[Depth] \in Activations
        BY <1>1, <2>1
      <4> QED
        BY <4>1 DEF Activations
    <3> QED
      BY <1>0, <1>1, <2>1, <3>1, <3>2, ExceptSeq DEF TypeOK, Depth, Activations
  <2> HIDE DEF caller, callee
  <2>4. /\ frames' \in Seq(Activations) /\ Len(frames') = Depth + 1 /\ frames'[Depth + 1] = callee
        /\ \A i \in 1..Depth : frames'[i].fn = frames[i].fn /\ frames'[i].tries = frames[i].tries
    BY <1>1, <2>1, <2>2, <2>3, AppendProperties
  <2>5. \A n \in 1..Depth : TriesTell(frames[n].tries, n)'
    BY <1>0, <1>1, <2>1, <2>4, PrefixKeeps
  <2>6. frames'[Depth + 1].tries = <<>>
    BY <2>2, <2>4
  <2>7. Depth' = Depth + 1 /\ Activations' = Activations /\ Errors' = Errors
    BY <2>1, <2>4 DEF Depth, Activations, TryFrames, Errors, Labels, Instructions, Fns
  <2>8. TypeOK'
    BY <1>0, <2>1, <2>4, <2>7 DEF TypeOK
  <2>9. \A n \in 1..Depth + 1 : TriesTell(frames[n].tries, n)'
    <3>1. ASSUME NEW n \in 1..Depth + 1, n = Depth + 1 PROVE TriesTell(frames[n].tries, n)'
      BY <2>6, <3>1 DEF TriesTell
    <3> QED
      BY <1>1, <2>5, <3>1
  <2> QED
    BY <1>0, <2>1, <2>7, <2>8, <2>9 DEF ErrorsTell, FramesTellCallChain, Kept
<1>17. ASSUME Return PROVE Kept
  <2>1. Depth > 0 /\ error = None /\ UNCHANGED <<code, error>>
    BY <1>0, <1>17, Verified DEF Return
  <2>2. CASE Waiting = {}
    <3>1. frames' = <<>> /\ outcome' = [how |-> "value"] /\ Depth' = 0
      BY <1>17, <2>2 DEF Return, Depth
    <3>2. TypeOK'
      BY <1>0, <2>1, <3>1 DEF TypeOK
    <3>3. FramesTellCallChain'
      BY <3>1 DEF FramesTellCallChain
    <3> QED
      BY <2>1, <3>1, <3>2, <3>3 DEF ErrorsTell, Kept
  <2>3. CASE Waiting # {}
    <3> DEFINE m == Max(Waiting)
               rest == SubSeq(frames, 1, m)
    <3>1. m \in 1..Depth - 1
      <4>1. Depth - 1 \in Nat /\ Waiting \in SUBSET (1..Depth - 1)
        BY <1>1, <2>1 DEF Waiting
      <4> QED
        BY <2>3, <4>1, LastPosition
    <3>2. frames' = [rest EXCEPT ![m].pc = @ + 1] /\ outcome' = outcome
      BY <1>17, <2>3 DEF Return
    <3> HIDE DEF m
    <3>3. rest \in Seq(Activations) /\ Len(rest) = m /\ \A i \in 1..m : rest[i] = frames[i]
      BY <1>0, <1>1, <3>1, SubSeqProperties DEF TypeOK, Depth
    <3> HIDE DEF rest
    <3>4. /\ frames' \in Seq(Activations) /\ Len(frames') = m
          /\ \A i \in 1..m : frames'[i].fn = frames[i].fn /\ frames'[i].tries = frames[i].tries
      <4>1. frames' = [rest EXCEPT ![m] = [rest[m] EXCEPT !.pc = @ + 1]]
        BY <3>2
      <4>2. [rest[m] EXCEPT !.pc = @ + 1] \in Activations
        <5>1. rest[m] \in Activations
          BY <1>1, <3>1, <3>3
        <5> QED
          BY <5>1 DEF Activations
      <4> QED
        BY <1>1, <3>1, <3>3, <4>1, <4>2, ExceptSeq DEF Activations
    <3>5. /\ \A n \in 1..Depth' : TriesTell(frames[n].tries, n)'
          /\ Depth' = m /\ Activations' = Activations /\ Errors' = Errors
      BY <1>1, <1>12, <2>1, <3>1, <3>4
    <3>6. TypeOK'
      BY <1>0, <2>1, <3>4, <3>5 DEF TypeOK
    <3> QED
      BY <1>0, <2>1, <3>2, <3>5, <3>6 DEF ErrorsTell, FramesTellCallChain, Kept
  <2> QED
    BY <2>2, <2>3
<1>18. ASSUME UNCHANGED vars PROVE Kept
  <2>1. UNCHANGED <<code, frames, error, outcome>>
    BY <1>18 DEF vars
  <2> QED
    BY <1>0, <2>1 DEF TypeOK, ErrorsTell, FramesTellCallChain, Depth, TriesTell, Tells,
         Activations, TryFrames, Errors, Labels, Instructions, Fns, Kept
<1> QED
  BY <1>6, <1>7, <1>8, <1>9, <1>10, <1>11, <1>14, <1>15, <1>16, <1>17, <1>18 DEF Next, Kept, IInv

-----------------------------------------------------------------------------
(* The theorem                                                             *)

LEMMA InitInv == Init => IInv
<1> SUFFICES ASSUME Init PROVE IInv
  OBVIOUS
<1>1. 1 \in Fns /\ code \in Codes
  BY CodesAssumption DEF Init, Fns
<1>2. Activation(1, FALSE) \in Activations
  BY <1>1 DEF Activation, Activations
<1>3. TypeOK
  <2>1. frames = <<Activation(1, FALSE)>> /\ error = None
    BY DEF Init
  <2>2. \A a \in Activations : <<a>> \in Seq(Activations)
    OBVIOUS
  <2>3. <<Activation(1, FALSE)>> \in Seq(Activations)
    BY <1>2, <2>2
  <2>4. frames \in Seq(Activations)
    BY <2>1, <2>3
  <2> QED
    BY <1>1, <2>1, <2>4 DEF TypeOK
<1>4. error = None /\ \A n \in 1..Depth : DOMAIN frames[n].tries = {}
  BY DEF Init, Depth, Activation
<1>5. ErrorsTell
  BY <1>4 DEF ErrorsTell, TriesTell
<1>6. FramesTellCallChain
  BY DEF Init, Running, FramesTellCallChain
<1> QED
  BY <1>3, <1>5, <1>6 DEF IInv

\* For every module that VerifyModule accepts, with calls and tail calls as deep as they go
\* and try statements nested in any way: the error that Execute returns names the
\* activations that were open where it arose, each once and innermost first.
THEOREM ErrorTellsCallChain == Spec => []FramesTellCallChain
<1>1. Init => IInv
  BY InitInv
<1>2. IInv /\ [Next]_vars => IInv'
  BY NextInv
<1>3. IInv => FramesTellCallChain
  BY DEF IInv
<1> QED
  BY <1>1, <1>2, <1>3, PTL DEF Spec
=============================================================================
