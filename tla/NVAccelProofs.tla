--------------------------- MODULE NVAccelProofs ---------------------------
(***************************************************************************)
(* Proofs about NVAccel, for every set of raster operations, planemasks,   *)
(* patterns and colours and every bound on the methods outstanding.        *)
(*                                                                         *)
(* A drawing command executes long after it was written, with whatever     *)
(* state the methods before it leave in the engine.  The inductive         *)
(* invariant therefore says where the engine is heading: executing all     *)
(* that is outstanding takes it from hw, past drawing commands that each   *)
(* find what they want, to a state in which it has what the driver         *)
(* believes it has.  Writing methods extends that run at its end, the      *)
(* engine shortens it at its beginning.                                    *)
(***************************************************************************)
EXTENDS NVAccel, SequenceTheorems, TLAPS

Value == RopValue \cup Planemasks \cup Patterns \cup Colors
         \cup {Ones, "screen", "scratch", "depth15", "on", "off", 0, 1,
               DontCare, Unknown}

HwState == [Field -> Value]
Wanted == [Field \cup {"line"} -> Value]
Method == [method : {"set"}, field : Field, value : Value]
          \cup [method : {"draw"}, want : Wanted] \cup {Stall}

ApplyTo(c, h) == IF c.method = "set" THEN [h EXCEPT ![c.field] = c.value] ELSE h
Suits(want, h) == \A f \in Field : want[f] = DontCare \/ want[f] = h[f]

(* From h the methods ms take the engine to g, and all their drawing finds the
   state it wants. *)
IsRun(st, h, ms, g) ==
    /\ st[1] = h /\ st[Len(ms) + 1] = g
    /\ \A i \in 1..Len(ms) : /\ st[i + 1] = ApplyTo(ms[i], st[i])
                             /\ IsDraw(ms[i]) => Suits(ms[i].want, st[i])

Runs(h, ms, g) == \E st \in [1..(Len(ms) + 1) -> HwState] : IsRun(st, h, ms, g)

-----------------------------------------------------------------------------
(* Methods and sequences of them. *)
LEMMA MethodFacts ==
    /\ \A f \in Field, v \in Value : Set(f, v) \in Method /\ ~IsDraw(Set(f, v))
    /\ \A w \in Wanted : Draw(w) \in Method /\ IsDraw(Draw(w)) /\ Draw(w).want = w
    /\ Stall \in Method /\ ~IsDraw(Stall)
<1>1. \A f \in Field, v \in Value : Set(f, v) \in Method /\ ~IsDraw(Set(f, v))
  BY DEF Set, Method, IsDraw
<1>2. \A w \in Wanted : Draw(w) \in Method /\ IsDraw(Draw(w)) /\ Draw(w).want = w
  BY DEF Draw, Method, IsDraw
<1>3. Stall \in Method /\ ~IsDraw(Stall)
  BY DEF Stall, Method, IsDraw
<1> QED BY <1>1, <1>2, <1>3

(* A method that sets a field sets that field and no other.                *)
LEMMA ApplySet ==
    ASSUME NEW f \in Field, NEW v \in Value, NEW h \in HwState
    PROVE  /\ ApplyTo(Set(f, v), h) \in HwState
           /\ ApplyTo(Set(f, v), h)[f] = v
           /\ \A e \in Field \ {f} : ApplyTo(Set(f, v), h)[e] = h[e]
<1>1. ApplyTo(Set(f, v), h) = [h EXCEPT ![f] = v]
  BY DEF ApplyTo, Set
<1> QED BY <1>1 DEF HwState

(* The state of the engine keeps its type.                                 *)
LEMMA ApplyTyped ==
    ASSUME NEW c \in Method, NEW h \in HwState
    PROVE  ApplyTo(c, h) \in HwState
<1>1. CASE c.method = "set"
  <2>1. c.field \in Field /\ c.value \in Value
    BY <1>1 DEF Method, Stall
  <2> QED BY <1>1, <2>1 DEF ApplyTo, HwState
<1>2. CASE c.method # "set"
  BY <1>2 DEF ApplyTo
<1> QED BY <1>1, <1>2

(* The elements of a concatenation.                                        *)
LEMMA ConcatFacts ==
    ASSUME NEW s \in Seq(Method), NEW t \in Seq(Method)
    PROVE  /\ s \o t \in Seq(Method)
           /\ Len(s) \in Nat /\ Len(t) \in Nat
           /\ Len(s \o t) = Len(s) + Len(t)
           /\ \A i \in 1..Len(s) : (s \o t)[i] = s[i]
           /\ \A i \in 1..Len(t) : (s \o t)[Len(s) + i] = t[i]
           /\ \A i \in 1..Len(s \o t) :
                 i \in 1..Len(s) \/ \E j \in 1..Len(t) : i = Len(s) + j
<1>1. /\ s \o t \in Seq(Method) /\ Len(s) \in Nat /\ Len(t) \in Nat
      /\ Len(s \o t) = Len(s) + Len(t)
  OBVIOUS
<1>2. /\ \A i \in 1..Len(s) : (s \o t)[i] = s[i]
      /\ \A i \in 1..Len(t) : (s \o t)[Len(s) + i] = t[i]
  OBVIOUS
<1>3. ASSUME NEW i \in 1..Len(s \o t), i \notin 1..Len(s)
      PROVE  \E j \in 1..Len(t) : i = Len(s) + j
  <2>1. i - Len(s) \in 1..Len(t) /\ i = Len(s) + (i - Len(s))
    BY <1>1, <1>3
  <2> QED BY <2>1
<1> QED BY <1>1, <1>2, <1>3

(* Short sequences of methods, as concatenations of one method each.       *)
LEMMA Singles ==
    ASSUME NEW a \in Method, NEW b \in Method, NEW c \in Method, NEW d \in Method
    PROVE  /\ << >> \in Seq(Method) /\ Len(<< >>) = 0
           /\ <<a>> \in Seq(Method) /\ Len(<<a>>) = 1 /\ <<a>>[1] = a
           /\ <<a, b>> = <<a>> \o <<b>>
           /\ <<a, b, c>> = <<a, b>> \o <<c>>
           /\ <<a, b, c, d>> = <<a, b, c>> \o <<d>>
<1>1. /\ << >> \in Seq(Method) /\ Len(<< >>) = 0
      /\ <<a>> \in Seq(Method) /\ Len(<<a>>) = 1 /\ <<a>>[1] = a
  OBVIOUS
<1>2. <<a, b>> = <<a>> \o <<b>>
  <2>1. <<a>> \o <<b>> \in Seq(Method) /\ Len(<<a>> \o <<b>>) = 2
    OBVIOUS
  <2>2. (<<a>> \o <<b>>)[1] = a /\ (<<a>> \o <<b>>)[2] = b
    OBVIOUS
  <2>3. <<a, b>> \in Seq(Method) /\ Len(<<a, b>>) = 2
    OBVIOUS
  <2>4. <<a, b>>[1] = a /\ <<a, b>>[2] = b
    OBVIOUS
  <2>5. ASSUME NEW s \in Seq(Method), NEW t \in Seq(Method), Len(s) = 2, Len(t) = 2,
               s[1] = t[1], s[2] = t[2]
        PROVE  s = t
    <3>1. \A i \in 1..Len(s) : s[i] = t[i]
      BY <2>5
    <3> QED BY <2>5, <3>1, SeqEqual
  <2> QED BY <2>1, <2>2, <2>3, <2>4, <2>5
<1>3. <<a, b, c>> = <<a, b>> \o <<c>>
  OBVIOUS
<1>4. <<a, b, c, d>> = <<a, b, c>> \o <<d>>
  OBVIOUS
<1> QED BY <1>1, <1>2, <1>3, <1>4

(* Nothing to run leaves the engine as it is.                              *)
LEMMA RunsNone ==
    ASSUME NEW h \in HwState
    PROVE  Runs(h, << >>, h)
<1> DEFINE st == [i \in 1..1 |-> h]
<1>1. st \in [1..(Len(<< >>) + 1) -> HwState] /\ IsRun(st, h, << >>, h)
  BY DEF IsRun
<1> QED BY <1>1 DEF Runs

(* One method runs when, if it draws, the engine suits it.                 *)
LEMMA RunsOne ==
    ASSUME NEW h \in HwState, NEW c \in Method, IsDraw(c) => Suits(c.want, h)
    PROVE  Runs(h, <<c>>, ApplyTo(c, h))
<1> DEFINE st == [i \in 1..2 |-> IF i = 1 THEN h ELSE ApplyTo(c, h)]
<1>1. st \in [1..2 -> HwState]
  BY ApplyTyped
<1>2. st[1] = h /\ st[2] = ApplyTo(c, h)
  OBVIOUS
<1> HIDE DEF st
<1>3. IsRun(st, h, <<c>>, ApplyTo(c, h))
  BY <1>2 DEF IsRun
<1> QED BY <1>1, <1>3 DEF Runs

(* Runs compose. *)
LEMMA RunsConcat ==
    ASSUME NEW h \in HwState, NEW g \in HwState, NEW k \in HwState,
           NEW s \in Seq(Method), NEW t \in Seq(Method),
           Runs(h, s, g), Runs(g, t, k)
    PROVE  Runs(h, s \o t, k)
<1>1. PICK st1 \in [1..(Len(s) + 1) -> HwState] : IsRun(st1, h, s, g)
  BY DEF Runs
<1>2. PICK st2 \in [1..(Len(t) + 1) -> HwState] : IsRun(st2, g, t, k)
  BY DEF Runs
<1>3. /\ Len(s) \in Nat /\ Len(t) \in Nat /\ Len(s \o t) = Len(s) + Len(t)
      /\ \A i \in 1..Len(s) : (s \o t)[i] = s[i]
      /\ \A i \in 1..Len(t) : (s \o t)[Len(s) + i] = t[i]
      /\ \A i \in 1..Len(s \o t) :
            i \in 1..Len(s) \/ \E j \in 1..Len(t) : i = Len(s) + j
  BY ConcatFacts
<1> DEFINE st == [i \in 1..(Len(s) + Len(t) + 1) |->
                    IF i <= Len(s) THEN st1[i] ELSE st2[i - Len(s)]]
<1>4. /\ st \in [1..(Len(s) + Len(t) + 1) -> HwState]
      /\ \A i \in 1..Len(s) : st[i] = st1[i]
      /\ \A j \in 1..(Len(t) + 1) : st[Len(s) + j] = st2[j]
  BY <1>3
<1> HIDE DEF st
<1>5. \A i \in 1..(Len(s) + 1) : st[i] = st1[i]
  <2>1. st[Len(s) + 1] = st1[Len(s) + 1]
    BY <1>1, <1>2, <1>3, <1>4 DEF IsRun
  <2> QED BY <1>3, <1>4, <2>1
<1>6. ASSUME NEW i \in 1..Len(s \o t)
      PROVE  /\ st[i + 1] = ApplyTo((s \o t)[i], st[i])
             /\ IsDraw((s \o t)[i]) => Suits((s \o t)[i].want, st[i])
  <2>1. CASE i \in 1..Len(s)
    <3>1. st[i] = st1[i] /\ st[i + 1] = st1[i + 1] /\ (s \o t)[i] = s[i]
      BY <1>3, <1>5, <2>1
    <3> QED BY <1>1, <2>1, <3>1 DEF IsRun
  <2>2. ASSUME NEW j \in 1..Len(t), i = Len(s) + j
        PROVE  /\ st[i + 1] = ApplyTo((s \o t)[i], st[i])
               /\ IsDraw((s \o t)[i]) => Suits((s \o t)[i].want, st[i])
    <3>1. st[i] = st2[j] /\ st[i + 1] = st2[j + 1] /\ (s \o t)[i] = t[j]
      <4>1. i + 1 = Len(s) + (j + 1) /\ j + 1 \in 1..(Len(t) + 1) /\ j \in 1..(Len(t) + 1)
        BY <1>3, <2>2
      <4> QED BY <1>3, <1>4, <2>2, <4>1
    <3> QED BY <1>2, <3>1 DEF IsRun
  <2> QED BY <1>3, <2>1, <2>2
<1>7. st[1] = h
  <2>1. 1 \in 1..(Len(s) + 1)
    BY <1>3
  <2> QED BY <1>1, <1>5, <2>1 DEF IsRun
<1>8. st[Len(s \o t) + 1] = k
  <2>1. Len(s \o t) + 1 = Len(s) + (Len(t) + 1) /\ Len(t) + 1 \in 1..(Len(t) + 1)
    BY <1>3
  <2> QED BY <1>2, <1>4, <2>1 DEF IsRun
<1>9. IsRun(st, h, s \o t, k)
  BY <1>6, <1>7, <1>8 DEF IsRun
<1> QED BY <1>3, <1>4, <1>9 DEF Runs

(* The engine executes the first method of a run. *)
LEMMA RunsTail ==
    ASSUME NEW h \in HwState, NEW g \in HwState, NEW s \in Seq(Method),
           Len(s) > 0, Runs(h, s, g)
    PROVE  /\ Runs(ApplyTo(s[1], h), Tail(s), g)
           /\ IsDraw(s[1]) => Suits(s[1].want, h)
<1>1. PICK st \in [1..(Len(s) + 1) -> HwState] : IsRun(st, h, s, g)
  BY DEF Runs
<1>2. /\ Len(s) \in Nat /\ Tail(s) \in Seq(Method) /\ Len(Tail(s)) = Len(s) - 1
      /\ \A i \in 1..Len(Tail(s)) : Tail(s)[i] = s[i + 1]
  OBVIOUS
<1> DEFINE rest == [i \in 1..Len(s) |-> st[i + 1]]
<1>3. rest \in [1..(Len(Tail(s)) + 1) -> HwState]
  BY <1>2
<1>4. IsRun(rest, ApplyTo(s[1], h), Tail(s), g)
  <2>1. rest[1] = ApplyTo(s[1], h) /\ rest[Len(Tail(s)) + 1] = g
    BY <1>1, <1>2 DEF IsRun
  <2>2. ASSUME NEW i \in 1..Len(Tail(s))
        PROVE  /\ rest[i + 1] = ApplyTo(Tail(s)[i], rest[i])
               /\ IsDraw(Tail(s)[i]) => Suits(Tail(s)[i].want, rest[i])
    <3>1. /\ i + 1 \in 1..Len(s) /\ i \in 1..Len(s)
          /\ rest[i] = st[i + 1] /\ rest[i + 1] = st[(i + 1) + 1]
          /\ Tail(s)[i] = s[i + 1]
      BY <1>2
    <3> QED BY <1>1, <3>1 DEF IsRun
  <2> QED BY <2>1, <2>2 DEF IsRun
<1>5. IsDraw(s[1]) => Suits(s[1].want, h)
  BY <1>1, <1>2 DEF IsRun
<1> QED BY <1>3, <1>4, <1>5 DEF Runs

-----------------------------------------------------------------------------
(* The inductive invariant. *)

(* None of the methods after the first k draws. *)
Quiet(s, k) == \A i \in 1..Len(s) : i > k => ~IsDraw(s[i])

(* What drawing reads of the scratch buffer is the line given. *)
LinesFrom(s, line) ==
    \A i \in 1..Len(s) : IsDraw(s[i]) => s[i].want["line"] \in {DontCare, line}

ImageSteps == {"syncImage", "line", "stored", "syncNextLine"}
Redirected == pc \in {"line", "stored", "syncNextLine"}

(* What the driver believes of the engine's state. *)
Known(g) ==
    /\ g["rop"] = currentRop
    /\ g["format"] = "screen"
    /\ g["clip"] = "off"
    /\ g["surface"] = IF Redirected THEN "scratch" ELSE "screen"
    /\ op.kind # "none" => \A f \in {"rop", "pattern", "color"} :
                              op.want[f] = DontCare \/ op.want[f] = g[f]

EngineInv == vtSema => \E g \in HwState : Runs(hw, cmds, g) /\ Known(g)

TypeInv ==
    /\ TypeOK
    /\ cmds \in Seq(Method) /\ hw \in HwState
    /\ op.kind # "none" => /\ op.want \in Wanted
                           /\ op.want["surface"] = "screen"
                           /\ op.want["format"] = "screen"
                           /\ op.want["clip"] = DontCare
                           /\ op.want["line"] = DontCare

(* Where the driver may be with what. *)
PlaceInv ==
    /\ pc \in {"syncCpu", "syncImage", "syncNextLine", "syncSwitch", "syncLeave"} =>
           ~callback
    /\ pc \in ImageSteps => op.kind = "image"
    /\ pc = "expand" => op.kind = "expand"
    /\ pc \in {"syncSwitch", "syncLeave"} => op.kind = "none"
    /\ pc \in ImageSteps \cup {"expand"} => remaining > 0
    /\ op.kind \in {"copy", "fill", "line"} => callback
    /\ ~vtSema => /\ pc = "idle" /\ op.kind = "none" /\ ~callback
                  /\ kicked = 0 /\ NoDraws(cmds)

(* Where drawing may be outstanding. *)
DrawInv ==
    /\ pc # "expand" /\ ~callback => Quiet(cmds, kicked)
    /\ ~needSync /\ pc \notin ImageSteps \cup {"expand"} => NoDraws(cmds)
    /\ pc \in {"cpu", "line", "stored"} => NoDraws(cmds)
    /\ LinesFrom(cmds, scratch)

IInv == TypeInv /\ PlaceInv /\ DrawInv /\ EngineInv

-----------------------------------------------------------------------------
(* Drawing in sequences of methods. *)
LEMMA QuietUnpublished ==
    ASSUME NEW s \in Seq(Method), NEW k \in 0..Len(s)
    PROVE  NoDraws(SubSeq(s, k + 1, Len(s))) <=> Quiet(s, k)
<1> DEFINE u == SubSeq(s, k + 1, Len(s))
<1>1. Len(s) \in Nat /\ k \in Nat /\ k <= Len(s)
  OBVIOUS
<1>2. Len(u) = Len(s) - k
  <2>1. CASE k = Len(s)
    BY <1>1, <2>1, SubSeqProperties
  <2>2. CASE k < Len(s)
    BY <1>1, <2>2, SubSeqProperties
  <2> QED BY <1>1, <2>1, <2>2
<1>3. \A i \in 1..Len(u) : u[i] = s[k + i]
  <2>1. \A i \in (k + 1)..Len(s) : s[i] \in Method
    BY <1>1
  <2>2. \A i \in 1..(Len(s) - (k + 1) + 1) : u[i] = s[(k + 1) + i - 1]
    BY <1>1, <2>1, SubSeqProperties
  <2>3. TAKE i \in 1..Len(u)
  <2>4. i \in 1..(Len(s) - (k + 1) + 1) /\ (k + 1) + i - 1 = k + i
    BY <1>1, <1>2, <2>3
  <2> QED BY <2>2, <2>4
<1> HIDE DEF u
<1>4. ASSUME NoDraws(u) PROVE Quiet(s, k)
  <2> SUFFICES ASSUME NEW i \in 1..Len(s), i > k PROVE ~IsDraw(s[i])
    BY DEF Quiet
  <2>1. i - k \in 1..Len(u) /\ k + (i - k) = i
    BY <1>1, <1>2
  <2> QED BY <1>3, <1>4, <2>1 DEF NoDraws
<1>5. ASSUME Quiet(s, k) PROVE NoDraws(u)
  <2> SUFFICES ASSUME NEW i \in 1..Len(u) PROVE ~IsDraw(u[i])
    BY DEF NoDraws
  <2>1. k + i \in 1..Len(s) /\ k + i > k
    BY <1>1, <1>2
  <2> QED BY <1>3, <1>5, <2>1 DEF Quiet
<1> QED BY <1>4, <1>5 DEF u

(* No drawing at all, as no drawing beyond a position.                     *)
LEMMA QuietAll ==
    ASSUME NEW s \in Seq(Method)
    PROVE  /\ NoDraws(s) <=> Quiet(s, 0)
           /\ Quiet(s, Len(s))
           /\ \A k \in Nat : NoDraws(s) => Quiet(s, k)
BY DEF NoDraws, Quiet

(* Appending what does not draw adds no drawing beyond a position.         *)
LEMMA QuietConcat ==
    ASSUME NEW s \in Seq(Method), NEW t \in Seq(Method), NEW k \in 0..Len(s),
           Quiet(s, k), NoDraws(t)
    PROVE  Quiet(s \o t, k)
<1> SUFFICES ASSUME NEW i \in 1..Len(s \o t), i > k PROVE ~IsDraw((s \o t)[i])
  BY DEF Quiet
<1>1. CASE i \in 1..Len(s)
  BY <1>1, ConcatFacts DEF Quiet
<1>2. ASSUME NEW j \in 1..Len(t), i = Len(s) + j PROVE ~IsDraw((s \o t)[i])
  BY <1>2, ConcatFacts DEF NoDraws
<1> QED BY <1>1, <1>2, ConcatFacts

(* What does not draw, appended to what does not draw, does not draw.      *)
LEMMA NoDrawsConcat ==
    ASSUME NEW s \in Seq(Method), NEW t \in Seq(Method), NoDraws(s), NoDraws(t)
    PROVE  NoDraws(s \o t)
<1>1. 0 \in 0..Len(s)
  BY ConcatFacts
<1> QED BY <1>1, QuietAll, QuietConcat, ConcatFacts

(* The position moves with the queue when its head is executed.            *)
LEMMA QuietTail ==
    ASSUME NEW s \in Seq(Method), NEW k \in 1..Len(s)
    PROVE  /\ Quiet(s, k) => Quiet(Tail(s), k - 1)
           /\ NoDraws(s) => NoDraws(Tail(s))
<1>1. /\ Len(s) \in Nat /\ Len(s) > 0
      /\ Tail(s) \in Seq(Method) /\ Len(Tail(s)) = Len(s) - 1
      /\ \A i \in 1..Len(Tail(s)) : i + 1 \in 1..Len(s) /\ Tail(s)[i] = s[i + 1]
  OBVIOUS
<1> QED BY <1>1 DEF Quiet, NoDraws

(* Sequences that read the scratch line for one line only, concatenated.   *)
LEMMA LinesConcat ==
    ASSUME NEW s \in Seq(Method), NEW t \in Seq(Method), NEW line,
           LinesFrom(s, line), LinesFrom(t, line)
    PROVE  LinesFrom(s \o t, line)
<1> SUFFICES ASSUME NEW i \in 1..Len(s \o t), IsDraw((s \o t)[i])
             PROVE  (s \o t)[i].want["line"] \in {DontCare, line}
  BY DEF LinesFrom
<1>1. CASE i \in 1..Len(s)
  BY <1>1, ConcatFacts DEF LinesFrom
<1>2. ASSUME NEW j \in 1..Len(t), i = Len(s) + j
      PROVE  (s \o t)[i].want["line"] \in {DontCare, line}
  BY <1>2, ConcatFacts DEF LinesFrom
<1> QED BY <1>1, <1>2, ConcatFacts

(* What does not draw does not read the scratch line.                      *)
LEMMA NoDrawsLines ==
    ASSUME NEW s, NEW line, NoDraws(s)
    PROVE  LinesFrom(s, line)
BY DEF NoDraws, LinesFrom

-----------------------------------------------------------------------------
(* One more method that sets a field, or draws. *)
LEMMA SetLast ==
    ASSUME NEW h \in HwState, NEW g \in HwState, NEW ms \in Seq(Method),
           Runs(h, ms, g), NEW f \in Field, NEW v \in Value
    PROVE  /\ ms \o <<Set(f, v)>> \in Seq(Method)
           /\ NoDraws(ms) => NoDraws(ms \o <<Set(f, v)>>)
           /\ \E k \in HwState : /\ Runs(h, ms \o <<Set(f, v)>>, k)
                                 /\ k[f] = v
                                 /\ \A e \in Field \ {f} : k[e] = g[e]
<1> DEFINE k == ApplyTo(Set(f, v), g)
<1>1. Set(f, v) \in Method /\ ~IsDraw(Set(f, v))
  BY MethodFacts
<1>2. <<Set(f, v)>> \in Seq(Method) /\ NoDraws(<<Set(f, v)>>)
  BY <1>1, Singles DEF NoDraws
<1>3. k \in HwState /\ k[f] = v /\ \A e \in Field \ {f} : k[e] = g[e]
  BY ApplySet
<1>4. Runs(g, <<Set(f, v)>>, k)
  BY <1>1, RunsOne
<1> HIDE DEF k
<1> QED BY <1>2, <1>3, <1>4, RunsConcat, NoDrawsConcat, ConcatFacts

(* A drawing method may be appended when the engine will suit it by then.  *)
LEMMA DrawLast ==
    ASSUME NEW h \in HwState, NEW g \in HwState, NEW ms \in Seq(Method),
           Runs(h, ms, g), NEW w \in Wanted, Suits(w, g)
    PROVE  /\ ms \o <<Draw(w)>> \in Seq(Method)
           /\ Runs(h, ms \o <<Draw(w)>>, g)
<1>1. Draw(w) \in Method /\ Draw(w).want = w
  BY MethodFacts
<1>2. <<Draw(w)>> \in Seq(Method)
  BY <1>1, Singles
<1>3. ApplyTo(Draw(w), g) = g
  BY DEF ApplyTo, Draw
<1>4. Runs(g, <<Draw(w)>>, g)
  BY <1>1, <1>3, RunsOne
<1> QED BY <1>2, <1>4, RunsConcat, ConcatFacts

(* NVSetRopSolid leaves the engine with the raster operation asked for, as long
   as it was on its way to the one in currentRop. *)
LEMMA RopSolidRun ==
    ASSUME NEW r \in Rops, NEW planemask \in Planemasks \cup {Ones},
           NEW g \in HwState, g["rop"] = currentRop, currentRop \in RopValue
    PROVE  /\ RopSolidMethods(r, planemask) \in Seq(Method)
           /\ NoDraws(RopSolidMethods(r, planemask))
           /\ \E k \in HwState :
                 /\ Runs(g, RopSolidMethods(r, planemask), k)
                 /\ k["rop"] = RopSolid(r, planemask)
                 /\ planemask # Ones => k["pattern"] = planemask
                 /\ \A f \in {"color", "surface", "format", "clip"} : k[f] = g[f]
<1> DEFINE ms == RopSolidMethods(r, planemask)
           rop == RopSolid(r, planemask)
           none == << >>
<1>1. /\ "rop" \in Field /\ "pattern" \in Field
      /\ {"color", "surface", "format", "clip"} \subseteq Field \ {"rop", "pattern"}
  BY DEF Field
<1>2. rop \in Value /\ Ones \in Value /\ planemask \in Value
  BY DEF RopSolid, Rop, RopValue, Value
<1>3. none \in Seq(Method) /\ NoDraws(none) /\ Runs(g, none, g)
  BY Singles, RunsNone DEF NoDraws
<1>4. \A m \in Method : none \o <<m>> = <<m>> /\ <<m>> \o none = <<m>>
  BY Singles, ConcatEmptySeq
<1>5. Set("pattern", planemask) \in Method /\ Set("pattern", Ones) \in Method
      /\ Set("rop", rop) \in Method
  BY <1>1, <1>2, MethodFacts
<1> HIDE DEF ms, rop, none
<1>6. CASE planemask # Ones /\ currentRop # rop
  <2>1. ms = (none \o <<Set("pattern", planemask)>>) \o <<Set("rop", rop)>>
    BY <1>4, <1>5, <1>6 DEF ms, rop, none, RopSolidMethods, RopSolid
  <2>2. PICK a \in HwState :
           /\ Runs(g, none \o <<Set("pattern", planemask)>>, a)
           /\ a["pattern"] = planemask
           /\ \A e \in Field \ {"pattern"} : a[e] = g[e]
    BY <1>1, <1>2, <1>3, SetLast
  <2>3. /\ none \o <<Set("pattern", planemask)>> \in Seq(Method)
        /\ NoDraws(none \o <<Set("pattern", planemask)>>)
    BY <1>1, <1>2, <1>3, SetLast
  <2> DEFINE first == none \o <<Set("pattern", planemask)>>
  <2> HIDE DEF first
  <2>4. PICK k \in HwState : /\ Runs(g, ms, k) /\ k["rop"] = rop
                             /\ \A e \in Field \ {"rop"} : k[e] = a[e]
    <3>1. first \in Seq(Method) /\ Runs(g, first, a) /\ ms = first \o <<Set("rop", rop)>>
      BY <2>1, <2>2, <2>3 DEF first
    <3> QED BY <1>1, <1>2, <3>1, SetLast
  <2>5. ms \in Seq(Method) /\ NoDraws(ms)
    BY <1>1, <1>2, <2>1, <2>2, <2>3, SetLast
  <2>6. /\ k["pattern"] = planemask
        /\ \A f \in {"color", "surface", "format", "clip"} : k[f] = g[f]
    BY <1>1, <2>2, <2>4
  <2> QED BY <2>4, <2>5, <2>6 DEF ms, rop
<1>7. CASE planemask # Ones /\ currentRop = rop
  <2>1. ms = none \o <<Set("pattern", planemask)>>
    BY <1>4, <1>5, <1>7 DEF ms, rop, none, RopSolidMethods, RopSolid
  <2>2. PICK k \in HwState :
           /\ Runs(g, ms, k)
           /\ k["pattern"] = planemask
           /\ \A e \in Field \ {"pattern"} : k[e] = g[e]
    BY <1>1, <1>2, <1>3, <2>1, SetLast
  <2>3. ms \in Seq(Method) /\ NoDraws(ms)
    BY <1>1, <1>2, <1>3, <2>1, SetLast
  <2>4. /\ k["rop"] = rop
        /\ \A f \in {"color", "surface", "format", "clip"} : k[f] = g[f]
    BY <1>1, <1>7, <2>2
  <2> QED BY <2>2, <2>3, <2>4 DEF ms, rop
<1>8. CASE planemask = Ones /\ currentRop # rop
  <2>1. \/ ms = (none \o <<Set("pattern", Ones)>>) \o <<Set("rop", rop)>>
        \/ ms = none \o <<Set("rop", rop)>>
    BY <1>4, <1>5, <1>8 DEF ms, rop, none, RopSolidMethods, RopSolid
  <2>2. PICK a \in HwState :
           /\ Runs(g, none \o <<Set("pattern", Ones)>>, a)
           /\ \A e \in Field \ {"pattern"} : a[e] = g[e]
    BY <1>1, <1>2, <1>3, SetLast
  <2>3. /\ none \o <<Set("pattern", Ones)>> \in Seq(Method)
        /\ NoDraws(none \o <<Set("pattern", Ones)>>)
    BY <1>1, <1>2, <1>3, SetLast
  <2>4. \E b \in HwState, s \in Seq(Method) :
           /\ NoDraws(s) /\ Runs(g, s, b) /\ ms = s \o <<Set("rop", rop)>>
           /\ \A e \in Field \ {"pattern"} : b[e] = g[e]
    <3>1. CASE ms = (none \o <<Set("pattern", Ones)>>) \o <<Set("rop", rop)>>
      BY <2>2, <2>3, <3>1
    <3>2. CASE ms = none \o <<Set("rop", rop)>>
      BY <1>3, <3>2
    <3> QED BY <2>1, <3>1, <3>2
  <2>5. PICK b \in HwState, s \in Seq(Method) :
           /\ NoDraws(s) /\ Runs(g, s, b) /\ ms = s \o <<Set("rop", rop)>>
           /\ \A e \in Field \ {"pattern"} : b[e] = g[e]
    BY <2>4
  <2>6. PICK k \in HwState : /\ Runs(g, ms, k) /\ k["rop"] = rop
                             /\ \A e \in Field \ {"rop"} : k[e] = b[e]
    BY <1>1, <1>2, <2>5, SetLast
  <2>7. ms \in Seq(Method) /\ NoDraws(ms)
    BY <1>1, <1>2, <2>5, SetLast
  <2>8. \A f \in {"color", "surface", "format", "clip"} : k[f] = g[f]
    BY <1>1, <2>5, <2>6
  <2> QED BY <1>8, <2>6, <2>7, <2>8 DEF ms, rop
<1>9. CASE planemask = Ones /\ currentRop = rop
  <2>1. ms = none
    BY <1>9 DEF ms, rop, none, RopSolidMethods, RopSolid
  <2> QED BY <1>3, <1>9, <2>1 DEF ms, rop
<1> QED BY <1>6, <1>7, <1>8, <1>9 DEF ms, rop

-----------------------------------------------------------------------------
(* NVResetGraphics takes a reset engine to the state everybody relies on. *)
LEMMA ResetRun ==
    /\ ResetMethods \in Seq(Method) /\ Len(ResetMethods) = 4 /\ NoDraws(ResetMethods)
    /\ UnknownHw \in HwState
    /\ \E g \in HwState : /\ Runs(UnknownHw, ResetMethods, g)
                          /\ g["rop"] = Rop("solid", GXcopy)
                          /\ g["format"] = "screen" /\ g["surface"] = "screen"
                          /\ g["clip"] = "off"
<1> DEFINE a == Set("format", "screen")
           b == Set("surface", "screen")
           c == Set("pattern", Ones)
           d == Set("rop", Rop("solid", GXcopy))
<1>1. /\ {"rop", "pattern", "surface", "format", "clip"} \subseteq Field
      /\ {"screen", Ones, Rop("solid", GXcopy)} \subseteq Value
  BY AccelAssumption DEF Field, Value, RopValue, Rop
<1>2. a \in Method /\ b \in Method /\ c \in Method /\ d \in Method
  BY <1>1, MethodFacts
<1>3. UnknownHw \in HwState /\ UnknownHw["clip"] = "off"
  <2>1. "off" \in Value /\ Unknown \in Value
    BY DEF Value
  <2>2. DOMAIN UnknownHw = Field
    BY DEF UnknownHw, Field
  <2>3. \A f \in Field : UnknownHw[f] \in Value
    BY <2>1 DEF UnknownHw, Field
  <2>4. UnknownHw = [f \in Field |-> UnknownHw[f]]
    BY DEF UnknownHw, Field
  <2> QED BY <2>2, <2>3, <2>4 DEF HwState, UnknownHw
<1>4. ResetMethods = <<a, b, c, d>>
  BY DEF ResetMethods
<1>5. Len(ResetMethods) = 4
  BY <1>4
<1> DEFINE none == << >>
<1>6. ResetMethods = (((none \o <<a>>) \o <<b>>) \o <<c>>) \o <<d>>
  <2>1. none \o <<a>> = <<a>>
    BY <1>2, Singles, ConcatEmptySeq
  <2> HIDE DEF a, b, c, d, none
  <2>2. ResetMethods = <<a, b, c>> \o <<d>>
    BY <1>2, <1>4, Singles, SMTT(30)
  <2>3. <<a, b, c>> = <<a, b>> \o <<c>>
    BY <1>2, Singles, SMTT(30)
  <2>4. <<a, b>> = <<a>> \o <<b>>
    BY <1>2, Singles
  <2> QED BY <2>1, <2>2, <2>3, <2>4
<1>7. none \in Seq(Method) /\ NoDraws(none) /\ Runs(UnknownHw, none, UnknownHw)
  BY <1>3, Singles, RunsNone DEF NoDraws
<1> HIDE DEF none
<1>8. PICK ga \in HwState :
         /\ none \o <<a>> \in Seq(Method) /\ NoDraws(none \o <<a>>)
         /\ Runs(UnknownHw, none \o <<a>>, ga)
         /\ ga["format"] = "screen" /\ ga["clip"] = "off"
  <2>1. "clip" \in Field \ {"format"}
    BY <1>1
  <2> QED BY <1>1, <1>3, <1>7, <2>1, SetLast
<1> DEFINE sa == none \o <<a>>
<1> HIDE DEF sa
<1>9. PICK gb \in HwState :
         /\ sa \o <<b>> \in Seq(Method) /\ NoDraws(sa \o <<b>>)
         /\ Runs(UnknownHw, sa \o <<b>>, gb)
         /\ gb["surface"] = "screen" /\ gb["format"] = "screen" /\ gb["clip"] = "off"
  <2>1. {"clip", "format"} \subseteq Field \ {"surface"}
    BY <1>1
  <2>2. sa \in Seq(Method) /\ NoDraws(sa) /\ Runs(UnknownHw, sa, ga)
    BY <1>8 DEF sa
  <2> QED BY <1>1, <1>3, <1>8, <2>1, <2>2, SetLast, SMTT(30)
<1> DEFINE sb == sa \o <<b>>
<1> HIDE DEF sb
<1>10. PICK gc \in HwState :
         /\ sb \o <<c>> \in Seq(Method) /\ NoDraws(sb \o <<c>>)
         /\ Runs(UnknownHw, sb \o <<c>>, gc)
         /\ gc["surface"] = "screen" /\ gc["format"] = "screen" /\ gc["clip"] = "off"
  <2>1. {"clip", "format", "surface"} \subseteq Field \ {"pattern"}
    BY <1>1
  <2>2. sb \in Seq(Method) /\ NoDraws(sb) /\ Runs(UnknownHw, sb, gb)
    BY <1>9 DEF sb
  <2> QED BY <1>1, <1>3, <1>9, <2>1, <2>2, SetLast, SMTT(30)
<1> DEFINE sc == sb \o <<c>>
<1> HIDE DEF sc
<1>11. PICK gd \in HwState :
         /\ sc \o <<d>> \in Seq(Method) /\ NoDraws(sc \o <<d>>)
         /\ Runs(UnknownHw, sc \o <<d>>, gd)
         /\ gd["rop"] = Rop("solid", GXcopy)
         /\ gd["surface"] = "screen" /\ gd["format"] = "screen" /\ gd["clip"] = "off"
  <2>1. {"clip", "format", "surface"} \subseteq Field \ {"rop"}
    BY <1>1
  <2>2. sc \in Seq(Method) /\ NoDraws(sc) /\ Runs(UnknownHw, sc, gc)
    BY <1>10 DEF sc
  <2> QED BY <1>1, <1>3, <1>10, <2>1, <2>2, SetLast
<1>12. ResetMethods = sc \o <<d>>
  BY <1>6 DEF sa, sb, sc
<1> QED BY <1>3, <1>5, <1>11, <1>12

(* The initial states satisfy the invariant.                               *)
LEMMA InitIInv == Init => IInv
<1> SUFFICES ASSUME Init PROVE IInv
  OBVIOUS
<1>1. /\ cmds \in Seq(Method) /\ Len(cmds) = 4 /\ kicked = 4 /\ NoDraws(cmds)
      /\ hw \in HwState
      /\ vtSema = TRUE /\ callback = FALSE /\ needSync = FALSE
      /\ pc = "idle" /\ op.kind = "none"
      /\ scratch = 0 /\ remaining = 0
      /\ currentRop \in RopValue
  BY ResetRun, AccelAssumption DEF Init, NoOp, Rop, RopValue
<1>2. TypeInv
  <2>1. DOMAIN hw = Field
    BY <1>1 DEF HwState
  <2>2. 4 <= MaxCmds /\ 0 \in 0..MaxLines
    BY AccelAssumption
  <2>3. kicked \in 0..Len(cmds) /\ Len(cmds) <= MaxCmds
    BY <1>1, <2>2
  <2>4. TypeOK
    <3>1. scratch \in 0..1 /\ remaining \in 0..MaxLines
      BY <1>1, <2>2
    <3>2. callback \in BOOLEAN /\ needSync \in BOOLEAN /\ vtSema \in BOOLEAN
      BY <1>1
    <3> QED BY <1>1, <2>1, <2>3, <3>1, <3>2 DEF TypeOK
  <2> QED BY <1>1, <2>4 DEF TypeInv
<1>3. PlaceInv
  BY <1>1 DEF PlaceInv, ImageSteps
<1>4. DrawInv
  BY <1>1, QuietAll, NoDrawsLines DEF DrawInv
<1>5. EngineInv
  BY <1>1, ResetRun DEF Init, EngineInv, Known, Redirected
<1> QED BY <1>2, <1>3, <1>4, <1>5 DEF IInv

-----------------------------------------------------------------------------
(* What writing methods does to everything but the driver's variables. *)
LEMMA Written ==
    ASSUME IInv, NEW ms \in Seq(Method), Emit(ms) \/ EmitAndKick(ms)
    PROVE  /\ vtSema
           /\ cmds' \in Seq(Method) /\ Len(cmds') <= MaxCmds
           /\ kicked' \in 0..Len(cmds') /\ hw' = hw
           /\ cmds' = cmds \o ms
           /\ NoDraws(ms) /\ Quiet(cmds, kicked) => Quiet(cmds', kicked')
           /\ NoDraws(ms) /\ NoDraws(cmds) => NoDraws(cmds')
           /\ EmitAndKick(ms) => Quiet(cmds', kicked')
           /\ LinesFrom(ms, scratch) => LinesFrom(cmds', scratch)
           /\ \A g, k \in HwState : Runs(hw, cmds, g) /\ Runs(g, ms, k) =>
                                       Runs(hw', cmds', k)
<1>1. /\ vtSema /\ hw' = hw /\ cmds' = cmds \o ms
      /\ Len(cmds) + Len(ms) <= MaxCmds
      /\ kicked' = kicked \/ kicked' = Len(cmds')
      /\ EmitAndKick(ms) => kicked' = Len(cmds')
  BY DEF Emit, EmitAndKick
<1>2. /\ cmds \in Seq(Method) /\ kicked \in 0..Len(cmds) /\ hw \in HwState
      /\ LinesFrom(cmds, scratch)
  BY DEF IInv, TypeInv, TypeOK, DrawInv
<1>3. /\ cmds' \in Seq(Method) /\ Len(cmds') = Len(cmds) + Len(ms)
      /\ Len(cmds) \in Nat /\ Len(ms) \in Nat
  BY <1>1, <1>2, ConcatFacts
<1>4. kicked' \in 0..Len(cmds')
  BY <1>1, <1>2, <1>3
<1>5. Quiet(cmds', Len(cmds'))
  BY <1>3, QuietAll
<1>6. NoDraws(ms) /\ Quiet(cmds, kicked) => Quiet(cmds', kicked')
  BY <1>1, <1>2, <1>5, QuietConcat
<1>7. NoDraws(ms) /\ NoDraws(cmds) => NoDraws(cmds')
  BY <1>1, <1>2, NoDrawsConcat
<1>8. LinesFrom(ms, scratch) => LinesFrom(cmds', scratch)
  BY <1>1, <1>2, LinesConcat
<1>9. \A g, k \in HwState : Runs(hw, cmds, g) /\ Runs(g, ms, k) => Runs(hw', cmds', k)
  BY <1>1, <1>2, RunsConcat
<1> QED BY <1>1, <1>3, <1>4, <1>5, <1>6, <1>7, <1>8, <1>9

(* Nothing that was written goes away. *)
Grows == \E ms \in Seq(Method) : cmds' = cmds \o ms

(* Writing methods, kicked or not, only appends to the queue.              *)
LEMMA GrowsByWriting ==
    ASSUME NEW ms \in Seq(Method), Emit(ms) \/ EmitAndKick(ms)
    PROVE  Grows
BY DEF Grows, Emit, EmitAndKick

-----------------------------------------------------------------------------
(* Setup entry points. *)
LEMMA WantFacts ==
    ASSUME NEW rop \in Value, NEW pattern \in Value, NEW color \in Value
    PROVE  LET w == Want(rop, pattern, color)
           IN  /\ w \in Wanted
               /\ w["rop"] = rop /\ w["pattern"] = pattern /\ w["color"] = color
               /\ w["surface"] = "screen" /\ w["format"] = "screen"
               /\ w["clip"] = DontCare /\ w["line"] = DontCare
<1> DEFINE w == Want(rop, pattern, color)
<1>1. /\ w["rop"] = rop /\ w["pattern"] = pattern /\ w["color"] = color
      /\ w["surface"] = "screen" /\ w["format"] = "screen"
      /\ w["clip"] = DontCare /\ w["line"] = DontCare
      /\ DOMAIN w = Field \cup {"line"}
      /\ w = [f \in DOMAIN w |-> w[f]]
  BY DEF Want, Field
<1>2. {"screen", DontCare} \subseteq Value
  BY DEF Value
<1>3. \A f \in Field \cup {"line"} : w[f] \in Value
  BY <1>1, <1>2 DEF Field
<1> HIDE DEF w
<1>4. w \in Wanted
  BY <1>1, <1>3 DEF Wanted
<1> QED BY <1>1, <1>4 DEF w

(* An entry point that only prepares: the methods it writes take the engine
   where op says. *)
LEMMA SetupStep ==
    ASSUME IInv, Idle, NEW ms \in Seq(Method), Emit(ms), NoDraws(ms),
           NEW g \in HwState, NEW k \in HwState,
           Runs(hw, cmds, g), Known(g), Runs(g, ms, k),
           currentRop' \in RopValue, k["rop"] = currentRop',
           \A f \in {"surface", "format", "clip"} : k[f] = g[f],
           op'.kind \in {"copy", "fill", "line", "expand", "image"},
           op'.kind \in {"copy", "fill", "line"} => callback',
           callback' \in {callback, TRUE},
           op'.want \in Wanted,
           op'.want["surface"] = "screen" /\ op'.want["format"] = "screen",
           op'.want["clip"] = DontCare /\ op'.want["line"] = DontCare,
           \A f \in {"rop", "pattern", "color"} :
              op'.want[f] = DontCare \/ op'.want[f] = k[f],
           UNCHANGED <<scratch, needSync, vtSema, remaining, pc>>
    PROVE  IInv' /\ Grows
<1>1. /\ vtSema /\ vtSema' /\ pc = "idle" /\ pc' = "idle"
      /\ needSync' = needSync /\ scratch' = scratch /\ remaining' = remaining
  BY DEF Idle
<1>2. /\ cmds' \in Seq(Method) /\ Len(cmds') <= MaxCmds
      /\ kicked' \in 0..Len(cmds') /\ hw' = hw
      /\ Quiet(cmds, kicked) => Quiet(cmds', kicked')
      /\ NoDraws(cmds) => NoDraws(cmds')
      /\ LinesFrom(cmds', scratch)
      /\ Runs(hw', cmds', k)
  BY Written, NoDrawsLines
<1>3. TypeInv'
  <2>1. callback' \in BOOLEAN /\ hw' \in HwState /\ DOMAIN hw' = Field
    BY <1>2 DEF IInv, TypeInv, TypeOK
  <2>2. TypeOK'
    BY <1>2, <2>1 DEF IInv, TypeInv, TypeOK
  <2> QED BY <1>2, <2>1, <2>2 DEF TypeInv
<1>4. PlaceInv'
  BY <1>1 DEF PlaceInv, ImageSteps
<1>5. DrawInv'
  <2>1. ~callback' => ~callback
    OBVIOUS
  <2>2. ~callback => Quiet(cmds, kicked)
    BY <1>1 DEF IInv, DrawInv
  <2>3. ~needSync => NoDraws(cmds)
    BY <1>1 DEF IInv, DrawInv, ImageSteps
  <2>4. LinesFrom(cmds, scratch)'
    BY <1>1, <1>2
  <2> QED BY <1>1, <1>2, <2>1, <2>2, <2>3, <2>4 DEF DrawInv
<1>6. Known(g) => k["format"] = "screen" /\ k["surface"] = "screen" /\ k["clip"] = "off"
  BY <1>1 DEF Known, Redirected
<1>7. EngineInv'
  BY <1>1, <1>2, <1>6 DEF EngineInv, Known, Redirected
<1> QED BY <1>3, <1>4, <1>5, <1>7, GrowsByWriting DEF IInv

(* Setups with a solid pattern.                                            *)
LEMMA SetupSolidStep ==
    ASSUME IInv, NEW r \in Rops, NEW planemask \in Planemasks \cup {Ones},
           NEW kind \in {"copy", "fill", "line", "expand", "image"},
           NEW color, NEW more,
           \/ more = << >> /\ color = DontCare
           \/ color \in Colors /\ more = <<Set("color", color)>>,
           SetupSolid(kind, r, planemask, color, more),
           kind \in {"copy", "fill", "line"} => callback',
           callback' \in {callback, TRUE}
    PROVE  IInv' /\ Grows
<1> DEFINE rs == RopSolidMethods(r, planemask)
           ms == rs \o more
           want == WantSolid(r, planemask, color)
<1>1. /\ Idle /\ Emit(ms)
      /\ currentRop' = RopSolid(r, planemask)
      /\ op'.kind = kind /\ op'.want = want
      /\ UNCHANGED <<scratch, needSync, vtSema, remaining, pc>>
  BY DEF SetupSolid
<1>2. PICK g \in HwState : Runs(hw, cmds, g) /\ Known(g)
  BY <1>1 DEF IInv, EngineInv, Idle
<1>3. /\ rs \in Seq(Method) /\ NoDraws(rs)
      /\ \E a \in HwState : /\ Runs(g, rs, a)
                            /\ a["rop"] = RopSolid(r, planemask)
                            /\ planemask # Ones => a["pattern"] = planemask
                            /\ \A f \in {"color", "surface", "format", "clip"} : a[f] = g[f]
  <2>1. g["rop"] = currentRop /\ currentRop \in RopValue
    BY <1>2 DEF Known, IInv, TypeInv, TypeOK
  <2> QED BY <2>1, RopSolidRun
<1>4. PICK a \in HwState :
         /\ Runs(g, rs, a)
         /\ a["rop"] = RopSolid(r, planemask)
         /\ planemask # Ones => a["pattern"] = planemask
         /\ \A f \in {"color", "surface", "format", "clip"} : a[f] = g[f]
  BY <1>3
<1>5. RopSolid(r, planemask) \in RopValue
  BY DEF RopSolid, Rop, RopValue
<1>6. /\ want \in Wanted
      /\ want["rop"] = RopSolid(r, planemask)
      /\ want["pattern"] = (IF planemask # Ones THEN planemask ELSE DontCare)
      /\ want["color"] = color
      /\ want["surface"] = "screen" /\ want["format"] = "screen"
      /\ want["clip"] = DontCare /\ want["line"] = DontCare
  <2>1. /\ RopSolid(r, planemask) \in Value /\ color \in Value
        /\ (IF planemask # Ones THEN planemask ELSE DontCare) \in Value
    BY <1>5 DEF Value
  <2> QED BY <2>1, WantFacts DEF WantSolid
<1> HIDE DEF rs, want
<1>7. /\ ms \in Seq(Method) /\ NoDraws(ms)
      /\ \E k \in HwState : /\ Runs(g, ms, k)
                            /\ color # DontCare => k["color"] = color
                            /\ \A f \in Field \ {"color"} : k[f] = a[f]
  <2>1. CASE more = << >> /\ color = DontCare
    <3>1. ms = rs
      BY <1>3, <2>1, ConcatEmptySeq
    <3> QED BY <1>3, <1>4, <2>1, <3>1
  <2>2. CASE color \in Colors /\ more = <<Set("color", color)>>
    <3>1. "color" \in Field /\ color \in Value
      BY <2>2 DEF Field, Value
    <3> QED BY <1>3, <1>4, <2>2, <3>1, SetLast
  <2> QED BY <2>1, <2>2
<1>8. PICK k \in HwState : /\ Runs(g, ms, k)
                           /\ color # DontCare => k["color"] = color
                           /\ \A f \in Field \ {"color"} : k[f] = a[f]
  BY <1>7
<1> HIDE DEF ms
<1>9. {"rop", "pattern", "surface", "format", "clip"} \subseteq Field \ {"color"}
  BY DEF Field
<1>10. /\ k["rop"] = currentRop' /\ currentRop' \in RopValue
       /\ \A f \in {"surface", "format", "clip"} : k[f] = g[f]
       /\ \A f \in {"rop", "pattern", "color"} :
             want[f] = DontCare \/ want[f] = k[f]
  BY <1>1, <1>4, <1>5, <1>6, <1>8, <1>9
<1> QED BY <1>1, <1>2, <1>6, <1>7, <1>8, <1>10, SetupStep

(* The setup of pattern fills.                                             *)
LEMMA PatternFillStep ==
    ASSUME IInv, NEW r \in Rops, NEW pattern \in Patterns, NEW color \in Colors,
           SetupForMono8x8PatternFill(r, pattern, color)
    PROVE  IInv' /\ Grows
<1> DEFINE rop == Rop("pattern", r)
           rs == IF currentRop # rop THEN <<Set("rop", rop)>> ELSE << >>
           ms == rs \o <<Set("pattern", pattern), Set("color", color)>>
           want == Want(rop, pattern, color)
<1>1. /\ Idle /\ Emit(ms)
      /\ currentRop' = rop /\ callback' = TRUE
      /\ op'.kind = "fill" /\ op'.want = want
      /\ UNCHANGED <<scratch, needSync, vtSema, remaining, pc>>
  BY DEF SetupForMono8x8PatternFill
<1>2. PICK g \in HwState : Runs(hw, cmds, g) /\ Known(g)
  BY <1>1 DEF IInv, EngineInv, Idle
<1>3. /\ rop \in RopValue /\ {rop, pattern, color} \subseteq Value
      /\ {"rop", "pattern", "color", "surface", "format", "clip"} = Field
  BY DEF Rop, RopValue, Value, Field
<1>4. /\ want \in Wanted
      /\ want["rop"] = rop /\ want["pattern"] = pattern /\ want["color"] = color
      /\ want["surface"] = "screen" /\ want["format"] = "screen"
      /\ want["clip"] = DontCare /\ want["line"] = DontCare
  BY <1>3, WantFacts
<1> HIDE DEF rop, want
<1>5. /\ rs \in Seq(Method) /\ NoDraws(rs)
      /\ \E a \in HwState : /\ Runs(g, rs, a) /\ a["rop"] = rop
                            /\ \A f \in Field \ {"rop"} : a[f] = g[f]
  <2>1. /\ Set("rop", rop) \in Method /\ ~IsDraw(Set("rop", rop))
        /\ "rop" \in Field /\ rop \in Value
    BY <1>3, MethodFacts
  <2>2. CASE currentRop # rop
    <3>1. Runs(g, <<Set("rop", rop)>>, ApplyTo(Set("rop", rop), g))
      BY <2>1, RunsOne
    <3>2. rs = <<Set("rop", rop)>> /\ rs \in Seq(Method) /\ NoDraws(rs)
      BY <2>1, <2>2, Singles DEF NoDraws
    <3> QED BY <2>1, <3>1, <3>2, ApplySet
  <2>3. CASE currentRop = rop
    <3>1. rs = << >> /\ g["rop"] = rop
      BY <1>2, <2>3 DEF Known
    <3> QED BY <3>1, Singles, RunsNone DEF NoDraws
  <2> QED BY <2>2, <2>3
<1>6. PICK a \in HwState : /\ Runs(g, rs, a) /\ a["rop"] = rop
                           /\ \A f \in Field \ {"rop"} : a[f] = g[f]
  BY <1>5
<1> HIDE DEF rs
<1> DEFINE rp == rs \o <<Set("pattern", pattern)>>
<1>7. ms = rp \o <<Set("color", color)>>
  <2>1. /\ <<Set("pattern", pattern)>> \in Seq(Method)
        /\ <<Set("color", color)>> \in Seq(Method)
        /\ <<Set("pattern", pattern), Set("color", color)>> =
              <<Set("pattern", pattern)>> \o <<Set("color", color)>>
    BY <1>3, MethodFacts, Singles
  <2> QED BY <1>5, <2>1, ConcatAssociative
<1>8. PICK b \in HwState : /\ rp \in Seq(Method) /\ NoDraws(rp)
                           /\ Runs(g, rp, b) /\ b["pattern"] = pattern
                           /\ \A f \in Field \ {"pattern"} : b[f] = a[f]
  BY <1>3, <1>5, <1>6, SetLast
<1> HIDE DEF rp, ms
<1>9. PICK k \in HwState : /\ ms \in Seq(Method) /\ NoDraws(ms)
                           /\ Runs(g, ms, k) /\ k["color"] = color
                           /\ \A f \in Field \ {"color"} : k[f] = b[f]
  <2>1. "color" \in Field /\ color \in Value
    BY <1>3
  <2>2. /\ rp \o <<Set("color", color)>> \in Seq(Method)
        /\ NoDraws(rp \o <<Set("color", color)>>)
        /\ \E k \in HwState : /\ Runs(g, rp \o <<Set("color", color)>>, k)
                              /\ k["color"] = color
                              /\ \A f \in Field \ {"color"} : k[f] = b[f]
    BY <1>8, <2>1, SetLast
  <2> QED BY <1>7, <2>2
<1>10. /\ k["rop"] = currentRop' /\ currentRop' \in RopValue
       /\ \A f \in {"surface", "format", "clip"} : k[f] = g[f]
       /\ \A f \in {"rop", "pattern", "color"} :
             want[f] = DontCare \/ want[f] = k[f]
  BY <1>1, <1>3, <1>4, <1>6, <1>8, <1>9
<1> QED BY <1>1, <1>2, <1>4, <1>9, <1>10, SetupStep

(* All the setups.                                                         *)
LEMMA SetupSteps == ASSUME IInv, Setup PROVE IInv' /\ Grows
<1>1. PICK r \in Rops :
         \/ \E planemask \in Planemasks \cup {Ones} :
               \/ SetupForScreenToScreenCopy(r, planemask)
               \/ \E color \in Colors : SetupForSolidFill(r, planemask, color)
               \/ SetupForSolidLine(r, planemask)
               \/ SetupForScanlineColorExpand(r, planemask)
               \/ SetupForScanlineImageWrite(r, planemask)
         \/ \E pattern \in Patterns, color \in Colors :
               SetupForMono8x8PatternFill(r, pattern, color)
  BY DEF Setup
<1>2. ASSUME NEW planemask \in Planemasks \cup {Ones},
             \/ SetupForScreenToScreenCopy(r, planemask)
             \/ SetupForSolidLine(r, planemask)
             \/ SetupForScanlineColorExpand(r, planemask)
             \/ SetupForScanlineImageWrite(r, planemask)
      PROVE  IInv' /\ Grows
  <2>1. \E kind \in {"copy", "fill", "line", "expand", "image"} :
           /\ SetupSolid(kind, r, planemask, DontCare, << >>)
           /\ kind \in {"copy", "fill", "line"} => callback'
           /\ callback' \in {callback, TRUE}
    BY <1>2 DEF SetupForScreenToScreenCopy, SetupForSolidLine,
                SetupForScanlineColorExpand, SetupForScanlineImageWrite
  <2> QED BY <2>1, SetupSolidStep
<1>3. ASSUME NEW planemask \in Planemasks \cup {Ones}, NEW color \in Colors,
             SetupForSolidFill(r, planemask, color)
      PROVE  IInv' /\ Grows
  <2>1. /\ SetupSolid("fill", r, planemask, color, <<Set("color", color)>>)
        /\ callback' = TRUE
    BY <1>3 DEF SetupForSolidFill
  <2> QED BY <2>1, SetupSolidStep
<1> QED BY <1>1, <1>2, <1>3, PatternFillStep

-----------------------------------------------------------------------------
(* Subsequent entry points. *)
LEMMA FieldFacts ==
    /\ {"rop", "pattern", "color", "surface", "format", "clip"} = Field
    /\ {"screen", "scratch", "depth15", "on", "off", 0, 1, DontCare} \subseteq Value
    /\ RopValue \subseteq Value
BY DEF Field, Value

(* What the caller wants is what the engine will have: as it is, with the clip
   off, with the clip turned on in front of it, or from the scratch buffer. *)
LEMMA OpSuits ==
    ASSUME IInv, op.kind # "none", NEW g \in HwState, Known(g)
    PROVE  /\ op.want \in Wanted /\ op.want["line"] = DontCare
           /\ g["surface"] = "screen" => Suits(op.want, g)
           /\ \A c \in {"on", "off"}, h \in HwState :
                 LET w == [op.want EXCEPT !.clip = c]
                 IN  /\ w \in Wanted /\ w["line"] = DontCare
                     /\ (\A f \in Field \ {"clip"} : h[f] = g[f])
                        /\ g["surface"] = "screen" /\ h["clip"] = c => Suits(w, h)
           /\ \A n \in 0..1 :
                 LET w == [op.want EXCEPT !.surface = "scratch", !.line = n]
                 IN  /\ w \in Wanted /\ w["line"] = n
                     /\ g["surface"] = "scratch" => Suits(w, g)
<1>1. /\ op.want \in Wanted
      /\ op.want["surface"] = "screen" /\ op.want["format"] = "screen"
      /\ op.want["clip"] = DontCare /\ op.want["line"] = DontCare
      /\ g["format"] = "screen"
      /\ \A f \in {"rop", "pattern", "color"} :
            op.want[f] = DontCare \/ op.want[f] = g[f]
  BY DEF IInv, TypeInv, Known
<1>2. g["surface"] = "screen" => Suits(op.want, g)
  BY <1>1, FieldFacts DEF Suits
<1>3. ASSUME NEW c \in {"on", "off"}, NEW h \in HwState
      PROVE  LET w == [op.want EXCEPT !.clip = c]
             IN  /\ w \in Wanted /\ w["line"] = DontCare
                 /\ (\A f \in Field \ {"clip"} : h[f] = g[f])
                    /\ g["surface"] = "screen" /\ h["clip"] = c => Suits(w, h)
  <2> DEFINE w == [op.want EXCEPT !.clip = c]
  <2>1. /\ w \in Wanted /\ w["clip"] = c
        /\ \A f \in (Field \cup {"line"}) \ {"clip"} : w[f] = op.want[f]
    BY <1>1, FieldFacts DEF Wanted
  <2>2. w["line"] = DontCare
    BY <1>1, <2>1, FieldFacts
  <2> HIDE DEF w
  <2>3. ASSUME \A f \in Field \ {"clip"} : h[f] = g[f],
               g["surface"] = "screen", h["clip"] = c
        PROVE  Suits(w, h)
    BY <1>1, <2>1, <2>3, FieldFacts DEF Suits
  <2> QED BY <2>1, <2>2, <2>3 DEF w
<1>4. ASSUME NEW n \in 0..1
      PROVE  LET w == [op.want EXCEPT !.surface = "scratch", !.line = n]
             IN  /\ w \in Wanted /\ w["line"] = n
                 /\ g["surface"] = "scratch" => Suits(w, g)
  <2> DEFINE w == [op.want EXCEPT !.surface = "scratch", !.line = n]
  <2>1. /\ w \in Wanted /\ w["surface"] = "scratch" /\ w["line"] = n
        /\ \A f \in Field \ {"surface"} : w[f] = op.want[f]
    <3> DEFINE v == [op.want EXCEPT !.surface = "scratch"]
    <3>1. "surface" \in Field /\ "line" \notin Field /\ "scratch" \in Value /\ n \in Value
      <4>1. n = 0 \/ n = 1
        OBVIOUS
      <4> QED BY <4>1, FieldFacts
    <3>2. /\ v \in Wanted /\ v["surface"] = "scratch"
          /\ \A f \in Field \ {"surface"} : v[f] = op.want[f]
      BY <1>1, <3>1 DEF Wanted
    <3>3. w = [v EXCEPT !.line = n]
      BY <1>1 DEF Wanted
    <3> HIDE DEF v
    <3> QED BY <3>1, <3>2, <3>3 DEF Wanted
  <2> HIDE DEF w
  <2>2. ASSUME g["surface"] = "scratch" PROVE Suits(w, g)
    BY <1>1, <2>1, <2>2, FieldFacts DEF Suits
  <2> QED BY <2>1, <2>2 DEF w
<1> QED BY <1>1, <1>2, <1>3, <1>4

(* Drawing without the CPU: it marks the framebuffer as in use, and the
   callback is armed since Setup. *)
LEMMA SubsequentDraws ==
    ASSUME IInv, Idle, op.kind \in {"copy", "fill", "line"},
           NEW ms \in Seq(Method), Emit(ms) \/ EmitAndKick(ms),
           LinesFrom(ms, scratch),
           NEW g \in HwState, NEW k \in HwState,
           Runs(hw, cmds, g), Known(g), Runs(g, ms, k),
           \A f \in Field : k[f] = g[f],
           needSync' = TRUE,
           UNCHANGED <<scratch, currentRop, callback, vtSema, op, remaining, pc>>
    PROVE  IInv' /\ Grows
<1>1. /\ cmds' \in Seq(Method) /\ Len(cmds') <= MaxCmds
      /\ kicked' \in 0..Len(cmds') /\ hw' = hw
      /\ LinesFrom(cmds', scratch)
      /\ Runs(hw', cmds', k)
  BY Written
<1>2. pc = "idle" /\ vtSema /\ callback
  BY DEF Idle, IInv, PlaceInv
<1>3. TypeInv'
  BY <1>1 DEF IInv, TypeInv, TypeOK
<1>4. PlaceInv'
  BY <1>2 DEF PlaceInv, ImageSteps
<1>5. DrawInv'
  BY <1>1, <1>2 DEF DrawInv
<1>6. Known(k)'
  BY FieldFacts DEF Known, Redirected
<1>7. EngineInv'
  BY <1>1, <1>6 DEF EngineInv
<1> QED BY <1>3, <1>4, <1>5, <1>7, GrowsByWriting DEF IInv

(* Areas drawn after a setup, published at once or left to the block       *)
(* handler.                                                                *)
LEMMA SubsequentAreaStep == ASSUME IInv, SubsequentArea PROVE IInv' /\ Grows
<1>1. /\ Idle /\ op.kind \in {"copy", "fill", "line"} /\ op.kind # "none"
      /\ Emit(<<Draw(op.want)>>) \/ EmitAndKick(<<Draw(op.want)>>)
      /\ needSync' = TRUE
      /\ UNCHANGED <<scratch, currentRop, callback, vtSema, op, remaining, pc>>
  BY DEF SubsequentArea, EmitArea
<1>2. PICK g \in HwState : Runs(hw, cmds, g) /\ Known(g)
  BY <1>1 DEF IInv, EngineInv, Idle
<1>3. g["surface"] = "screen"
  BY <1>1, <1>2 DEF Known, Redirected, Idle
<1>4. op.want \in Wanted /\ op.want["line"] = DontCare /\ Suits(op.want, g)
  BY <1>1, <1>2, <1>3, OpSuits
<1>5. Draw(op.want) \in Method /\ Draw(op.want).want = op.want
  BY <1>4, MethodFacts
<1>6. <<Draw(op.want)>> \in Seq(Method) /\ LinesFrom(<<Draw(op.want)>>, scratch)
  BY <1>4, <1>5, Singles DEF LinesFrom
<1>7. Runs(g, <<Draw(op.want)>>, g)
  <2>1. ApplyTo(Draw(op.want), g) = g
    BY DEF ApplyTo, Draw
  <2> QED BY <1>4, <1>5, <2>1, RunsOne
<1> QED BY <1>1, <1>2, <1>6, <1>7, SubsequentDraws

(* Lines drawn after a setup, left to the block handler.                   *)
LEMMA SubsequentLineStep == ASSUME IInv, SubsequentLine PROVE IInv' /\ Grows
<1> DEFINE w == [op.want EXCEPT !.clip = "off"]
<1>1. /\ Idle /\ op.kind \in {"copy", "fill", "line"} /\ op.kind # "none"
      /\ Emit(<<Draw(w)>>)
      /\ needSync' = TRUE
      /\ UNCHANGED <<scratch, currentRop, callback, vtSema, op, remaining, pc>>
  BY DEF SubsequentLine
<1>2. PICK g \in HwState : Runs(hw, cmds, g) /\ Known(g)
  BY <1>1 DEF IInv, EngineInv, Idle
<1>3. g["surface"] = "screen" /\ g["clip"] = "off"
  BY <1>1, <1>2 DEF Known, Redirected, Idle
<1>4. w \in Wanted /\ w["line"] = DontCare /\ Suits(w, g)
  BY <1>1, <1>2, <1>3, OpSuits
<1> HIDE DEF w
<1>5. Draw(w) \in Method /\ Draw(w).want = w
  BY <1>4, MethodFacts
<1>6. <<Draw(w)>> \in Seq(Method) /\ LinesFrom(<<Draw(w)>>, scratch)
  BY <1>4, <1>5, Singles DEF LinesFrom
<1>7. Runs(g, <<Draw(w)>>, g)
  <2>1. ApplyTo(Draw(w), g) = g
    BY DEF ApplyTo, Draw
  <2> QED BY <1>4, <1>5, <2>1, RunsOne
<1> QED BY <1>1, <1>2, <1>6, <1>7, SubsequentDraws

(* The clip is on for one line only. *)
LEMMA SubsequentClippedLineStep == ASSUME IInv, SubsequentClippedLine PROVE IInv' /\ Grows
<1> DEFINE w == [op.want EXCEPT !.clip = "on"]
           on == <<Set("clip", "on")>>
           draw == <<Draw(w)>>
           off == <<Set("clip", "off")>>
           ms == (on \o draw) \o off
<1>1. /\ Idle /\ op.kind \in {"copy", "fill", "line"} /\ op.kind # "none"
      /\ Emit(<<Set("clip", "on"), Draw(w), Set("clip", "off")>>)
      /\ needSync' = TRUE
      /\ UNCHANGED <<scratch, currentRop, callback, vtSema, op, remaining, pc>>
  BY DEF SubsequentClippedLine
<1>2. PICK g \in HwState : Runs(hw, cmds, g) /\ Known(g)
  BY <1>1 DEF IInv, EngineInv, Idle
<1>3. g["surface"] = "screen" /\ g["clip"] = "off"
  BY <1>1, <1>2 DEF Known, Redirected, Idle
<1>4. /\ w \in Wanted /\ w["line"] = DontCare
      /\ \A h \in HwState : (\A f \in Field \ {"clip"} : h[f] = g[f])
                            /\ h["clip"] = "on" => Suits(w, h)
  BY <1>1, <1>2, <1>3, OpSuits
<1> HIDE DEF w
<1>5. "clip" \in Field /\ "on" \in Value /\ "off" \in Value
  BY FieldFacts
<1>6. /\ Set("clip", "on") \in Method /\ Draw(w) \in Method
      /\ Set("clip", "off") \in Method
      /\ ~IsDraw(Set("clip", "on")) /\ ~IsDraw(Set("clip", "off"))
      /\ Draw(w).want = w
  BY <1>4, <1>5, MethodFacts
<1>7. /\ on \in Seq(Method) /\ draw \in Seq(Method) /\ off \in Seq(Method)
      /\ LinesFrom(on, scratch) /\ LinesFrom(draw, scratch) /\ LinesFrom(off, scratch)
  BY <1>4, <1>6, Singles DEF LinesFrom
<1>8. <<Set("clip", "on"), Draw(w), Set("clip", "off")>> = ms
  BY <1>6, Singles
<1>9. PICK h \in HwState : /\ Runs(g, on, h) /\ h["clip"] = "on"
                           /\ \A f \in Field \ {"clip"} : h[f] = g[f]
  BY <1>5, <1>6, RunsOne, ApplySet
<1>10. Runs(h, draw, h)
  <2>1. ApplyTo(Draw(w), h) = h
    BY DEF ApplyTo, Draw
  <2> QED BY <1>4, <1>6, <1>9, <2>1, RunsOne
<1>11. PICK k \in HwState : /\ Runs(h, off, k) /\ k["clip"] = "off"
                            /\ \A f \in Field \ {"clip"} : k[f] = h[f]
  BY <1>5, <1>6, RunsOne, ApplySet
<1> HIDE DEF on, draw, off
<1>12. /\ on \o draw \in Seq(Method) /\ LinesFrom(on \o draw, scratch)
       /\ Runs(g, on \o draw, h)
  BY <1>7, <1>9, <1>10, ConcatFacts, LinesConcat, RunsConcat
<1>13. ms \in Seq(Method) /\ LinesFrom(ms, scratch) /\ Runs(g, ms, k)
  BY <1>7, <1>11, <1>12, ConcatFacts, LinesConcat, RunsConcat
<1>14. \A f \in Field : k[f] = g[f]
  BY <1>3, <1>9, <1>11
<1> HIDE DEF ms
<1> QED BY <1>1, <1>2, <1>8, <1>13, <1>14, SubsequentDraws

-----------------------------------------------------------------------------
(* Steps that write nothing. *)
LEMMA EngineKept ==
    ASSUME IInv, UNCHANGED <<cmds, hw, currentRop, vtSema>>,
           Redirected' <=> Redirected,
           op' = op \/ op'.kind = "none"
    PROVE  EngineInv'
<1> SUFFICES ASSUME vtSema PROVE \E g \in HwState : Runs(hw, cmds, g) /\ Known(g)'
  BY DEF EngineInv
<1>1. PICK g \in HwState : Runs(hw, cmds, g) /\ Known(g)
  BY DEF IInv, EngineInv
<1>2. Known(g)'
  BY <1>1 DEF Known
<1> QED BY <1>1, <1>2

(* NVSync and NVBlockHandler publish all that nobody else would. *)
LEMMA KickFacts ==
    ASSUME IInv, KickIfArmed, cmds' = cmds, pc # "expand"
    PROVE  /\ kicked' \in 0..Len(cmds) /\ callback' = FALSE
           /\ Quiet(cmds', kicked')
<1>1. cmds \in Seq(Method) /\ Len(cmds) \in Nat /\ kicked \in 0..Len(cmds)
  BY ConcatFacts DEF IInv, TypeInv, TypeOK
<1>2. callback' = FALSE /\ kicked' = IF callback THEN Len(cmds) ELSE kicked
  BY DEF KickIfArmed
<1>3. CASE callback
  BY <1>1, <1>2, <1>3, QuietAll
<1>4. CASE ~callback
  BY <1>1, <1>2, <1>4 DEF IInv, DrawInv
<1> QED BY <1>3, <1>4

(* When NVSync returns nothing that draws is outstanding. *)
LEMMA SyncedFacts ==
    ASSUME IInv, NEW where \in {"syncCpu", "syncImage", "syncNextLine",
                                "syncSwitch", "syncLeave"}, Synced(where)
    PROVE  /\ pc = where /\ kicked = 0 /\ ~callback /\ vtSema
           /\ NoDraws(cmds)
<1>1. pc = where /\ kicked = 0
  BY DEF Synced
<1>2. ~callback /\ vtSema
  BY <1>1 DEF IInv, PlaceInv
<1>3. cmds \in Seq(Method) /\ Quiet(cmds, 0)
  BY <1>1, <1>2 DEF IInv, DrawInv, TypeInv
<1> QED BY <1>1, <1>2, <1>3, QuietAll

(* The block handler publishes what is armed.                              *)
LEMMA BlockHandlerStep == ASSUME IInv, BlockHandler PROVE IInv'
<1>1. /\ pc = "idle" /\ KickIfArmed /\ op' = NoOp /\ op'.kind = "none"
      /\ UNCHANGED <<cmds, hw, scratch, currentRop, needSync, vtSema, remaining, pc>>
  BY DEF BlockHandler, NoOp
<1>2. kicked' \in 0..Len(cmds) /\ callback' = FALSE /\ Quiet(cmds', kicked')
  BY <1>1, KickFacts
<1>3. TypeInv'
  BY <1>1, <1>2 DEF IInv, TypeInv, TypeOK
<1>4. PlaceInv'
  <2>1. ~vtSema => kicked' = 0
    BY <1>1 DEF KickIfArmed, IInv, PlaceInv
  <2> QED BY <1>1, <1>2, <2>1 DEF IInv, PlaceInv, ImageSteps
<1>5. DrawInv'
  BY <1>1, <1>2 DEF IInv, DrawInv
<1>6. EngineInv'
  BY <1>1, EngineKept DEF Redirected
<1> QED BY <1>3, <1>4, <1>5, <1>6 DEF IInv

(* A full ring is published.                                               *)
LEMMA DmaWaitStep == ASSUME IInv, DmaWait PROVE IInv'
<1>1. /\ vtSema /\ kicked' = Len(cmds)
      /\ UNCHANGED <<cmds, hw, scratch, currentRop, callback, needSync, vtSema, op,
                     remaining, pc>>
  BY DEF DmaWait, driverVars
<1>2. cmds \in Seq(Method) /\ Len(cmds) \in Nat /\ Quiet(cmds, Len(cmds))
  BY QuietAll, ConcatFacts DEF IInv, TypeInv
<1>3. TypeInv'
  BY <1>1, <1>2 DEF IInv, TypeInv, TypeOK
<1>4. PlaceInv'
  BY <1>1 DEF IInv, PlaceInv
<1>5. DrawInv'
  BY <1>1, <1>2 DEF IInv, DrawInv
<1>6. EngineInv'
  BY <1>1, EngineKept DEF Redirected
<1> QED BY <1>3, <1>4, <1>5, <1>6 DEF IInv

(* A call that begins by waiting for the engine: for the CPU, for a mode or VT
   switch, or for the scratch buffer. *)
LEMMA SyncSteps ==
    ASSUME IInv, Idle,
           NEW where \in {"syncCpu", "syncImage", "syncSwitch", "syncLeave"},
           SyncTo(where),
           \/ where = "syncImage" /\ op.kind = "image" /\ op' = op
              /\ remaining' \in 1..MaxLines
           \/ where # "syncImage" /\ op' = NoOp /\ remaining' = remaining,
           UNCHANGED <<scratch, currentRop, needSync, vtSema>>
    PROVE  IInv'
<1>1. /\ pc = "idle" /\ vtSema /\ KickIfArmed /\ pc' = where
      /\ UNCHANGED <<cmds, hw, vtSema>>
  BY DEF SyncTo, Idle
<1>2. kicked' \in 0..Len(cmds) /\ callback' = FALSE /\ Quiet(cmds', kicked')
  BY <1>1, KickFacts
<1>3. /\ op' = op \/ op'.kind = "none"
      /\ where = "syncImage" => op'.kind = "image"
      /\ where # "syncImage" => op'.kind = "none"
  BY DEF NoOp
<1>4. /\ MaxLines \in Nat /\ remaining' \in 0..MaxLines
      /\ where = "syncImage" => remaining' > 0
  BY AccelAssumption DEF IInv, TypeInv, TypeOK
<1>5. op'.kind \in {"none", "copy", "fill", "line", "expand", "image"}
  BY <1>3
<1>6. TypeInv'
  <2>1. TypeOK'
    BY <1>1, <1>2, <1>4, <1>5 DEF IInv, TypeInv, TypeOK
  <2> QED BY <1>1, <1>3, <2>1 DEF IInv, TypeInv
<1>7. PlaceInv'
  BY <1>1, <1>2, <1>3, <1>4 DEF PlaceInv, ImageSteps
<1>8. DrawInv'
  <2>1. ~needSync => NoDraws(cmds)
    BY <1>1 DEF IInv, DrawInv, ImageSteps
  <2> QED BY <1>1, <1>2, <2>1 DEF IInv, DrawInv, ImageSteps
<1>9. EngineInv'
  BY <1>1, <1>3, EngineKept DEF Redirected
<1> QED BY <1>6, <1>7, <1>8, <1>9 DEF IInv

(* The CPU may draw: nothing is outstanding, or the sync begins.           *)
LEMMA CpuAccessStep == ASSUME IInv, CpuAccess PROVE IInv'
<1>1. /\ Idle /\ op' = NoOp
      /\ UNCHANGED <<scratch, currentRop, needSync, vtSema, remaining>>
  BY DEF CpuAccess
<1>2. CASE needSync
  BY <1>1, <1>2, SyncSteps DEF CpuAccess
<1>3. CASE ~needSync
  <2>1. pc = "idle" /\ vtSema /\ pc' = "cpu" /\ UNCHANGED <<cmds, kicked, hw, callback>>
    BY <1>3 DEF CpuAccess, Idle
  <2>2. op'.kind = "none"
    BY <1>1 DEF NoOp
  <2>3. NoDraws(cmds)
    BY <1>3, <2>1 DEF IInv, DrawInv, ImageSteps
  <2>4. TypeInv'
    BY <1>1, <2>1, <2>2 DEF IInv, TypeInv, TypeOK
  <2>5. PlaceInv'
    BY <1>1, <2>1, <2>2 DEF PlaceInv, ImageSteps
  <2>6. DrawInv'
    BY <1>1, <2>1, <2>3 DEF IInv, DrawInv
  <2>7. EngineInv'
    BY <1>1, <2>1, <2>2, EngineKept DEF Redirected
  <2> QED BY <2>4, <2>5, <2>6, <2>7 DEF IInv
<1> QED BY <1>2, <1>3

(* The CPU begins to draw when the wait is over.                           *)
LEMMA CpuStartStep == ASSUME IInv, CpuStart PROVE IInv'
<1>1. /\ Synced("syncCpu") /\ needSync' = FALSE /\ pc' = "cpu"
      /\ UNCHANGED <<cmds, kicked, hw, scratch, currentRop, callback, vtSema, op,
                     remaining>>
  BY DEF CpuStart
<1>2. pc = "syncCpu" /\ ~callback /\ vtSema /\ NoDraws(cmds)
  BY <1>1, SyncedFacts
<1>3. TypeInv'
  BY <1>1 DEF IInv, TypeInv, TypeOK
<1>4. PlaceInv'
  BY <1>1, <1>2 DEF IInv, PlaceInv, ImageSteps
<1>5. DrawInv'
  BY <1>1, <1>2 DEF IInv, DrawInv
<1>6. EngineInv'
  BY <1>1, <1>2, EngineKept DEF Redirected
<1> QED BY <1>3, <1>4, <1>5, <1>6 DEF IInv

(* The CPU has drawn.                                                      *)
LEMMA CpuDoneStep == ASSUME IInv, CpuDone PROVE IInv'
<1>1. /\ pc = "cpu" /\ pc' = "idle"
      /\ UNCHANGED <<cmds, kicked, hw, scratch, currentRop, callback, needSync,
                     vtSema, op, remaining>>
  BY DEF CpuDone
<1>2. TypeInv'
  BY <1>1 DEF IInv, TypeInv, TypeOK
<1>3. PlaceInv'
  BY <1>1 DEF IInv, PlaceInv, ImageSteps
<1>4. DrawInv'
  BY <1>1 DEF IInv, DrawInv
<1>5. EngineInv'
  BY <1>1, EngineKept DEF Redirected
<1> QED BY <1>2, <1>3, <1>4, <1>5 DEF IInv

-----------------------------------------------------------------------------
(* Mode and VT switches. *)
LEMMA ModeInitSteps == ASSUME IInv, SwitchModeDone \/ EnterVT PROVE IInv'
<1>1. /\ ModeInit /\ pc' = "idle"
      /\ UNCHANGED <<scratch, callback, needSync, op, remaining>>
  BY DEF SwitchModeDone, EnterVT
<1>2. op.kind = "none" /\ ~callback
  <2>1. CASE SwitchModeDone
    <3>1. Synced("syncSwitch")
      BY <2>1 DEF SwitchModeDone
    <3>2. pc = "syncSwitch" /\ ~callback
      BY <3>1, SyncedFacts
    <3> QED BY <3>2 DEF IInv, PlaceInv
  <2>2. CASE EnterVT
    BY <2>2 DEF EnterVT, IInv, PlaceInv
  <2> QED BY <2>1, <2>2
<1>3. /\ cmds' = ResetMethods /\ kicked' = 4 /\ hw' = UnknownHw /\ vtSema' = TRUE
      /\ currentRop' = Rop("solid", GXcopy)
      /\ cmds' \in Seq(Method) /\ Len(cmds') = 4 /\ NoDraws(cmds')
      /\ hw' \in HwState
  BY <1>1, ResetRun DEF ModeInit
<1>4. /\ Len(cmds') <= MaxCmds /\ kicked' \in 0..Len(cmds') /\ DOMAIN hw' = Field
      /\ currentRop' \in RopValue
  BY <1>3, AccelAssumption DEF HwState, Rop, RopValue
<1>5. TypeInv'
  BY <1>1, <1>3, <1>4 DEF IInv, TypeInv, TypeOK
<1>6. PlaceInv'
  BY <1>1, <1>2, <1>3 DEF PlaceInv, ImageSteps
<1>7. DrawInv'
  BY <1>3, QuietAll, NoDrawsLines DEF DrawInv
<1>8. EngineInv'
  <2>1. PICK g \in HwState :
           /\ Runs(UnknownHw, ResetMethods, g)
           /\ g["rop"] = Rop("solid", GXcopy)
           /\ g["format"] = "screen" /\ g["surface"] = "screen"
           /\ g["clip"] = "off"
    BY ResetRun
  <2>2. Known(g)'
    BY <1>1, <1>2, <1>3, <2>1 DEF Known, Redirected
  <2> QED BY <1>3, <2>1, <2>2 DEF EngineInv
<1> QED BY <1>5, <1>6, <1>7, <1>8 DEF IInv

(* The wait in NVLeaveVT is over.                                          *)
LEMMA LeaveVTDoneStep == ASSUME IInv, LeaveVTDone PROVE IInv'
<1>1. /\ Synced("syncLeave") /\ hw' = UnknownHw /\ vtSema' = FALSE /\ pc' = "idle"
      /\ UNCHANGED <<cmds, kicked, scratch, currentRop, callback, needSync, op,
                     remaining>>
  BY DEF LeaveVTDone
<1>2. pc = "syncLeave" /\ kicked = 0 /\ ~callback /\ NoDraws(cmds)
  BY <1>1, SyncedFacts
<1>3. op.kind = "none"
  BY <1>2 DEF IInv, PlaceInv
<1>4. hw' \in HwState /\ DOMAIN hw' = Field
  BY <1>1, ResetRun DEF HwState
<1>5. TypeInv'
  BY <1>1, <1>4 DEF IInv, TypeInv, TypeOK
<1>6. PlaceInv'
  BY <1>1, <1>2, <1>3 DEF PlaceInv, ImageSteps
<1>7. DrawInv'
  BY <1>1, <1>2 DEF IInv, DrawInv
<1>8. EngineInv'
  BY <1>1 DEF EngineInv
<1> QED BY <1>5, <1>6, <1>7, <1>8 DEF IInv

-----------------------------------------------------------------------------
(* The engine executes a method. *)
LEMMA ExecuteStep == ASSUME IInv, Execute PROVE IInv'
<1>1. /\ kicked > 0 /\ cmds' = Tail(cmds) /\ kicked' = kicked - 1
      /\ hw' = Apply(Head(cmds))
      /\ UNCHANGED <<scratch, currentRop, callback, needSync, vtSema, op,
                     remaining, pc>>
  BY DEF Execute, driverVars
<1>2. /\ cmds \in Seq(Method) /\ hw \in HwState /\ Len(cmds) <= MaxCmds
      /\ kicked \in 1..Len(cmds) /\ Len(cmds) \in Nat
  BY <1>1, ConcatFacts DEF IInv, TypeInv, TypeOK
<1>3. /\ Head(cmds) = cmds[1] /\ cmds[1] \in Method
      /\ cmds' \in Seq(Method) /\ Len(cmds') = Len(cmds) - 1
      /\ \A i \in 1..Len(cmds') : i + 1 \in 1..Len(cmds) /\ cmds'[i] = cmds[i + 1]
  BY <1>1, <1>2
<1>4. hw' = ApplyTo(cmds[1], hw) /\ hw' \in HwState /\ DOMAIN hw' = Field
  <2>1. hw' = ApplyTo(cmds[1], hw)
    BY <1>1, <1>3 DEF Apply, ApplyTo
  <2>2. hw' \in HwState
    BY <1>2, <1>3, <2>1, ApplyTyped
  <2> QED BY <2>1, <2>2 DEF HwState
<1>5. /\ Quiet(cmds, kicked) => Quiet(cmds', kicked')
      /\ NoDraws(cmds) => NoDraws(cmds')
  BY <1>1, <1>2, QuietTail
<1>6. vtSema
  BY <1>1 DEF IInv, PlaceInv
<1>7. TypeInv'
  <2>1. Len(cmds') <= MaxCmds /\ kicked' \in 0..Len(cmds')
    <3>1. MaxCmds \in Nat /\ kicked \in Int
      BY <1>2, AccelAssumption
    <3> QED BY <1>1, <1>2, <1>3, <3>1
  <2>2. TypeOK'
    BY <1>1, <1>4, <2>1 DEF IInv, TypeInv, TypeOK
  <2> QED BY <1>1, <1>3, <1>4, <2>2 DEF IInv, TypeInv
<1>8. PlaceInv'
  BY <1>1, <1>6 DEF IInv, PlaceInv
<1>9. DrawInv'
  <2>1. LinesFrom(cmds', scratch)
    BY <1>3 DEF IInv, DrawInv, LinesFrom
  <2> QED BY <1>1, <1>5, <2>1 DEF IInv, DrawInv
<1>10. EngineInv'
  <2>1. PICK g \in HwState : Runs(hw, cmds, g) /\ Known(g)
    BY <1>6 DEF IInv, EngineInv
  <2>2. Runs(hw', cmds', g)
    BY <1>1, <1>2, <1>4, <2>1, RunsTail
  <2>3. Known(g)'
    BY <1>1, <2>1 DEF Known, Redirected
  <2> QED BY <2>2, <2>3 DEF EngineInv
<1> QED BY <1>7, <1>8, <1>9, <1>10 DEF IInv

-----------------------------------------------------------------------------
(* Bitmaps, scanline by scanline. *)
LEMMA ColorExpandStep ==
    ASSUME IInv, NEW h \in 1..MaxLines, SubsequentColorExpand(h)
    PROVE  IInv' /\ Grows
<1>1. /\ pc = "idle" /\ vtSema /\ op.kind = "expand" /\ Emit(<<Stall>>)
      /\ remaining' = h /\ pc' = "expand"
      /\ UNCHANGED <<scratch, currentRop, callback, needSync, vtSema, op>>
  BY DEF SubsequentColorExpand, Idle
<1>2. /\ <<Stall>> \in Seq(Method) /\ LinesFrom(<<Stall>>, scratch)
  BY MethodFacts, Singles DEF LinesFrom
<1>3. /\ cmds' \in Seq(Method) /\ Len(cmds') <= MaxCmds
      /\ kicked' \in 0..Len(cmds') /\ hw' = hw
      /\ LinesFrom(cmds', scratch)
      /\ \A g, k \in HwState : Runs(hw, cmds, g) /\ Runs(g, <<Stall>>, k) =>
                                  Runs(hw', cmds', k)
  BY <1>1, <1>2, Written
<1>4. remaining' \in 0..MaxLines /\ remaining' > 0
  BY <1>1, AccelAssumption
<1>5. TypeInv'
  BY <1>1, <1>3, <1>4 DEF IInv, TypeInv, TypeOK
<1>6. PlaceInv'
  BY <1>1, <1>4 DEF PlaceInv, ImageSteps
<1>7. DrawInv'
  BY <1>1, <1>3 DEF DrawInv
<1>8. EngineInv'
  <2>1. PICK g \in HwState : Runs(hw, cmds, g) /\ Known(g)
    BY <1>1 DEF IInv, EngineInv
  <2>2. ApplyTo(Stall, g) = g
    BY DEF ApplyTo, Stall
  <2>3. Runs(g, <<Stall>>, g)
    BY <2>2, MethodFacts, RunsOne
  <2>4. Known(g)'
    BY <1>1, <2>1 DEF Known, Redirected
  <2> QED BY <1>3, <2>1, <2>3, <2>4 DEF EngineInv
<1> QED BY <1>1, <1>2, <1>5, <1>6, <1>7, <1>8, GrowsByWriting DEF IInv

(* A colour expansion by scanlines begins: XAA will store the lines.       *)
LEMMA ColorExpandScanlineStep ==
    ASSUME IInv, SubsequentColorExpandScanline
    PROVE  IInv' /\ Grows
<1> DEFINE draw == <<Draw(op.want)>>
           stall == <<Stall>>
<1>1. /\ pc = "expand" /\ remaining' = remaining - 1
      /\ UNCHANGED <<scratch, currentRop, callback, vtSema, op>>
      /\ \/ /\ remaining' # 0 /\ Emit(draw)
            /\ UNCHANGED <<pc, needSync>>
         \/ /\ remaining' = 0 /\ EmitAndKick(draw \o stall)
            /\ pc' = "idle" /\ needSync' = TRUE
  <2>1. CASE remaining' # 0
    BY <2>1 DEF SubsequentColorExpandScanline
  <2>2. CASE remaining' = 0
    <3>1. <<Draw(op.want), Stall>> = draw \o stall
      <4>1. op.want \in Wanted
        BY DEF IInv, TypeInv, PlaceInv, SubsequentColorExpandScanline
      <4> QED BY <4>1, MethodFacts, Singles
    <3> QED BY <2>2, <3>1 DEF SubsequentColorExpandScanline
  <2> QED BY <2>1, <2>2
<1>2. op.kind = "expand" /\ remaining > 0 /\ vtSema
  BY <1>1 DEF IInv, PlaceInv
<1>3. PICK g \in HwState : Runs(hw, cmds, g) /\ Known(g)
  BY <1>2 DEF IInv, EngineInv
<1>4. op.want \in Wanted /\ op.want["line"] = DontCare /\ Suits(op.want, g)
  <2>1. g["surface"] = "screen"
    BY <1>1, <1>3 DEF Known, Redirected
  <2> QED BY <1>2, <1>3, <2>1, OpSuits
<1>5. /\ draw \in Seq(Method) /\ stall \in Seq(Method)
      /\ LinesFrom(draw, scratch) /\ LinesFrom(stall, scratch)
      /\ Runs(g, draw, g) /\ Runs(g, stall, g)
  <2>1. Draw(op.want) \in Method /\ Draw(op.want).want = op.want
        /\ Stall \in Method /\ ~IsDraw(Stall)
    BY <1>4, MethodFacts
  <2>2. ApplyTo(Draw(op.want), g) = g /\ ApplyTo(Stall, g) = g
    BY DEF ApplyTo, Draw, Stall
  <2>3. draw \in Seq(Method) /\ stall \in Seq(Method)
    BY <2>1, Singles
  <2>4. LinesFrom(draw, scratch) /\ LinesFrom(stall, scratch)
    BY <1>4, <2>1, Singles DEF LinesFrom
  <2>5. Runs(g, draw, g) /\ Runs(g, stall, g)
    BY <1>4, <2>1, <2>2, RunsOne
  <2> QED BY <2>3, <2>4, <2>5
<1>6. /\ draw \o stall \in Seq(Method) /\ LinesFrom(draw \o stall, scratch)
      /\ Runs(g, draw \o stall, g)
  BY <1>5, ConcatFacts, LinesConcat, RunsConcat
<1> HIDE DEF draw, stall
<1>7. /\ cmds' \in Seq(Method) /\ Len(cmds') <= MaxCmds
      /\ kicked' \in 0..Len(cmds') /\ hw' = hw
      /\ LinesFrom(cmds', scratch)
      /\ Runs(hw', cmds', g)
      /\ EmitAndKick(draw \o stall) => Quiet(cmds', kicked')
  <2>1. CASE Emit(draw)
    <3>1. /\ cmds' \in Seq(Method) /\ Len(cmds') <= MaxCmds
          /\ kicked' \in 0..Len(cmds') /\ hw' = hw
          /\ LinesFrom(cmds', scratch)
          /\ Runs(hw', cmds', g)
      BY <1>3, <1>5, <2>1, Written
    <3>2. EmitAndKick(draw \o stall) => Quiet(cmds', kicked')
      BY <1>6, Written
    <3> QED BY <3>1, <3>2
  <2>2. CASE EmitAndKick(draw \o stall)
    BY <1>3, <1>6, <2>2, Written
  <2> QED BY <1>1, <2>1, <2>2
<1>8. remaining' \in 0..MaxLines /\ (remaining' # 0 => remaining' > 0)
  <2>1. remaining \in 0..MaxLines /\ MaxLines \in Nat
    BY AccelAssumption DEF IInv, TypeInv, TypeOK
  <2> QED BY <1>1, <1>2, <2>1
<1>9. TypeInv'
  <2>1. pc' \in {"idle", "expand"} /\ needSync' \in BOOLEAN
    BY <1>1 DEF IInv, TypeInv, TypeOK
  <2>2. TypeOK'
    BY <1>1, <1>7, <1>8, <2>1 DEF IInv, TypeInv, TypeOK
  <2> QED BY <1>1, <1>7, <2>2 DEF IInv, TypeInv
<1>10. PlaceInv'
  BY <1>1, <1>2, <1>8 DEF PlaceInv, ImageSteps
<1>11. DrawInv'
  BY <1>1, <1>7 DEF DrawInv
<1>12. EngineInv'
  <2>1. Known(g)'
    BY <1>1, <1>3 DEF Known, Redirected
  <2> QED BY <1>7, <2>1 DEF EngineInv
<1>13. Grows
  BY <1>1, <1>5, <1>6, GrowsByWriting
<1> QED BY <1>9, <1>10, <1>11, <1>12, <1>13 DEF IInv

-----------------------------------------------------------------------------
(* Images, through the scratch buffer. *)
LEMMA ImageRedirectStep == ASSUME IInv, ImageRedirect PROVE IInv' /\ Grows
<1> DEFINE ms == <<Set("surface", "scratch")>>
<1>1. /\ Synced("syncImage") /\ Emit(ms) /\ pc' = "line"
      /\ UNCHANGED <<scratch, currentRop, callback, needSync, vtSema, op, remaining>>
  BY DEF ImageRedirect
<1>2. pc = "syncImage" /\ ~callback /\ vtSema /\ NoDraws(cmds)
  BY <1>1, SyncedFacts
<1>3. /\ "surface" \in Field /\ "scratch" \in Value
      /\ {"rop", "pattern", "color", "format", "clip"} \subseteq Field \ {"surface"}
  BY FieldFacts
<1>4. Set("surface", "scratch") \in Method /\ ~IsDraw(Set("surface", "scratch"))
  BY <1>3, MethodFacts
<1>5. ms \in Seq(Method) /\ NoDraws(ms)
  BY <1>4, Singles DEF NoDraws
<1>6. PICK g \in HwState : Runs(hw, cmds, g) /\ Known(g)
  BY <1>2 DEF IInv, EngineInv
<1>7. PICK k \in HwState : /\ Runs(g, ms, k) /\ k["surface"] = "scratch"
                           /\ \A f \in Field \ {"surface"} : k[f] = g[f]
  BY <1>3, <1>4, RunsOne, ApplySet
<1> HIDE DEF ms
<1>8. /\ cmds' \in Seq(Method) /\ Len(cmds') <= MaxCmds
      /\ kicked' \in 0..Len(cmds') /\ hw' = hw
      /\ NoDraws(cmds')
      /\ Runs(hw', cmds', k)
  BY <1>1, <1>2, <1>5, <1>6, <1>7, Written
<1>9. TypeInv'
  BY <1>1, <1>8 DEF IInv, TypeInv, TypeOK
<1>10. PlaceInv'
  BY <1>1, <1>2 DEF IInv, PlaceInv, ImageSteps
<1>11. DrawInv'
  <2>1. Quiet(cmds', kicked')
    BY <1>8, QuietAll, ConcatFacts
  <2> QED BY <1>8, <2>1, NoDrawsLines DEF DrawInv
<1>12. EngineInv'
  <2>1. Known(k)'
    BY <1>1, <1>2, <1>3, <1>6, <1>7 DEF Known, Redirected
  <2> QED BY <1>8, <2>1 DEF EngineInv
<1> QED BY <1>1, <1>5, <1>9, <1>10, <1>11, <1>12, GrowsByWriting DEF IInv

(* XAA stores a line in the scratch line: none is outstanding that reads   *)
(* it.                                                                     *)
LEMMA StoreLineStep == ASSUME IInv, StoreLine PROVE IInv'
<1>1. /\ pc = "line" /\ scratch' = 1 - scratch /\ pc' = "stored"
      /\ UNCHANGED <<cmds, kicked, hw, currentRop, callback, needSync, vtSema, op,
                     remaining>>
  BY DEF StoreLine
<1>2. scratch' \in 0..1
  BY <1>1 DEF IInv, TypeInv, TypeOK
<1>3. NoDraws(cmds')
  BY <1>1 DEF IInv, DrawInv
<1>4. TypeInv'
  BY <1>1, <1>2 DEF IInv, TypeInv, TypeOK
<1>5. PlaceInv'
  BY <1>1 DEF IInv, PlaceInv, ImageSteps
<1>6. DrawInv'
  <2>1. ~callback => Quiet(cmds, kicked)
    BY <1>1 DEF IInv, DrawInv
  <2> QED BY <1>1, <1>3, <2>1, NoDrawsLines DEF DrawInv
<1>7. EngineInv'
  BY <1>1, EngineKept DEF Redirected
<1> QED BY <1>4, <1>5, <1>6, <1>7 DEF IInv

(* The next line of an image after a wait.                                 *)
LEMMA ImageNextLineStep == ASSUME IInv, ImageNextLine PROVE IInv'
<1>1. /\ Synced("syncNextLine") /\ pc' = "line"
      /\ UNCHANGED <<cmds, kicked, hw, scratch, currentRop, callback, needSync,
                     vtSema, op, remaining>>
  BY DEF ImageNextLine
<1>2. pc = "syncNextLine" /\ NoDraws(cmds)
  BY <1>1, SyncedFacts
<1>3. TypeInv'
  BY <1>1 DEF IInv, TypeInv, TypeOK
<1>4. PlaceInv'
  BY <1>1, <1>2 DEF IInv, PlaceInv, ImageSteps
<1>5. DrawInv'
  BY <1>1, <1>2 DEF IInv, DrawInv, ImageSteps
<1>6. EngineInv'
  BY <1>1, <1>2, EngineKept DEF Redirected
<1> QED BY <1>3, <1>4, <1>5, <1>6 DEF IInv

(* An image write by scanlines begins.                                     *)
LEMMA ImageWriteScanlineStep ==
    ASSUME IInv, SubsequentImageWriteScanline
    PROVE  IInv' /\ Grows
<1> DEFINE w == [op.want EXCEPT !.surface = "scratch", !.line = scratch]
           blit == <<Draw(w)>>
           back == <<Set("surface", "screen")>>
<1>1. /\ pc = "stored" /\ remaining' = remaining - 1
      /\ UNCHANGED <<scratch, currentRop, vtSema, op>>
  BY DEF SubsequentImageWriteScanline
<1>2. op.kind = "image" /\ remaining > 0 /\ vtSema
  BY <1>1 DEF IInv, PlaceInv, ImageSteps
<1>3. PICK g \in HwState : Runs(hw, cmds, g) /\ Known(g)
  BY <1>2 DEF IInv, EngineInv
<1>4. w \in Wanted /\ w["line"] = scratch /\ Suits(w, g)
  <2>1. g["surface"] = "scratch" /\ scratch \in 0..1
    BY <1>1, <1>3 DEF Known, Redirected, IInv, TypeInv, TypeOK
  <2> QED BY <1>2, <1>3, <2>1, OpSuits
<1>5. ImageBlit = Draw(w)
  BY DEF ImageBlit
<1> HIDE DEF w
<1>6. /\ Draw(w) \in Method /\ Draw(w).want = w
      /\ Set("surface", "screen") \in Method /\ ~IsDraw(Set("surface", "screen"))
      /\ "surface" \in Field /\ "screen" \in Value
  BY <1>4, FieldFacts, MethodFacts
<1>7. /\ blit \in Seq(Method) /\ back \in Seq(Method)
      /\ Len(blit) = 1 /\ Len(back) = 1 /\ NoDraws(back)
      /\ LinesFrom(blit, scratch) /\ LinesFrom(back, scratch)
      /\ <<ImageBlit, Set("surface", "screen")>> = blit \o back
      /\ <<ImageBlit>> = blit
  <2>1. /\ blit \in Seq(Method) /\ back \in Seq(Method)
        /\ Len(blit) = 1 /\ Len(back) = 1
        /\ blit[1] = Draw(w) /\ back[1] = Set("surface", "screen")
        /\ <<Draw(w), Set("surface", "screen")>> = blit \o back
    BY <1>6, Singles
  <2>2. <<ImageBlit>> = blit
    BY <1>5
  <2> HIDE DEF blit, back
  <2>3. NoDraws(back) /\ LinesFrom(blit, scratch) /\ LinesFrom(back, scratch)
    BY <1>4, <1>6, <2>1 DEF NoDraws, LinesFrom
  <2> QED BY <1>5, <2>1, <2>2, <2>3
<1>8. Runs(g, blit, g)
  <2>1. ApplyTo(Draw(w), g) = g
    BY DEF ApplyTo, Draw
  <2> QED BY <1>4, <1>6, <2>1, RunsOne
<1>9. PICK k \in HwState : /\ Runs(g, back, k) /\ k["surface"] = "screen"
                           /\ \A f \in Field \ {"surface"} : k[f] = g[f]
  BY <1>6, RunsOne, ApplySet
<1> HIDE DEF blit, back
<1>10. remaining' \in 0..MaxLines /\ (remaining' # 0 => remaining' > 0)
  <2>1. remaining \in 0..MaxLines /\ MaxLines \in Nat
    BY AccelAssumption DEF IInv, TypeInv, TypeOK
  <2> QED BY <1>1, <1>2, <2>1
<1>11. CASE remaining' # 0
  <2>1. /\ EmitAndKick(blit) /\ callback' = FALSE /\ pc' = "syncNextLine"
        /\ needSync' = needSync
    BY <1>7, <1>11 DEF SubsequentImageWriteScanline
  <2>2. /\ cmds' \in Seq(Method) /\ Len(cmds') <= MaxCmds
        /\ kicked' \in 0..Len(cmds') /\ hw' = hw
        /\ Quiet(cmds', kicked')
        /\ LinesFrom(cmds', scratch)
        /\ Runs(hw', cmds', g)
    BY <1>3, <1>7, <1>8, <2>1, Written
  <2>3. TypeInv'
    BY <1>1, <1>10, <2>1, <2>2 DEF IInv, TypeInv, TypeOK
  <2>4. PlaceInv'
    BY <1>1, <1>2, <1>10, <1>11, <2>1 DEF PlaceInv, ImageSteps
  <2>5. DrawInv'
    BY <1>1, <2>1, <2>2 DEF DrawInv, ImageSteps
  <2>6. Known(g)'
    BY <1>1, <1>3, <2>1 DEF Known, Redirected
  <2>7. EngineInv'
    BY <2>2, <2>6 DEF EngineInv
  <2> QED BY <1>7, <2>1, <2>3, <2>4, <2>5, <2>7, GrowsByWriting DEF IInv
<1>12. CASE remaining' = 0
  <2>1. /\ Len(cmds) + 2 <= MaxCmds
        /\ cmds' = cmds \o (blit \o back)
        /\ kicked' = Len(cmds) + 1 /\ pc' = "idle" /\ needSync' = TRUE
        /\ UNCHANGED <<hw, callback>>
    BY <1>7, <1>12 DEF SubsequentImageWriteScanline
  <2>2. /\ cmds \in Seq(Method) /\ hw \in HwState /\ LinesFrom(cmds, scratch)
        /\ Len(cmds) \in Nat
    BY ConcatFacts DEF IInv, TypeInv, DrawInv
  <2>3. /\ cmds \o blit \in Seq(Method) /\ Len(cmds \o blit) = Len(cmds) + 1
        /\ LinesFrom(cmds \o blit, scratch)
        /\ Runs(hw, cmds \o blit, g)
    BY <1>3, <1>7, <1>8, <2>2, ConcatFacts, LinesConcat, RunsConcat
  <2>4. cmds' = (cmds \o blit) \o back
    BY <1>7, <2>1, <2>2, ConcatAssociative, SMTT(30)
  <2>5. /\ cmds' \in Seq(Method) /\ Len(cmds') = Len(cmds) + 2
        /\ LinesFrom(cmds', scratch)
        /\ Runs(hw', cmds', k)
    <3>1. /\ cmds' \in Seq(Method) /\ Len(cmds') = Len(cmds \o blit) + Len(back)
      BY <1>7, <2>3, <2>4, ConcatFacts
    <3>2. LinesFrom(cmds', scratch)
      BY <1>7, <2>3, <2>4, LinesConcat
    <3>3. Runs(hw', cmds', k)
      BY <1>7, <1>9, <2>1, <2>2, <2>3, <2>4, RunsConcat
    <3> QED BY <1>7, <2>2, <2>3, <3>1, <3>2, <3>3
  <2>6. Quiet(cmds', kicked')
    <3>1. Quiet(cmds \o blit, Len(cmds \o blit))
      BY <2>3, QuietAll
    <3>2. Len(cmds) + 1 \in 0..Len(cmds \o blit)
      BY <2>2, <2>3
    <3> QED BY <1>7, <2>1, <2>3, <2>4, <3>1, <3>2, QuietConcat
  <2>7. kicked' \in 0..Len(cmds') /\ Len(cmds') <= MaxCmds
    BY <2>1, <2>2, <2>5
  <2>8. TypeInv'
    BY <1>1, <1>10, <2>1, <2>5, <2>7 DEF IInv, TypeInv, TypeOK
  <2>9. PlaceInv'
    BY <1>1, <1>2, <2>1 DEF PlaceInv, ImageSteps
  <2>10. DrawInv'
    BY <1>1, <2>1, <2>5, <2>6 DEF DrawInv
  <2>11. Known(k)'
    <3>1. {"rop", "pattern", "color", "format", "clip"} \subseteq Field \ {"surface"}
      BY FieldFacts
    <3> QED BY <1>1, <1>3, <1>9, <2>1, <3>1 DEF Known, Redirected
  <2>12. EngineInv'
    BY <2>5, <2>11 DEF EngineInv
  <2>13. Grows
    BY <1>7, <2>1, ConcatFacts DEF Grows
  <2> QED BY <2>8, <2>9, <2>10, <2>12, <2>13 DEF IInv
<1> QED BY <1>11, <1>12

-----------------------------------------------------------------------------
(* Calls that set up and draw at once. *)
LEMMA RequestDraws ==
    ASSUME IInv, Idle, NEW ms \in Seq(Method), Emit(ms) \/ EmitAndKick(ms),
           LinesFrom(ms, scratch),
           NEW g \in HwState, NEW k \in HwState,
           Runs(hw, cmds, g), Known(g), Runs(g, ms, k),
           currentRop' \in RopValue, k["rop"] = currentRop',
           \A f \in {"surface", "format", "clip"} : k[f] = g[f],
           needSync' = TRUE, op' = NoOp,
           callback' \in {callback, TRUE},
           callback' \/ EmitAndKick(ms),
           UNCHANGED <<scratch, vtSema, remaining, pc>>
    PROVE  IInv' /\ Grows
<1>1. /\ cmds' \in Seq(Method) /\ Len(cmds') <= MaxCmds
      /\ kicked' \in 0..Len(cmds') /\ hw' = hw
      /\ EmitAndKick(ms) => Quiet(cmds', kicked')
      /\ LinesFrom(cmds', scratch)
      /\ Runs(hw', cmds', k)
  BY Written
<1>2. pc = "idle" /\ vtSema /\ op'.kind = "none"
  BY DEF Idle, NoOp
<1>3. TypeInv'
  <2>1. callback' \in BOOLEAN
    BY DEF IInv, TypeInv, TypeOK
  <2>2. TypeOK'
    BY <1>1, <1>2, <2>1 DEF IInv, TypeInv, TypeOK
  <2> QED BY <1>1, <1>2, <2>2 DEF IInv, TypeInv
<1>4. PlaceInv'
  BY <1>2 DEF PlaceInv, ImageSteps
<1>5. DrawInv'
  BY <1>1, <1>2 DEF DrawInv
<1>6. Known(k)'
  BY <1>2 DEF Known, Redirected
<1>7. EngineInv'
  BY <1>1, <1>6 DEF EngineInv
<1> QED BY <1>3, <1>4, <1>5, <1>7, GrowsByWriting DEF IInv

(* NVPutBlitImage leaves the surface format as it found it. *)
LEMMA PutBlitImageStep == ASSUME IInv, PutBlitImage PROVE IInv' /\ Grows
<1> DEFINE to == IF Depth15 THEN <<Set("format", "depth15")>> ELSE << >>
           color == <<Set("color", 0)>>
           draw == <<Draw(WantVideo)>>
           from == IF Depth15 THEN <<Set("format", "screen")>> ELSE << >>
           format == IF Depth15 THEN "depth15" ELSE "screen"
           ms == (to \o (color \o draw)) \o from
<1>1. /\ Idle /\ EmitAndKick(VideoMethods) /\ needSync' = TRUE /\ op' = NoOp
      /\ UNCHANGED <<scratch, currentRop, callback, vtSema, remaining, pc>>
  BY DEF PutBlitImage
<1>2. PICK g \in HwState : Runs(hw, cmds, g) /\ Known(g)
  BY <1>1 DEF IInv, EngineInv, Idle
<1>3. /\ g["format"] = "screen" /\ g["surface"] = "screen"
      /\ g["rop"] = currentRop /\ currentRop \in RopValue
  BY <1>1, <1>2 DEF Known, Redirected, Idle, IInv, TypeInv, TypeOK
<1>4. /\ WantVideo \in Wanted /\ WantVideo["line"] = DontCare
      /\ WantVideo["rop"] = DontCare /\ WantVideo["pattern"] = DontCare
      /\ WantVideo["color"] = 0 /\ WantVideo["surface"] = "screen"
      /\ WantVideo["format"] = format /\ WantVideo["clip"] = DontCare
  <2>1. /\ WantVideo["line"] = DontCare
        /\ WantVideo["rop"] = DontCare /\ WantVideo["pattern"] = DontCare
        /\ WantVideo["color"] = 0 /\ WantVideo["surface"] = "screen"
        /\ WantVideo["format"] = format /\ WantVideo["clip"] = DontCare
        /\ DOMAIN WantVideo = Field \cup {"line"}
        /\ WantVideo = [f \in DOMAIN WantVideo |-> WantVideo[f]]
    BY DEF WantVideo, Field
  <2>2. {DontCare, 0, "screen", format} \subseteq Value
    BY FieldFacts
  <2>3. \A f \in Field \cup {"line"} : WantVideo[f] \in Value
    BY <2>1, <2>2, FieldFacts
  <2> QED BY <2>1, <2>3 DEF Wanted
<1>5. /\ "format" \in Field /\ "color" \in Field
      /\ {"depth15", "screen", 0} \subseteq Value
      /\ {"rop", "surface", "clip"} \subseteq (Field \ {"format"}) \cap (Field \ {"color"})
  BY FieldFacts
<1>6. /\ Set("format", "depth15") \in Method /\ Set("format", "screen") \in Method
      /\ Set("color", 0) \in Method
      /\ Draw(WantVideo) \in Method /\ Draw(WantVideo).want = WantVideo
      /\ ~IsDraw(Set("format", "depth15")) /\ ~IsDraw(Set("format", "screen"))
      /\ ~IsDraw(Set("color", 0))
  BY <1>4, <1>5, MethodFacts
<1>7. PICK a \in HwState : /\ to \in Seq(Method) /\ NoDraws(to) /\ Runs(g, to, a)
                           /\ a["format"] = format
                           /\ \A f \in Field \ {"format"} : a[f] = g[f]
  <2>1. CASE Depth15
    <3>1. to \in Seq(Method) /\ NoDraws(to)
      BY <1>6, <2>1, Singles DEF NoDraws
    <3>2. Runs(g, <<Set("format", "depth15")>>, ApplyTo(Set("format", "depth15"), g))
      BY <1>6, RunsOne
    <3> QED BY <1>5, <2>1, <3>1, <3>2, ApplySet
  <2>2. CASE ~Depth15
    BY <1>3, <2>2, Singles, RunsNone DEF NoDraws
  <2> QED BY <2>1, <2>2
<1>8. PICK b \in HwState : /\ color \in Seq(Method) /\ NoDraws(color) /\ Runs(a, color, b)
                           /\ b["color"] = 0
                           /\ \A f \in Field \ {"color"} : b[f] = a[f]
  <2>1. color \in Seq(Method) /\ NoDraws(color)
    BY <1>6, Singles DEF NoDraws
  <2> QED BY <1>5, <1>6, <2>1, RunsOne, ApplySet
<1>9. Suits(WantVideo, b)
  <2>1. b["surface"] = "screen" /\ b["format"] = format
    BY <1>3, <1>5, <1>7, <1>8
  <2> QED BY <1>4, <1>8, <2>1, FieldFacts DEF Suits
<1>10. draw \in Seq(Method) /\ LinesFrom(draw, scratch) /\ Runs(b, draw, b)
  <2>1. ApplyTo(Draw(WantVideo), b) = b
    BY DEF ApplyTo, Draw
  <2>2. draw \in Seq(Method) /\ LinesFrom(draw, scratch)
    BY <1>4, <1>6, Singles DEF LinesFrom
  <2> QED BY <1>6, <1>9, <2>1, <2>2, RunsOne
<1>11. PICK k \in HwState : /\ from \in Seq(Method) /\ NoDraws(from) /\ Runs(b, from, k)
                            /\ k["format"] = "screen"
                            /\ \A f \in Field \ {"format"} : k[f] = b[f]
  <2>1. CASE Depth15
    <3>1. from \in Seq(Method) /\ NoDraws(from)
      BY <1>6, <2>1, Singles DEF NoDraws
    <3>2. Runs(b, <<Set("format", "screen")>>, ApplyTo(Set("format", "screen"), b))
      BY <1>6, RunsOne
    <3> QED BY <1>5, <2>1, <3>1, <3>2, ApplySet
  <2>2. CASE ~Depth15
    <3>1. b["format"] = "screen"
      BY <1>5, <1>7, <1>8, <2>2, FieldFacts
    <3> QED BY <2>2, <3>1, Singles, RunsNone DEF NoDraws
  <2> QED BY <2>1, <2>2
<1>12. VideoMethods = ms
  <2>1. <<Set("color", 0), Draw(WantVideo)>> = color \o draw
    BY <1>6, Singles
  <2> QED BY <2>1 DEF VideoMethods
<1>13. k["rop"] = currentRop /\ \A f \in {"surface", "format", "clip"} : k[f] = g[f]
  BY <1>3, <1>5, <1>7, <1>8, <1>11
<1> HIDE DEF to, color, draw, from, format
<1>14. /\ color \o draw \in Seq(Method) /\ LinesFrom(color \o draw, scratch)
       /\ Runs(a, color \o draw, b)
  BY <1>8, <1>10, ConcatFacts, LinesConcat, RunsConcat, NoDrawsLines
<1>15. /\ to \o (color \o draw) \in Seq(Method)
       /\ LinesFrom(to \o (color \o draw), scratch)
       /\ Runs(g, to \o (color \o draw), b)
  BY <1>7, <1>14, ConcatFacts, LinesConcat, RunsConcat, NoDrawsLines
<1>16. ms \in Seq(Method) /\ LinesFrom(ms, scratch) /\ Runs(g, ms, k)
  BY <1>11, <1>15, ConcatFacts, LinesConcat, RunsConcat, NoDrawsLines
<1> HIDE DEF ms
<1> QED BY <1>1, <1>2, <1>3, <1>12, <1>13, <1>16, RequestDraws

(* Drawing for DGA: its setup and its area in one entry point.             *)
LEMMA DGADrawStep ==
    ASSUME IInv, NEW color, NEW more,
           \/ more = << >> /\ color = DontCare
           \/ color \in Colors /\ more = <<Set("color", color)>>,
           DGADraw(WantSolid(GXcopy, Ones, color), more)
    PROVE  IInv' /\ Grows
<1> DEFINE rs == RopSolidMethods(GXcopy, Ones)
           want == WantSolid(GXcopy, Ones, color)
           rop == Rop("solid", GXcopy)
           ms == (rs \o more) \o <<Draw(want)>>
<1>1. /\ Idle
      /\ Emit(ms) \/ EmitAndKick(ms)
      /\ currentRop' = rop
      /\ callback' = TRUE /\ needSync' = TRUE /\ op' = NoOp
      /\ UNCHANGED <<scratch, vtSema, remaining, pc>>
  BY DEF DGADraw, EmitArea
<1>2. PICK g \in HwState : Runs(hw, cmds, g) /\ Known(g)
  BY <1>1 DEF IInv, EngineInv, Idle
<1>3. /\ g["format"] = "screen" /\ g["surface"] = "screen"
      /\ g["rop"] = currentRop /\ currentRop \in RopValue
  BY <1>1, <1>2 DEF Known, Redirected, Idle, IInv, TypeInv, TypeOK
<1>4. /\ GXcopy \in Rops /\ Ones \in Planemasks \cup {Ones}
      /\ rop = RopSolid(GXcopy, Ones) /\ rop \in RopValue /\ rop \in Value
  BY AccelAssumption, FieldFacts DEF RopSolid, Rop, RopValue
<1>5. /\ rs \in Seq(Method) /\ NoDraws(rs)
      /\ \E a \in HwState : /\ Runs(g, rs, a) /\ a["rop"] = rop
                            /\ \A f \in {"color", "surface", "format", "clip"} : a[f] = g[f]
  BY <1>3, <1>4, RopSolidRun
<1>6. PICK a \in HwState : /\ Runs(g, rs, a) /\ a["rop"] = rop
                           /\ \A f \in {"color", "surface", "format", "clip"} : a[f] = g[f]
  BY <1>5
<1>7. /\ want \in Wanted
      /\ want["rop"] = rop /\ want["pattern"] = DontCare /\ want["color"] = color
      /\ want["surface"] = "screen" /\ want["format"] = "screen"
      /\ want["clip"] = DontCare /\ want["line"] = DontCare
  <2>1. rop \in Value /\ color \in Value /\ DontCare \in Value
    BY <1>4 DEF Value
  <2>2. want = Want(rop, DontCare, color)
    BY <1>4 DEF WantSolid
  <2> QED BY <2>1, <2>2, WantFacts
<1> HIDE DEF rs, want, rop
<1> DEFINE rm == rs \o more
<1>8. /\ rm \in Seq(Method) /\ NoDraws(rm)
      /\ \E b \in HwState : /\ Runs(g, rm, b)
                            /\ color # DontCare => b["color"] = color
                            /\ \A f \in Field \ {"color"} : b[f] = a[f]
  <2>1. CASE more = << >> /\ color = DontCare
    <3>1. rm = rs
      BY <1>5, <2>1, ConcatEmptySeq
    <3> QED BY <1>5, <1>6, <2>1, <3>1
  <2>2. CASE color \in Colors /\ more = <<Set("color", color)>>
    <3>1. "color" \in Field /\ color \in Value
      BY <2>2 DEF Field, Value
    <3> QED BY <1>5, <1>6, <2>2, <3>1, SetLast
  <2> QED BY <2>1, <2>2
<1>9. PICK b \in HwState : /\ Runs(g, rm, b)
                           /\ color # DontCare => b["color"] = color
                           /\ \A f \in Field \ {"color"} : b[f] = a[f]
  BY <1>8
<1>10. /\ b["rop"] = rop
       /\ \A f \in {"surface", "format", "clip"} : b[f] = g[f]
  BY <1>6, <1>9, FieldFacts
<1>11. Suits(want, b)
  BY <1>3, <1>7, <1>9, <1>10, FieldFacts DEF Suits
<1> HIDE DEF rm
<1>12. Draw(want) \in Method /\ Draw(want).want = want
  BY <1>7, MethodFacts
<1>13. <<Draw(want)>> \in Seq(Method) /\ LinesFrom(<<Draw(want)>>, scratch)
  BY <1>7, <1>12, Singles DEF LinesFrom
<1>14. rm \o <<Draw(want)>> \in Seq(Method) /\ Runs(g, rm \o <<Draw(want)>>, b)
  BY <1>7, <1>8, <1>9, <1>11, DrawLast
<1>15. LinesFrom(rm \o <<Draw(want)>>, scratch)
  BY <1>8, <1>13, LinesConcat, NoDrawsLines
<1>16. ms = rm \o <<Draw(want)>>
  BY DEF rm
<1>17. ms \in Seq(Method) /\ LinesFrom(ms, scratch) /\ Runs(g, ms, b)
  BY <1>14, <1>15, <1>16
<1> HIDE DEF ms
<1> QED BY <1>1, <1>2, <1>4, <1>10, <1>17, RequestDraws

-----------------------------------------------------------------------------

(* Nothing changes.                                                        *)
LEMMA StutterStep == ASSUME IInv, UNCHANGED vars PROVE IInv'
<1>1. UNCHANGED <<cmds, kicked, hw, scratch, currentRop, callback, needSync,
                  vtSema, op, remaining, pc>>
  BY DEF vars, driverVars
<1>2. TypeInv'
  BY <1>1 DEF IInv, TypeInv, TypeOK
<1>3. PlaceInv' /\ DrawInv'
  BY <1>1 DEF IInv, PlaceInv, DrawInv
<1>4. EngineInv'
  BY <1>1, EngineKept DEF Redirected
<1> QED BY <1>2, <1>3, <1>4 DEF IInv

(* All the requests.                                                       *)
LEMMA RequestSteps == ASSUME IInv, Request PROVE IInv'
<1>1. CASE Setup
  BY <1>1, SetupSteps
<1>2. CASE Subsequent
  <2>1. ASSUME NEW h \in 1..MaxLines, SubsequentImageWriteRect(h)
        PROVE  IInv'
    BY <2>1, SyncSteps DEF SubsequentImageWriteRect
  <2> QED BY <1>2, <2>1, SubsequentAreaStep, SubsequentLineStep,
             SubsequentClippedLineStep, ColorExpandStep DEF Subsequent
<1>3. CASE CpuAccess
  BY <1>3, CpuAccessStep
<1>4. CASE PutBlitImage
  BY <1>4, PutBlitImageStep
<1>5. CASE (\E color \in Colors : DGAFillRect(color)) \/ DGABlitRect
  BY <1>5, DGADrawStep DEF DGAFillRect, DGABlitRect
<1>6. CASE SwitchMode \/ LeaveVT
  BY <1>6, SyncSteps DEF SwitchMode, LeaveVT
<1>7. CASE EnterVT
  BY <1>7, ModeInitSteps
<1> QED BY <1>1, <1>2, <1>3, <1>4, <1>5, <1>6, <1>7 DEF Request

(* Every step preserves the invariant.                                     *)
LEMMA NextIInv == IInv /\ [Next]_vars => IInv'
<1> SUFFICES ASSUME IInv, [Next]_vars PROVE IInv'
  OBVIOUS
<1>1. CASE Continue
  BY <1>1, ColorExpandScanlineStep, CpuStartStep, CpuDoneStep, ImageRedirectStep,
     StoreLineStep, ImageWriteScanlineStep, ImageNextLineStep, ModeInitSteps,
     LeaveVTDoneStep DEF Continue
<1> QED BY <1>1, RequestSteps, BlockHandlerStep, DmaWaitStep, ExecuteStep,
           StutterStep DEF Next

(* The invariant holds in every reachable state. *)
THEOREM Inductive == Spec => []IInv
BY InitIInv, NextIInv, PTL DEF Spec

-----------------------------------------------------------------------------
(* No entry point is ever reached with a count of scanlines, a pending Setup or
   a raster operation it does not expect. *)
THEOREM TypeCorrect == Spec => []TypeOK
BY Inductive, PTL DEF IInv, TypeInv

(* Every drawing command executes with the state its caller asked for, however
   long after it was written and whatever was written in between. *)
THEOREM DrawnRight == Spec => []DrawnAsIntended
<1>1. IInv => DrawnAsIntended
  <2> SUFFICES ASSUME IInv, kicked > 0, IsDraw(Head(cmds))
               PROVE  /\ Suits(Head(cmds).want, hw)
                      /\ \/ Head(cmds).want.line = DontCare
                         \/ Head(cmds).want.line = scratch
    BY DEF DrawnAsIntended, Suits
  <2>1. /\ cmds \in Seq(Method) /\ Len(cmds) \in Nat /\ Len(cmds) > 0
        /\ hw \in HwState /\ vtSema
    BY ConcatFacts DEF IInv, TypeInv, TypeOK, PlaceInv
  <2>2. Head(cmds) = cmds[1] /\ 1 \in 1..Len(cmds)
    BY <2>1
  <2>3. PICK g \in HwState : Runs(hw, cmds, g)
    BY <2>1 DEF IInv, EngineInv
  <2>4. Suits(cmds[1].want, hw)
    BY <2>1, <2>2, <2>3, RunsTail
  <2>5. cmds[1].want["line"] \in {DontCare, scratch}
    BY <2>2 DEF IInv, DrawInv, LinesFrom
  <2> QED BY <2>2, <2>4, <2>5
<1> QED BY <1>1, Inductive, PTL

(* Whenever the CPU may touch the framebuffer, everything drawn has been
   executed. *)
THEOREM CpuSafe == Spec => []CpuSeesDrawing
<1>1. IInv => CpuSeesDrawing
  BY DEF IInv, DrawInv, CpuSeesDrawing
<1> QED BY <1>1, Inductive, PTL

(* Drawing left unpublished has the callback armed, and the console is left
   alone. *)
THEOREM KickedOrArmed == Spec => []KickedInTime
<1>1. IInv => KickedInTime
  <2> SUFFICES ASSUME IInv PROVE ArmedOrKicked /\ AwayIsQuiet
    BY DEF KickedInTime
  <2>1. cmds \in Seq(Method) /\ kicked \in 0..Len(cmds)
    BY DEF IInv, TypeInv, TypeOK
  <2>2. NoDraws(Unpublished) <=> Quiet(cmds, kicked)
    BY <2>1, QuietUnpublished DEF Unpublished
  <2> QED BY <2>2 DEF IInv, DrawInv, PlaceInv, ArmedOrKicked, AwayIsQuiet
<1> QED BY <1>1, Inductive, PTL

(* Only where nothing outstanding draws is anything taken out of the ring that
   the engine has not executed. *)
LEMMA NothingTakenBack ==
    ASSUME IInv, [Next]_vars
    PROVE  NoDraws(cmds) \/ cmds' = cmds \/ cmds' = Tail(cmds) \/ Grows
<1>1. CASE Request
  <2>1. CASE Setup
    BY <2>1, SetupSteps
  <2>2. CASE Subsequent
    <3>1. CASE SubsequentArea \/ SubsequentLine \/ SubsequentClippedLine
      BY <3>1, SubsequentAreaStep, SubsequentLineStep, SubsequentClippedLineStep
    <3>2. ASSUME NEW h \in 1..MaxLines, SubsequentColorExpand(h)
          PROVE  Grows
      BY <3>2, ColorExpandStep
    <3>3. ASSUME NEW h \in 1..MaxLines, SubsequentImageWriteRect(h)
          PROVE  cmds' = cmds
      BY <3>3 DEF SubsequentImageWriteRect, SyncTo
    <3> QED BY <2>2, <3>1, <3>2, <3>3 DEF Subsequent
  <2>3. CASE CpuAccess \/ SwitchMode \/ LeaveVT
    BY <2>3 DEF CpuAccess, SwitchMode, LeaveVT, SyncTo
  <2>4. CASE PutBlitImage
    BY <2>4, PutBlitImageStep
  <2>5. CASE (\E color \in Colors : DGAFillRect(color)) \/ DGABlitRect
    BY <2>5, DGADrawStep DEF DGAFillRect, DGABlitRect
  <2>6. CASE EnterVT
    <3>1. ~vtSema
      BY <2>6 DEF EnterVT
    <3>2. pc = "idle" /\ kicked = 0 /\ ~callback
      BY <2>6, <3>1 DEF EnterVT, IInv, PlaceInv
    <3> QED BY <3>1, <3>2, QuietAll DEF IInv, DrawInv, TypeInv
  <2> QED BY <1>1, <2>1, <2>2, <2>3, <2>4, <2>5, <2>6 DEF Request
<1>2. CASE Continue
  <2>1. CASE SubsequentColorExpandScanline \/ ImageRedirect
             \/ SubsequentImageWriteScanline
    BY <2>1, ColorExpandScanlineStep, ImageRedirectStep, ImageWriteScanlineStep
  <2>2. CASE CpuStart \/ CpuDone \/ StoreLine \/ ImageNextLine \/ LeaveVTDone
    BY <2>2 DEF CpuStart, CpuDone, StoreLine, ImageNextLine, LeaveVTDone
  <2>3. CASE SwitchModeDone
    BY <2>3, SyncedFacts DEF SwitchModeDone
  <2> QED BY <1>2, <2>1, <2>2, <2>3 DEF Continue
<1>3. CASE BlockHandler \/ DmaWait \/ Execute
  BY <1>3 DEF BlockHandler, DmaWait, Execute
<1>4. CASE UNCHANGED vars
  BY <1>4 DEF vars
<1> QED BY <1>1, <1>2, <1>3, <1>4 DEF Next

(* No drawing is dropped: what a mode or VT switch throws away, or leaves in
   the ring, does not draw. *)
THEOREM DrawingKept == Spec => NoDrawLost
<1>1. ASSUME IInv, [Next]_vars
      PROVE  NoDraws(cmds) \/ cmds' = Tail(cmds) \/ IsPrefix(cmds, cmds')
  <2>1. cmds \in Seq(Method) /\ Len(cmds) \in Nat
    BY <1>1, ConcatFacts DEF IInv, TypeInv
  <2>2. cmds' = cmds => IsPrefix(cmds, cmds')
    BY <2>1 DEF IsPrefix
  <2>3. ASSUME NEW ms \in Seq(Method), cmds' = cmds \o ms
        PROVE  IsPrefix(cmds, cmds')
    <3>1. Len(cmds') = Len(cmds) + Len(ms) /\ Len(ms) \in Nat
      BY <2>1, <2>3, ConcatFacts
    <3>2. SubSeq(cmds, 1, Len(cmds)) = SubSeq(cmds', 1, Len(cmds))
      <4>1. CASE Len(cmds) = 0
        BY <4>1, SubSeqEmpty
      <4>2. CASE Len(cmds) > 0
        BY <2>1, <2>3, <4>2, SubSeqOfConcat1
      <4> QED BY <2>1, <4>1, <4>2
    <3> QED BY <2>1, <3>1, <3>2 DEF IsPrefix
  <2> QED BY <1>1, <2>2, <2>3, NothingTakenBack DEF Grows
<1> QED BY <1>1, Inductive, PTL DEF Spec, NoDrawLost
=============================================================================
