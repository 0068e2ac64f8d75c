------------------------- MODULE EventLoop_proofs --------------------------
(***************************************************************************)
(* Proofs about the event loop: that it neither sleeps nor ends with work  *)
(* left, and that rejections are reported as they should be, for any       *)
(* promises and any number of calls.                                       *)
(***************************************************************************)
EXTENDS EventLoop, SequenceTheorems, TLAPS

(***************************************************************************)
(* The stack.  What calls what, and from where in the loop.                *)
(***************************************************************************)
Above ==
  {<<"handler", "free">>, <<"drain", "free">>,
   <<"drain", "job">>, <<"job", "drain">>, <<"job", "jsdrain">>,
   <<"listener", "rejection">>, <<"listener", "error">>, <<"listener", "unload">>,
   <<"error", "fatal">>, <<"error", "break">>,
   <<"fatal", "drain">>, <<"break", "drain">>, <<"break", "jsdrain">>}
  \cup {<<"jsdrain", f>> : f \in {"main", "handler", "job", "listener", "rejection",
                                  "error", "unload"}}

\* The outermost function, by the place of the loop.
Bottom(place) ==
  CASE place = "eval"   -> "main"
    [] place = "reject" -> "drain"
    [] place = "walk"   -> "rejection"
    [] place = "unload" -> "unload"
    [] place \in {"early", "poll", "closing", "timers"} -> "free"
    [] OTHER -> "nothing"

Chain(s) == \A i \in DOMAIN s : i + 1 \in DOMAIN s => <<s[i], s[i + 1]>> \in Above

Stacked ==
  /\ Chain(stk)
  /\ stk # <<>> => stk[Len(stk)] = Bottom(pc)

\* What is left to do, where it matters.
Waits ==
  /\ pending # <<>> => idle
  /\ pc = "poll" /\ ~polled => stk = <<>> /\ (idle \/ jobs = 0)
  /\ stopSent \/ stopFlag => stopping
  /\ NothingLeft

\* Jobs were run before the walk goes on, but those that it queued itself.
Settled ==
  /\ (stk = <<>> /\ pc \in {"reject", "walk"}) \/ Top = "rejection" => jobs <= reaped \/ threw
  /\ On("break") => threw

\* The invariant of the stack and of the loop.
IInv == TypeOK /\ Stacked /\ Settled /\ Waits
----------------------------------------------------------------------------
(* Stacks.                                                                 *)

\* What is left when the innermost function ends.
LEMMA ChainTail ==
  ASSUME NEW s \in Seq(Frames), s # <<>>, Chain(s)
  PROVE  /\ Head(s) \in Frames /\ Tail(s) \in Seq(Frames) /\ Chain(Tail(s))
         /\ Tail(s) # <<>> => /\ <<Head(s), Head(Tail(s))>> \in Above
                              /\ Tail(s)[Len(Tail(s))] = s[Len(s)]
         /\ Tail(s) = <<>> => s[Len(s)] = Head(s)
         /\ \A i \in DOMAIN Tail(s) : i + 1 \in DOMAIN s /\ s[i + 1] = Tail(s)[i]
<1> DEFINE r == Tail(s)
<1>1. Len(s) \in Nat \ {0} /\ DOMAIN s = 1 .. Len(s) /\ Head(s) = s[1]
  BY EmptySeq, LenProperties
<1>2. /\ Head(s) \in Frames /\ r \in Seq(Frames) /\ Len(r) = Len(s) - 1
      /\ \A i \in 1 .. Len(s) - 1 : r[i] = s[i + 1]
  BY HeadTailProperties
<1>3. DOMAIN r = 1 .. Len(s) - 1
  BY <1>2, LenProperties
<1> HIDE DEF r
<1>4. \A i \in DOMAIN r : i + 1 \in DOMAIN s /\ r[i] = s[i + 1]
  BY <1>1, <1>2, <1>3
<1>5. Chain(r)
  <2> SUFFICES ASSUME NEW i \in DOMAIN r, i + 1 \in DOMAIN r
               PROVE  <<r[i], r[i + 1]>> \in Above
    BY DEF Chain
  <2>1. <<s[i + 1], s[i + 1 + 1]>> \in Above
    BY <1>4 DEF Chain
  <2> QED
    BY <1>4, <2>1
<1>6. ASSUME r # <<>> PROVE <<Head(s), Head(r)>> \in Above /\ r[Len(r)] = s[Len(s)]
  <2>1. Len(r) \in Nat \ {0} /\ Head(r) = r[1]
    BY <1>2, <1>6, EmptySeq
  <2>2. Head(r) = s[2] /\ 1 \in DOMAIN s /\ 1 + 1 \in DOMAIN s
    BY <1>1, <1>2, <2>1
  <2>3. <<s[1], s[1 + 1]>> \in Above
    BY <2>2 DEF Chain
  <2>4. r[Len(r)] = s[Len(r) + 1] /\ Len(r) + 1 = Len(s)
    BY <1>1, <1>2, <2>1
  <2> QED
    BY <1>1, <2>2, <2>3, <2>4
<1>7. ASSUME r = <<>> PROVE s[Len(s)] = Head(s)
  <2>1. Len(s) = 1
    <3>1. Len(r) = 0
      BY <1>7, EmptySeq
    <3>2. Len(s) - 1 = 0
      BY <1>2, <3>1
    <3>3. Len(s) \in Nat
      BY <1>1
    <3> QED
      BY <3>2, <3>3
  <2> QED
    BY <1>1, <2>1
<1> QED
  BY <1>2, <1>4, <1>5, <1>6, <1>7 DEF r

\* A call.
LEMMA ChainPush ==
  ASSUME NEW s \in Seq(Frames), Chain(s), NEW f \in Frames,
         s # <<>> => <<f, Head(s)>> \in Above
  PROVE  /\ <<f>> \o s \in Seq(Frames) /\ <<f>> \o s # <<>> /\ Chain(<<f>> \o s)
         /\ Head(<<f>> \o s) = f
         /\ (<<f>> \o s)[Len(<<f>> \o s)] = IF s = <<>> THEN f ELSE s[Len(s)]
         /\ \A i \in DOMAIN (<<f>> \o s) :
              (<<f>> \o s)[i] = f \/ (i - 1 \in DOMAIN s /\ (<<f>> \o s)[i] = s[i - 1])
<1> DEFINE r == <<f>> \o s
<1>0. <<f>> \in Seq(Frames) /\ Len(<<f>>) = 1 /\ <<f>>[1] = f
  OBVIOUS
<1>1. /\ r \in Seq(Frames) /\ Len(r) = 1 + Len(s)
      /\ \A i \in 1 .. 1 + Len(s) : r[i] = IF i <= 1 THEN <<f>>[i] ELSE s[i - 1]
  BY <1>0, ConcatProperties
<1>2. Len(s) \in Nat /\ DOMAIN s = 1 .. Len(s) /\ DOMAIN r = 1 .. 1 + Len(s)
  BY <1>1, LenProperties
<1> HIDE DEF r
<1>3. /\ r[1] = f /\ r # <<>> /\ Head(r) = f
      /\ \A i \in DOMAIN s : i + 1 \in DOMAIN r /\ r[i + 1] = s[i]
      /\ \A i \in DOMAIN r : i = 1 \/ (i - 1 \in DOMAIN s /\ r[i] = s[i - 1])
  BY <1>0, <1>1, <1>2
<1>4. Chain(r)
  <2> SUFFICES ASSUME NEW i \in DOMAIN r, i + 1 \in DOMAIN r
               PROVE  <<r[i], r[i + 1]>> \in Above
    BY DEF Chain
  <2>1. CASE i = 1
    <3>1. i + 1 = 2 /\ 1 \in DOMAIN s /\ s # <<>>
      BY <1>2, <2>1
    <3>2. Head(s) = s[1] /\ r[2] = s[1]
      BY <1>2, <1>3, <3>1
    <3> QED
      BY <1>3, <2>1, <3>1, <3>2
  <2>2. CASE i # 1
    <3>1. i - 1 \in DOMAIN s /\ (i - 1) + 1 \in DOMAIN s
      BY <1>2, <2>2
    <3>2. r[i] = s[i - 1] /\ r[i + 1] = s[(i - 1) + 1]
      BY <1>1, <1>2, <2>2
    <3> QED
      BY <3>1, <3>2 DEF Chain
  <2> QED
    BY <2>1, <2>2
<1>5. r[Len(r)] = IF s = <<>> THEN f ELSE s[Len(s)]
  <2>1. CASE s = <<>>
    BY <1>1, <1>3, <2>1
  <2>2. CASE s # <<>>
    <3>1. Len(s) \in DOMAIN s
      BY <1>2, <2>2, EmptySeq
    <3> QED
      BY <1>1, <1>2, <1>3, <2>2, <3>1
  <2> QED
    BY <2>1, <2>2
<1> QED
  BY <1>1, <1>3, <1>4, <1>5 DEF r

\* Several calls.
LEMMA PushTwo ==
  ASSUME NEW s \in Seq(Frames), NEW f \in Frames, NEW g \in Frames
  PROVE  <<f, g>> \o s = <<f>> \o (<<g>> \o s)
<1>1. <<f>> \in Seq(Frames) /\ <<g>> \in Seq(Frames) /\ <<f, g>> \in Seq(Frames)
  OBVIOUS
<1>a. <<f, g>> = <<f>> \o <<g>>
  <2>1. /\ <<f>> \o <<g>> \in Seq(Frames) /\ Len(<<f>> \o <<g>>) = 2
        /\ (<<f>> \o <<g>>)[1] = f /\ (<<f>> \o <<g>>)[2] = g
    <3> DEFINE r == <<f>> \o <<g>>
    <3>1. /\ r \in Seq(Frames) /\ Len(r) = Len(<<f>>) + Len(<<g>>)
          /\ \A i \in 1 .. Len(<<f>>) + Len(<<g>>) :
               r[i] = IF i <= Len(<<f>>) THEN <<f>>[i] ELSE <<g>>[i - Len(<<f>>)]
      BY <1>1, ConcatProperties
    <3>2. Len(<<f>>) = 1 /\ Len(<<g>>) = 1 /\ <<f>>[1] = f /\ <<g>>[1] = g
      OBVIOUS
    <3> HIDE DEF r
    <3>3. Len(r) = 2 /\ r[1] = <<f>>[1] /\ r[2] = <<g>>[1]
      BY <3>1, <3>2
    <3> QED
      BY <3>1, <3>2, <3>3 DEF r
  <2>2. /\ Len(<<f, g>>) = 2 /\ <<f, g>>[1] = f /\ <<f, g>>[2] = g
        /\ 1 .. 2 = {1, 2}
    OBVIOUS
  <2> QED
    BY <1>1, <2>1, <2>2, SeqEqual
<1>2. (<<f>> \o <<g>>) \o s = <<f>> \o (<<g>> \o s)
  BY <1>1, ConcatAssociative
<1> QED
  BY <1>a, <1>2

----------------------------------------------------------------------------
(* The list.                                                               *)

Unique(s) == \A i, j \in DOMAIN s : s[i] = s[j] => i = j
Members(s) == {s[i] : i \in DOMAIN s}

\* Unlinking.
LEMMA WithoutIt ==
  ASSUME NEW s \in Seq(Promises), NEW p
  PROVE  /\ Without(s, p) \in Seq(Promises)
         /\ s = <<>> => Without(s, p) = <<>>
         /\ Unique(s) => /\ Unique(Without(s, p))
                         /\ Members(Without(s, p)) = Members(s) \ {p}
<1> DEFINE at == {k \in DOMAIN s : s[k] = p /\ \A i \in 1..(k - 1) : s[i] # p}
           r == [i \in 1..(Len(s) - 1) |-> IF \A k \in at : i < k THEN s[i] ELSE s[i + 1]]
<1>1. Len(s) \in Nat /\ DOMAIN s = 1 .. Len(s) /\ s \in [1 .. Len(s) -> Promises]
  BY LenProperties
<1>2. Without(s, p) = IF at = {} THEN s ELSE r
  BY DEF Without
<1>3. s = <<>> => at = {}
  OBVIOUS
<1>4. ASSUME NEW k \in at
      PROVE  /\ r \in Seq(Promises)
             /\ Unique(s) => Unique(r) /\ Members(r) = Members(s) \ {p}
  <2>1. k \in 1 .. Len(s) /\ s[k] = p
    BY <1>1
  <2>2. \A j \in at : j = k
    <3> SUFFICES ASSUME NEW j \in at, j # k PROVE FALSE
      OBVIOUS
    <3>1. j \in 1 .. Len(s) /\ s[j] = p
      BY <1>1
    <3>2. j < k \/ k < j
      BY <2>1, <3>1
    <3>3. j < k => j \in 1 .. k - 1
      BY <2>1, <3>1
    <3>4. k < j => k \in 1 .. j - 1
      BY <2>1, <3>1
    <3> QED
      BY <2>1, <3>1, <3>2, <3>3, <3>4
  <2>3. r = [i \in 1 .. Len(s) - 1 |-> IF i < k THEN s[i] ELSE s[i + 1]]
    BY <2>2
  <2> HIDE DEF at, r
  <2>4. Len(s) - 1 \in Nat /\ DOMAIN r = 1 .. Len(s) - 1
    BY <1>1, <2>1, <2>3
  <2>5. \A i \in DOMAIN r : r[i] \in Promises
    BY <1>1, <2>1, <2>3, <2>4
  <2>6. r \in [1 .. Len(s) - 1 -> Promises]
    BY <2>3, <2>4, <2>5
  <2>7. r \in Seq(Promises)
    BY <2>4, <2>6, SeqDef
  <2>8. ASSUME Unique(s) PROVE Unique(r) /\ Members(r) = Members(s) \ {p}
    <3>1. \A i \in DOMAIN r :
            /\ i < k => i \in DOMAIN s /\ i # k /\ r[i] = s[i]
            /\ ~(i < k) => i + 1 \in DOMAIN s /\ i + 1 # k /\ r[i] = s[i + 1]
      BY <1>1, <2>1, <2>3, <2>4
    <3>2. Unique(r)
      <4> SUFFICES ASSUME NEW i \in DOMAIN r, NEW j \in DOMAIN r, r[i] = r[j] PROVE i = j
        BY DEF Unique
      <4> i \in Nat /\ j \in Nat /\ k \in Nat
        BY <2>1, <2>4
      <4>1. CASE i < k /\ j < k
        BY <2>8, <3>1, <4>1 DEF Unique
      <4>2. CASE i < k /\ ~(j < k)
        <5>1. i = j + 1
          BY <2>8, <3>1, <4>2 DEF Unique
        <5> QED
          BY <4>2, <5>1
      <4>3. CASE ~(i < k) /\ j < k
        <5>1. i + 1 = j
          BY <2>8, <3>1, <4>3 DEF Unique
        <5> QED
          BY <4>3, <5>1
      <4>4. CASE ~(i < k) /\ ~(j < k)
        <5>1. i + 1 = j + 1
          BY <2>8, <3>1, <4>4 DEF Unique
        <5> QED
          BY <5>1
      <4> QED
        BY <4>1, <4>2, <4>3, <4>4
    <3>3. \A i \in DOMAIN r : r[i] \in Members(s) /\ r[i] # p
      <4> SUFFICES ASSUME NEW i \in DOMAIN r PROVE r[i] \in Members(s) /\ r[i] # p
        OBVIOUS
      <4>1. PICK m \in DOMAIN s : m # k /\ r[i] = s[m]
        BY <3>1
      <4>2. s[m] # s[k]
        BY <1>1, <2>1, <2>8, <4>1 DEF Unique
      <4> QED
        BY <2>1, <4>1, <4>2 DEF Members
    <3>4. \A m \in DOMAIN s : s[m] # p => \E i \in DOMAIN r : r[i] = s[m]
      <4> SUFFICES ASSUME NEW m \in DOMAIN s, s[m] # p PROVE \E i \in DOMAIN r : r[i] = s[m]
        OBVIOUS
      <4>1. m # k /\ m \in 1 .. Len(s)
        BY <1>1, <2>1
      <4>2. CASE m < k
        <5>1. m \in DOMAIN r /\ r[m] = s[m]
          BY <2>1, <2>3, <2>4, <4>1, <4>2
        <5> QED
          BY <5>1
      <4>3. CASE ~(m < k)
        <5>1. m - 1 \in DOMAIN r /\ r[m - 1] = s[m]
          BY <2>1, <2>3, <2>4, <4>1, <4>3
        <5> QED
          BY <5>1
      <4> QED
        BY <4>2, <4>3
    <3>5. Members(r) = Members(s) \ {p}
      BY <3>3, <3>4 DEF Members
    <3> QED
      BY <3>2, <3>5
  <2> QED
    BY <2>7, <2>8
<1>5. CASE at = {}
  <2>1. Unique(s) => \A i \in DOMAIN s : s[i] # p
    <3> SUFFICES ASSUME Unique(s), NEW i \in DOMAIN s, s[i] = p PROVE FALSE
      OBVIOUS
    <3>1. \A j \in 1 .. i - 1 : j \in DOMAIN s /\ j # i
      BY <1>1
    <3>2. \A j \in 1 .. i - 1 : s[j] # p
      BY <3>1 DEF Unique
    <3>3. i \in at
      BY <3>2
    <3> QED
      BY <1>5, <3>3
  <2> QED
    BY <1>2, <1>5, <2>1 DEF Members
<1>6. CASE at # {}
  <2>1. PICK k : k \in at
    BY <1>6
  <2> QED
    BY <1>2, <1>3, <1>4, <1>6, <2>1
<1> QED
  BY <1>5, <1>6

----------------------------------------------------------------------------
(* What steps do to the stack.                                             *)

\* The bottom of a stack and what may be on top of it.
LEMMA TopOf ==
  ASSUME TypeOK, Stacked, stk # <<>>
  PROVE  /\ Top = Head(stk) /\ Top \in Frames /\ Tail(stk) \in Seq(Frames)
         /\ Chain(Tail(stk))
         /\ Tail(stk) # <<>> => /\ <<Top, Head(Tail(stk))>> \in Above
                                /\ Tail(stk)[Len(Tail(stk))] = Bottom(pc)
         /\ Tail(stk) = <<>> => Top = Bottom(pc)
         /\ \A f : (\E i \in DOMAIN Tail(stk) : Tail(stk)[i] = f) => On(f)
<1>1. stk \in Seq(Frames) /\ Chain(stk) /\ stk[Len(stk)] = Bottom(pc)
  BY DEF TypeOK, Stacked
<1>2. Top = Head(stk)
  BY DEF Top
<1>3. /\ Head(stk) \in Frames /\ Tail(stk) \in Seq(Frames) /\ Chain(Tail(stk))
      /\ Tail(stk) # <<>> => /\ <<Head(stk), Head(Tail(stk))>> \in Above
                             /\ Tail(stk)[Len(Tail(stk))] = stk[Len(stk)]
      /\ Tail(stk) = <<>> => stk[Len(stk)] = Head(stk)
      /\ \A i \in DOMAIN Tail(stk) : i + 1 \in DOMAIN stk /\ stk[i + 1] = Tail(stk)[i]
  BY <1>1, ChainTail
<1>4. ASSUME NEW f, NEW i \in DOMAIN Tail(stk), Tail(stk)[i] = f PROVE On(f)
  BY <1>3, <1>4 DEF On
<1> QED
  BY <1>1, <1>2, <1>3, <1>4

\* A function is called by the innermost one.
LEMMA Called ==
  ASSUME TypeOK, Stacked, stk # <<>>, NEW f \in Frames, <<f, Top>> \in Above,
         stk' = <<f>> \o stk, pc' = pc
  PROVE  /\ stk' \in Seq(Frames) /\ stk' # <<>> /\ Stacked' /\ Top' = f
         /\ On("break")' => f = "break" \/ On("break")
<1>1. stk \in Seq(Frames) /\ Chain(stk) /\ stk[Len(stk)] = Bottom(pc) /\ Top = Head(stk)
  BY DEF TypeOK, Stacked, Top
<1>2. /\ <<f>> \o stk \in Seq(Frames) /\ <<f>> \o stk # <<>> /\ Chain(<<f>> \o stk)
      /\ Head(<<f>> \o stk) = f
      /\ (<<f>> \o stk)[Len(<<f>> \o stk)] = stk[Len(stk)]
      /\ \A i \in DOMAIN (<<f>> \o stk) :
           (<<f>> \o stk)[i] = f \/ (i - 1 \in DOMAIN stk /\ (<<f>> \o stk)[i] = stk[i - 1])
  BY <1>1, ChainPush
<1>3. Stacked' /\ Top' = f
  BY <1>1, <1>2 DEF Stacked, Top
<1>4. On("break")' => f = "break" \/ On("break")
  BY <1>2 DEF On
<1> QED
  BY <1>2, <1>3, <1>4

\* A function takes the place of the innermost one.
LEMMA Replaced ==
  ASSUME TypeOK, Stacked, stk # <<>>, NEW f \in Frames, Tail(stk) # <<>>,
         <<f, Head(Tail(stk))>> \in Above, stk' = <<f>> \o Tail(stk), pc' = pc
  PROVE  /\ stk' \in Seq(Frames) /\ stk' # <<>> /\ Stacked' /\ Top' = f
         /\ On("break")' => f = "break" \/ On("break")
<1> DEFINE r == Tail(stk)
<1>1. /\ r \in Seq(Frames) /\ Chain(r) /\ r[Len(r)] = Bottom(pc)
      /\ \A g : (\E i \in DOMAIN r : r[i] = g) => On(g)
  BY TopOf
<1> HIDE DEF r
<1>2. /\ <<f>> \o r \in Seq(Frames) /\ <<f>> \o r # <<>> /\ Chain(<<f>> \o r)
      /\ Head(<<f>> \o r) = f
      /\ (<<f>> \o r)[Len(<<f>> \o r)] = r[Len(r)]
      /\ \A i \in DOMAIN (<<f>> \o r) :
           (<<f>> \o r)[i] = f \/ (i - 1 \in DOMAIN r /\ (<<f>> \o r)[i] = r[i - 1])
  BY <1>1, ChainPush DEF r
<1>3. Stacked' /\ Top' = f
  BY <1>1, <1>2 DEF Stacked, Top, r
<1>4. On("break")' => f = "break" \/ On("break")
  BY <1>1, <1>2 DEF On, r
<1> QED
  BY <1>2, <1>3, <1>4 DEF r

\* The innermost function returns.
LEMMA Returned ==
  ASSUME TypeOK, Stacked, stk # <<>>, stk' = Tail(stk), pc' = pc
  PROVE  /\ stk' \in Seq(Frames) /\ Stacked'
         /\ stk' # <<>> => Top' = Head(Tail(stk))
         /\ On("break")' => On("break")
<1>1. Stacked'
  BY TopOf DEF Stacked
<1>2. On("break")' => On("break")
  BY TopOf DEF On
<1> QED
  BY <1>1, <1>2, TopOf DEF Top

\* Two functions return.
LEMMA ReturnedTwice ==
  ASSUME TypeOK, Stacked, stk # <<>>, Tail(stk) # <<>>, stk' = Tail(Tail(stk)), pc' = pc
  PROVE  /\ stk' \in Seq(Frames) /\ Stacked'
         /\ stk' = <<>> => Bottom(pc) = Head(Tail(stk))
         /\ On("break")' => On("break")
<1> DEFINE r == Tail(stk)
<1>1. /\ r \in Seq(Frames) /\ Chain(r) /\ r[Len(r)] = Bottom(pc) /\ r # <<>>
      /\ \A g : (\E i \in DOMAIN r : r[i] = g) => On(g)
  BY TopOf
<1> HIDE DEF r
<1>2. /\ Tail(r) \in Seq(Frames) /\ Chain(Tail(r))
      /\ Tail(r) # <<>> => Tail(r)[Len(Tail(r))] = r[Len(r)]
      /\ Tail(r) = <<>> => r[Len(r)] = Head(r)
      /\ \A i \in DOMAIN Tail(r) : i + 1 \in DOMAIN r /\ r[i + 1] = Tail(r)[i]
  BY <1>1, ChainTail
<1>3. stk' = Tail(r)
  BY DEF r
<1>4. Stacked'
  BY <1>1, <1>2, <1>3 DEF Stacked
<1>5. On("break")' => On("break")
  BY <1>1, <1>2, <1>3 DEF On
<1> QED
  BY <1>1, <1>2, <1>3, <1>4, <1>5 DEF r

\* The loop calls a function.
LEMMA CalledByLoop ==
  ASSUME NEW f \in Frames, stk' = <<f>>, Bottom(pc') = f
  PROVE  stk' \in Seq(Frames) /\ stk' # <<>> /\ Stacked' /\ Top' = f
         /\ (On("break")' => f = "break")
<1>1. stk' \in Seq(Frames) /\ Len(stk') = 1 /\ stk'[1] = f /\ DOMAIN stk' = {1} /\ stk' # <<>>
  OBVIOUS
<1>2. Head(stk') = f
  BY <1>1
<1>3. Chain(stk')
  BY <1>1 DEF Chain
<1> QED
  BY <1>1, <1>2, <1>3 DEF Stacked, Top, On

\* Nothing is called before the last function has returned.
LEMMA NoneCalled ==
  ASSUME stk' = <<>>
  PROVE  stk' \in Seq(Frames) /\ Stacked' /\ Top' = "none" /\ ~On("break")'
<1>1. DOMAIN stk' = {} /\ stk' \in Seq(Frames)
  OBVIOUS
<1>2. Chain(stk')
  BY <1>1 DEF Chain
<1> QED
  BY <1>1, <1>2 DEF Stacked, Top, On

----------------------------------------------------------------------------
(* What a function does: the stack after it.                               *)

\* The functions whose step this is, and what is said of it.
InFrame == Script \/ Return \/ Throw \/ CallListener

Framed ==
  /\ stk' \in Seq(Frames) /\ Stacked' /\ Settled'
  /\ pc' = pc \/ (pc = "eval" /\ pc' \in {"enter", "exit"})
  /\ pc = "walk" => stk' # <<>>

\* A step that leaves the stack and the place alone.
LEMMA FramedAsIs ==
  ASSUME TypeOK, Stacked, Settled, InScript, UNCHANGED <<stk, pc>>, threw => threw'
  PROVE  Framed
<1>1. stk # <<>> /\ Top # "rejection" /\ Top' = Top /\ On("break")' = On("break")
  BY DEF InScript, Top, On
<1> QED
  BY <1>1 DEF Framed, TypeOK, Stacked, Settled, Chain

\* What scripts call.
LEMMA ScriptFramed ==
  ASSUME TypeOK, Stacked, Settled, Script PROVE Framed /\ stk # <<>>
<1>0. InScript /\ stk # <<>>
  BY DEF Script, EnqueueJob, SelfClose, DispatchEvent, StartDelivery, PreventDefault, Reject,
         Handle, StartOp, Calling, InScript, Top
<1>1. CASE EnqueueJob \/ SelfClose \/ PreventDefault
           \/ (\E p \in Promises : Reject(p) \/ Handle(p)) \/ \E k \in Ops : StartOp(k)
  <2>1. UNCHANGED <<stk, pc>> /\ (threw => threw')
    BY <1>1 DEF EnqueueJob, SelfClose, PreventDefault, Reject, Handle, StartOp, Track, loopVars,
                history
  <2> QED
    BY <1>0, <2>1, FramedAsIs
<1>2. CASE DispatchEvent
  <2>1. <<"jsdrain", Top>> \in Above
    <3>1. Top \in {"main", "handler", "job", "listener"}
      BY <1>0 DEF InScript
    <3> QED
      BY <3>1 DEF Above
  <2>2. stk' = <<"jsdrain">> \o stk /\ pc' = pc /\ (threw => threw')
    BY <1>2 DEF DispatchEvent, Push, loopVars, history
  <2>3. /\ stk' \in Seq(Frames) /\ stk' # <<>> /\ Stacked' /\ Top' = "jsdrain"
        /\ On("break")' => On("break")
    BY <1>0, <2>1, <2>2, Called DEF Frames
  <2> QED
    BY <1>0, <2>2, <2>3 DEF Framed, Settled
<1>3. CASE StartDelivery
  <2>1. stk = <<"job", "drain">> /\ Top = "job"
    BY <1>3 DEF StartDelivery, Top
  <2>2. <<"drain", Top>> \in Above
    BY <2>1 DEF Above
  <2>3. stk' = <<"drain">> \o stk /\ pc' = pc /\ (threw => threw')
    BY <1>3 DEF StartDelivery, Push, loopVars, history
  <2>4. /\ stk' \in Seq(Frames) /\ stk' # <<>> /\ Stacked' /\ Top' = "drain"
        /\ On("break")' => On("break")
    BY <1>0, <2>2, <2>3, Called DEF Frames
  <2> QED
    BY <1>0, <2>3, <2>4 DEF Framed, Settled
<1> QED
  BY <1>0, <1>1, <1>2, <1>3 DEF Script

\* The functions of the loop itself, below which there is none.
LEMMA AtBottom ==
  ASSUME TypeOK, Stacked, stk # <<>>
  PROVE  /\ Top \in {"main", "free", "rejection", "unload"} => Tail(stk) = <<>> /\ Top = Bottom(pc)
         /\ Top \in {"handler", "job", "listener", "error", "fatal", "break", "jsdrain"}
              => Tail(stk) # <<>>
         /\ pc = "walk" /\ Tail(stk) = <<>> => Top = "rejection"
         /\ pc = "reject" /\ Tail(stk) = <<>> => Top = "drain"
         /\ pc = "eval" /\ Tail(stk) = <<>> => Top = "main"
<1>1. /\ Tail(stk) # <<>> => <<Top, Head(Tail(stk))>> \in Above
      /\ Tail(stk) = <<>> => Top = Bottom(pc)
      /\ Top \in Frames
  BY TopOf
<1>2. \A f, g : <<f, g>> \in Above => f \notin {"main", "free", "rejection", "unload"}
  BY DEF Above
<1>3. Bottom(pc) \notin {"handler", "job", "listener", "error", "fatal", "break", "jsdrain"}
  BY DEF Bottom
<1>4. /\ pc = "walk" => Bottom(pc) = "rejection"
      /\ pc = "reject" => Bottom(pc) = "drain"
      /\ pc = "eval" => Bottom(pc) = "main"
  BY DEF Bottom
<1> QED
  BY <1>1, <1>2, <1>3, <1>4

\* Who called it.
LEMMA CallerOf ==
  ASSUME TypeOK, Stacked, stk # <<>>, Tail(stk) # <<>>
  PROVE  LET f == Head(Tail(stk)) IN
         /\ Top = "handler" => f = "free"
         /\ Top = "job" => f \in {"drain", "jsdrain"}
         /\ Top = "listener" => f \in {"rejection", "error", "unload"}
         /\ Top = "error" => f \in {"fatal", "break"}
         /\ Top = "fatal" => f = "drain"
         /\ Top = "break" => f \in {"drain", "jsdrain"}
         /\ Top = "drain" => f \in {"free", "job"}
<1>1. <<Top, Head(Tail(stk))>> \in Above
  BY TopOf
<1> QED
  BY <1>1 DEF Above

\* When it returns to its caller.
LEMMA ReturnFramed ==
  ASSUME TypeOK, Stacked, Settled, stk # <<>>, stk' = Tail(stk), pc' = pc, threw => threw',
         pc = "walk" => Tail(stk) # <<>>,
         pc = "reject" /\ Tail(stk) = <<>> => jobs' <= reaped' \/ threw',
         Tail(stk) # <<>> /\ Head(Tail(stk)) = "rejection" => jobs' <= reaped' \/ threw'
  PROVE  Framed
<1>1. /\ stk' \in Seq(Frames) /\ Stacked'
      /\ stk' # <<>> => Top' = Head(Tail(stk))
      /\ On("break")' => On("break")
  BY Returned
<1>2. stk' = <<>> => Top' = "none"
  BY DEF Top
<1>3. Settled'
  BY <1>1, <1>2 DEF Settled
<1> QED
  BY <1>1, <1>3 DEF Framed

\* A listener of the walk is called by nothing but the walk.
LEMMA ListenerAlone ==
  ASSUME TypeOK, Stacked, stk # <<>>, Top = "listener", Head(Tail(stk)) = "rejection"
  PROVE  ~On("jsdrain")
<1> DEFINE r == Tail(stk)
<1>1. /\ r # <<>> /\ r \in Seq(Frames) /\ Chain(r) /\ Head(r) = "rejection"
  BY AtBottom, TopOf
<1> HIDE DEF r
<1>2. /\ Tail(r) \in Seq(Frames)
      /\ Tail(r) # <<>> => <<Head(r), Head(Tail(r))>> \in Above
  BY <1>1, ChainTail
<1>3. Tail(r) = <<>>
  BY <1>1, <1>2 DEF Above
<1>4. Len(r) = 1
  <2>1. Len(Tail(r)) = Len(r) - 1
    BY <1>1, HeadTailProperties
  <2>2. Len(Tail(r)) = 0
    BY <1>3, EmptySeq
  <2>3. Len(r) \in Nat
    BY <1>1, LenProperties
  <2> QED
    BY <2>1, <2>2, <2>3
<1>5. Len(stk) = 2 /\ stk[1] = "listener" /\ stk[2] = "rejection" /\ DOMAIN stk = 1 .. 2
  <2>1. stk \in Seq(Frames) /\ Len(stk) \in Nat /\ DOMAIN stk = 1 .. Len(stk)
    BY LenProperties DEF TypeOK
  <2>2. Len(r) = Len(stk) - 1 /\ \A i \in 1 .. Len(stk) - 1 : r[i] = stk[i + 1]
    BY <2>1, HeadTailProperties DEF r
  <2>3. Len(stk) = 2
    <3>1. Len(r) = Len(stk) - 1
      BY <2>2
    <3>2. Len(stk) - 1 = 1
      BY <1>4, <3>1
    <3>3. Len(stk) \in Nat
      BY <2>1
    <3> QED
      BY <3>2, <3>3
  <2>4. Head(r) = r[1] /\ r[1] = stk[2] /\ Head(stk) = stk[1]
    BY <1>1, <1>4, <2>1, <2>2, <2>3
  <2>5. Top = Head(stk)
    BY DEF Top
  <2> QED
    BY <1>1, <2>1, <2>3, <2>4, <2>5
<1> QED
  BY <1>5 DEF On

\* The functions that return, and what is called on the way.
LEMMA ReturnsFramed ==
  ASSUME TypeOK, Stacked, Settled, Return PROVE Framed /\ stk # <<>>
<1>0. stk # <<>>
  BY DEF Return, MainReturn, HandlerReturn, FreeArgs, JobReturn, ListenerReturn, Fatal, RunJob,
         DrainEnd, ErrorEnd, Top
<1>t. threw' = threw
  BY DEF Return, MainReturn, HandlerReturn, FreeArgs, JobReturn, ListenerReturn, Fatal, RunJob,
         DrainEnd, ErrorEnd, history
<1>p. pc' = pc \/ MainReturn
  BY DEF Return, MainReturn, HandlerReturn, FreeArgs, JobReturn, ListenerReturn, Fatal, RunJob,
         DrainEnd, ErrorEnd, loopVars
<1>1. CASE MainReturn
  <2>1. Top = "main" /\ stk' = <<>> /\ pc' = "enter"
    BY <1>1 DEF MainReturn
  <2>2. pc = "eval"
    BY <1>0, <2>1, AtBottom DEF Bottom
  <2> QED
    BY <1>0, <2>1, <2>2, NoneCalled DEF Framed, Settled
<1>2. CASE HandlerReturn
  <2>1. Top = "handler" /\ stk' = <<"drain">> \o Tail(stk) /\ pc' = pc
    BY <1>2 DEF HandlerReturn, Replace, loopVars
  <2>2. Tail(stk) # <<>> /\ Head(Tail(stk)) = "free"
    BY <1>0, <2>1, AtBottom, CallerOf
  <2>3. <<"drain", Head(Tail(stk))>> \in Above
    BY <2>2 DEF Above
  <2>4. /\ stk' \in Seq(Frames) /\ stk' # <<>> /\ Stacked' /\ Top' = "drain"
        /\ On("break")' => On("break")
    BY <1>0, <2>1, <2>2, <2>3, Replaced DEF Frames
  <2> QED
    BY <1>0, <1>t, <2>1, <2>4 DEF Framed, Settled
<1>3. CASE FreeArgs
  <2>1. Top = "free" /\ stk' = <<>> /\ pc' = pc
    BY <1>3 DEF FreeArgs, loopVars
  <2>2. pc \notin {"reject", "walk"}
    BY <1>0, <2>1, AtBottom
  <2> QED
    BY <1>0, <2>1, <2>2, NoneCalled DEF Framed, Settled
<1>4. CASE JobReturn
  <2>1. Top = "job" /\ stk' = Tail(stk) /\ pc' = pc
    BY <1>4 DEF JobReturn, loopVars
  <2>2. Tail(stk) # <<>> /\ Head(Tail(stk)) # "rejection"
    BY <1>0, <2>1, AtBottom, CallerOf
  <2> QED
    BY <1>0, <1>t, <2>1, <2>2, ReturnFramed
<1>5. CASE ListenerReturn
  <2>1. Top = "listener" /\ pc' = pc
    BY <1>5 DEF ListenerReturn, loopVars
  <2>2. Tail(stk) # <<>> /\ Head(Tail(stk)) \in {"rejection", "error", "unload"}
    BY <1>0, <2>1, AtBottom, CallerOf
  <2>3. CASE On("jsdrain")
    <3>1. stk' = <<>> \o Tail(stk)
      BY <1>5, <2>3 DEF ListenerReturn, Replace
    <3>2. stk' = Tail(stk)
      BY <1>0, <3>1, TopOf, ConcatEmptySeq
    <3>3. Head(Tail(stk)) # "rejection"
      BY <1>0, <2>1, <2>3, ListenerAlone
    <3> QED
      BY <1>0, <1>t, <2>1, <2>2, <3>2, <3>3, ReturnFramed
  <2>4. CASE ~On("jsdrain")
    <3>1. stk' = <<"jsdrain">> \o Tail(stk)
      BY <1>5, <2>4 DEF ListenerReturn, Replace
    <3>2. <<"jsdrain", Head(Tail(stk))>> \in Above
      BY <2>2 DEF Above
    <3>3. /\ stk' \in Seq(Frames) /\ stk' # <<>> /\ Stacked' /\ Top' = "jsdrain"
          /\ On("break")' => On("break")
      BY <1>0, <2>1, <2>2, <3>1, <3>2, Replaced DEF Frames
    <3> QED
      BY <1>0, <1>t, <2>1, <3>3 DEF Framed, Settled
  <2> QED
    BY <2>3, <2>4
<1>6. CASE Fatal /\ Top = "fatal"
  <2>1. Top = "fatal" /\ stk' = Tail(stk) /\ pc' = pc
    BY <1>6 DEF Fatal, loopVars
  <2>2. Tail(stk) # <<>> /\ Head(Tail(stk)) # "rejection"
    BY <1>0, <2>1, AtBottom, CallerOf
  <2> QED
    BY <1>0, <1>t, <2>1, <2>2, ReturnFramed
<1>7. CASE Fatal /\ Top # "fatal"
  <2>1. Top = "break" /\ stk' = Tail(Tail(stk)) /\ pc' = pc
    BY <1>7 DEF Fatal, loopVars
  <2>2. Tail(stk) # <<>> /\ Head(Tail(stk)) \in {"drain", "jsdrain"}
    BY <1>0, <2>1, AtBottom, CallerOf
  <2>3. threw
    <3>1. stk \in Seq(Frames) /\ 1 \in DOMAIN stk /\ stk[1] = Top
      BY <1>0, EmptySeq, LenProperties DEF TypeOK, Top
    <3> QED
      BY <2>1, <3>1 DEF On, Settled
  <2>4. /\ stk' \in Seq(Frames) /\ Stacked'
        /\ stk' = <<>> => Bottom(pc) = Head(Tail(stk))
    BY <1>0, <2>1, <2>2, ReturnedTwice
  <2>5. pc = "walk" => stk' # <<>>
    BY <2>2, <2>4 DEF Bottom
  <2> QED
    BY <1>0, <1>t, <2>1, <2>3, <2>4, <2>5 DEF Framed, Settled
<1>8. CASE RunJob
  <2>1. Top \in {"drain", "jsdrain"} /\ stk' = <<"job">> \o stk /\ pc' = pc
    BY <1>8 DEF RunJob, Push, loopVars
  <2>2. <<"job", Top>> \in Above
    BY <2>1 DEF Above
  <2>3. /\ stk' \in Seq(Frames) /\ stk' # <<>> /\ Stacked' /\ Top' = "job"
        /\ On("break")' => On("break")
    BY <1>0, <2>1, <2>2, Called DEF Frames
  <2> QED
    BY <1>0, <1>t, <2>1, <2>3 DEF Framed, Settled
<1>9. CASE DrainEnd
  <2>1. Top \in {"drain", "jsdrain"} /\ stk' = Tail(stk) /\ pc' = pc /\ jobs' <= reaped'
    BY <1>9 DEF DrainEnd, loopVars
  <2>2. pc = "walk" => Tail(stk) # <<>>
    BY <1>0, <2>1, AtBottom
  <2> QED
    BY <1>0, <1>t, <2>1, <2>2, ReturnFramed
<1>10. CASE ErrorEnd
  <2>1. Top = "error" /\ stk' = Tail(stk) /\ pc' = pc
    BY <1>10 DEF ErrorEnd, loopVars
  <2>2. Tail(stk) # <<>> /\ Head(Tail(stk)) # "rejection"
    BY <1>0, <2>1, AtBottom, CallerOf
  <2> QED
    BY <1>0, <1>t, <2>1, <2>2, ReturnFramed
<1> QED
  BY <1>0, <1>1, <1>2, <1>3, <1>4, <1>5, <1>6, <1>7, <1>8, <1>9, <1>10 DEF Return

\* The functions that throw.
LEMMA ThrowFramed ==
  ASSUME TypeOK, Stacked, Settled, Throw PROVE Framed /\ stk # <<>>
<1>0. stk # <<>>
  BY DEF Throw, MainThrow, HandlerThrow, JobThrow, Top
<1>1. CASE MainThrow
  <2>1. Top = "main" /\ stk' = <<>> /\ pc' = "exit"
    BY <1>1 DEF MainThrow
  <2>2. pc = "eval"
    BY <1>0, <2>1, AtBottom DEF Bottom
  <2> QED
    BY <1>0, <2>1, <2>2, NoneCalled DEF Framed, Settled
<1>2. CASE HandlerThrow
  <2>1. Top = "handler" /\ pc' = pc /\ threw' = threw
    BY <1>2 DEF HandlerThrow, loopVars, history
  <2> DEFINE r == Tail(stk)
  <2>2. /\ r # <<>> /\ Head(r) = "free" /\ r \in Seq(Frames) /\ Chain(r)
        /\ r[Len(r)] = Bottom(pc)
        /\ \A f : (\E i \in DOMAIN r : r[i] = f) => On(f)
    BY <1>0, <2>1, AtBottom, CallerOf, TopOf
  <2>3. CASE is_worker
    <3>1. stk' = <<"error">> \o (<<"fatal", "drain">> \o r)
      BY <1>2, <2>3 DEF HandlerThrow, Uncaught
    <3> HIDE DEF r
    <3> DEFINE q == <<"drain">> \o r
    <3>2. <<"drain", Head(r)>> \in Above
      BY <2>2 DEF Above
    <3>3. /\ q \in Seq(Frames) /\ q # <<>> /\ Chain(q) /\ Head(q) = "drain"
          /\ q[Len(q)] = Bottom(pc)
          /\ \A i \in DOMAIN q : q[i] = "drain" \/ (i - 1 \in DOMAIN r /\ q[i] = r[i - 1])
      BY <2>2, <3>2, ChainPush DEF Frames
    <3>4. <<"fatal", "drain">> \o r = <<"fatal">> \o q
      BY <2>2, PushTwo DEF Frames
    <3> HIDE DEF q
    <3> DEFINE o == <<"fatal">> \o q
    <3>5. <<"fatal", Head(q)>> \in Above
      BY <3>3 DEF Above
    <3>6. /\ o \in Seq(Frames) /\ o # <<>> /\ Chain(o) /\ Head(o) = "fatal"
          /\ o[Len(o)] = Bottom(pc)
          /\ \A i \in DOMAIN o : o[i] = "fatal" \/ (i - 1 \in DOMAIN q /\ o[i] = q[i - 1])
      BY <3>3, <3>5, ChainPush DEF Frames
    <3> HIDE DEF o
    <3> DEFINE e == <<"error">> \o o
    <3>7. stk' = e
      BY <3>1, <3>4 DEF o
    <3>8. <<"error", Head(o)>> \in Above
      BY <3>6 DEF Above
    <3>9. /\ e \in Seq(Frames) /\ e # <<>> /\ Chain(e) /\ Head(e) = "error"
          /\ e[Len(e)] = Bottom(pc)
          /\ \A i \in DOMAIN e : e[i] = "error" \/ (i - 1 \in DOMAIN o /\ e[i] = o[i - 1])
      BY <3>6, <3>8, ChainPush DEF Frames
    <3> HIDE DEF e
    <3>10. Stacked' /\ Top' = "error"
      BY <2>1, <3>7, <3>9 DEF Stacked, Top
    <3>11. On("break")' => On("break")
      <4>1. \A i \in DOMAIN q : q[i] = "break" => On("break")
        BY <2>2, <3>3
      <4>2. \A i \in DOMAIN o : o[i] = "break" => On("break")
        BY <3>6, <4>1
      <4>3. \A i \in DOMAIN e : e[i] = "break" => On("break")
        BY <3>9, <4>2
      <4> QED
        BY <3>7, <4>3 DEF On
    <3> QED
      BY <1>0, <2>1, <3>7, <3>9, <3>10, <3>11 DEF Framed, Settled
  <2>4. CASE ~is_worker
    <3>1. stk' = <<"drain">> \o Tail(stk)
      BY <1>2, <2>4 DEF HandlerThrow, Uncaught
    <3>2. <<"drain", Head(Tail(stk))>> \in Above
      BY <2>2 DEF Above
    <3>3. /\ stk' \in Seq(Frames) /\ stk' # <<>> /\ Stacked' /\ Top' = "drain"
          /\ On("break")' => On("break")
      BY <1>0, <2>1, <2>2, <3>1, <3>2, Replaced DEF Frames
    <3> QED
      BY <1>0, <2>1, <3>3 DEF Framed, Settled
  <2> QED
    BY <2>3, <2>4
<1>3. CASE JobThrow
  <2>1. Top = "job" /\ pc' = pc /\ threw'
    BY <1>3 DEF JobThrow, loopVars
  <2> DEFINE r == Tail(stk)
  <2>2. /\ r # <<>> /\ Head(r) \in {"drain", "jsdrain"} /\ r \in Seq(Frames) /\ Chain(r)
        /\ r[Len(r)] = Bottom(pc)
    BY <1>0, <2>1, AtBottom, CallerOf, TopOf
  <2>3. CASE is_worker
    <3>1. stk' = <<"error">> \o (<<"break">> \o r)
      BY <1>3, <2>3 DEF JobThrow, Uncaught
    <3> HIDE DEF r
    <3> DEFINE q == <<"break">> \o r
    <3>2. <<"break", Head(r)>> \in Above
      BY <2>2 DEF Above
    <3>3. /\ q \in Seq(Frames) /\ q # <<>> /\ Chain(q) /\ Head(q) = "break"
          /\ q[Len(q)] = Bottom(pc)
      BY <2>2, <3>2, ChainPush DEF Frames
    <3>4. stk' = <<"error">> \o q
      BY <3>1
    <3> HIDE DEF q
    <3>5. <<"error", Head(q)>> \in Above
      BY <3>3 DEF Above
    <3>6. /\ stk' \in Seq(Frames) /\ stk' # <<>> /\ Chain(stk') /\ Head(stk') = "error"
          /\ stk'[Len(stk')] = Bottom(pc)
      BY <3>3, <3>4, <3>5, ChainPush DEF Frames
    <3>7. Stacked'
      BY <2>1, <3>6 DEF Stacked
    <3> QED
      BY <1>0, <2>1, <3>6, <3>7 DEF Framed, Settled
  <2>4. CASE ~is_worker
    <3>1. stk' = Tail(Tail(stk))
      BY <1>3, <2>4 DEF JobThrow, Uncaught
    <3>2. /\ stk' \in Seq(Frames) /\ Stacked'
          /\ stk' = <<>> => Bottom(pc) = Head(Tail(stk))
      BY <1>0, <2>1, <2>2, <3>1, ReturnedTwice
    <3>3. pc = "walk" => stk' # <<>>
      BY <2>2, <3>2 DEF Bottom
    <3> QED
      BY <1>0, <2>1, <3>2, <3>3 DEF Framed, Settled
  <2> QED
    BY <2>3, <2>4
<1> QED
  BY <1>0, <1>1, <1>2, <1>3 DEF Throw

\* Any of them.
LEMMA FrameFramed ==
  ASSUME TypeOK, Stacked, Settled, InFrame PROVE Framed /\ stk # <<>>
<1>1. CASE CallListener
  <2>1. /\ Top \in {"rejection", "error", "unload"} /\ stk' = <<"listener">> \o stk /\ pc' = pc
        /\ threw' = threw
    BY <1>1 DEF CallListener, Push, loopVars, history
  <2>2. stk # <<>>
    BY <2>1 DEF Top
  <2>3. <<"listener", Top>> \in Above
    BY <2>1 DEF Above
  <2>4. /\ stk' \in Seq(Frames) /\ stk' # <<>> /\ Stacked' /\ Top' = "listener"
        /\ On("break")' => On("break")
    BY <2>1, <2>2, <2>3, Called DEF Frames
  <2> QED
    BY <2>1, <2>2, <2>4 DEF Framed, Settled
<1> QED
  BY <1>1, ScriptFramed, ReturnsFramed, ThrowFramed DEF InFrame

----------------------------------------------------------------------------
(* Types, and what is left to do.                                          *)

\* The list grows and shrinks by one.
LEMMA ListTyped ==
  ASSUME TypeOK, NEW p \in Promises
  PROVE  /\ Append(pending, p) \in Seq(Promises) /\ Append(pending, p) # <<>>
         /\ Without(pending, p) \in Seq(Promises)
         /\ Without(pending, p) # <<>> => pending # <<>>
<1>1. pending \in Seq(Promises)
  BY DEF TypeOK
<1>2. Append(pending, p) \in Seq(Promises) /\ Len(Append(pending, p)) = Len(pending) + 1
      /\ Len(pending) \in Nat
  BY <1>1, AppendProperties, LenProperties
<1>3. Append(pending, p) # <<>>
  BY <1>2, EmptySeq
<1> QED
  BY <1>1, <1>2, <1>3, WithoutIt

Remains ==
  /\ pending' # <<>> => idle'
  /\ polled' = polled
  /\ (stopSent' => stopSent \/ stopping') /\ stopFlag' = stopFlag /\ (stopping => stopping')

\* Functions keep the types of all but the stack.
LEMMA FrameTyped ==
  ASSUME TypeOK, Waits, InFrame, UNCHANGED is_worker, Framed
  PROVE  TypeOK' /\ Remains
<1> USE EventLoopAssumption
<1>s. stk' \in Seq(Frames) /\ pc' \in {pc, "enter", "exit"}
  BY DEF Framed
<1>w. pending # <<>> => idle
  BY DEF Waits
<1>2. CASE \E p \in Promises : Reject(p)
  <2>1. PICK p \in Promises : Reject(p)
    BY <1>2
  <2>2. Append(pending, p) \in Seq(Promises)
    BY ListTyped
  <2>3. /\ pending' = Append(pending, p) /\ idle' = (jobs > 0 \/ pending' # <<>>)
        /\ rejected' = rejected \cup {p}
        /\ calls < MaxCalls /\ calls' = calls + 1
        /\ UNCHANGED <<el, el1, handled, reported, threw, dropped, reaped, stk, jobs, prevented,
                       stopVars, loopVars>>
    BY <2>1 DEF Reject, Track, Add, MaybeIdle, Calling
  <2>4. idle' \in BOOLEAN
    BY <2>3
  <2>5. TypeOK'
    BY <2>2, <2>3, <2>4, <1>s DEF TypeOK, stopVars, loopVars
  <2>6. Remains
    BY <2>3 DEF Remains, stopVars, loopVars
  <2> QED
    BY <2>5, <2>6
<1>3. CASE \E p \in Promises : Handle(p)
  <2>1. PICK p \in Promises : Handle(p)
    BY <1>3
  <2>2. Without(pending, p) \in Seq(Promises) /\ (Without(pending, p) # <<>> => pending # <<>>)
    BY ListTyped
  <2>3. /\ pending' = Without(pending, p) /\ handled' = handled \cup {p} /\ jobs' = jobs + 1
        /\ calls < MaxCalls /\ calls' = calls + 1
        /\ UNCHANGED <<stk, idle, prevented, el, el1, stopVars, loopVars, rejected,
                       reported, threw, dropped, reaped>>
    BY <2>1 DEF Handle, Removed, Calling
  <2> QED
    BY <2>2, <2>3, <1>s, <1>w DEF TypeOK, Remains, stopVars, loopVars
<1>4. CASE \E k \in Ops : StartOp(k)
  <2>1. PICK k \in Ops : StartOp(k)
    BY <1>4
  <2>2. /\ ops' = [ops EXCEPT ![k] = @ + 1] /\ calls < MaxCalls /\ calls' = calls + 1
        /\ UNCHANGED <<stk, jobs, idle, prevented, listVars, stopVars, pc, polled, history>>
    BY <2>1 DEF StartOp, Calling
  <2>3. ops' \in [Ops -> Nat]
    BY <2>2 DEF TypeOK
  <2> QED
    BY <2>2, <2>3, <1>s, <1>w DEF TypeOK, Remains, listVars, stopVars, history
<1>11. CASE EnqueueJob
  <2>1. TypeOK'
    BY <1>11, <1>s DEF EnqueueJob, Calling, TypeOK, listVars, stopVars, loopVars, history
  <2>2. Remains
    BY <1>11, <1>w DEF EnqueueJob, Calling, Remains, listVars, stopVars,
       loopVars
  <2> QED
    BY <2>1, <2>2
<1>12. CASE StartDelivery
  <2>1. TypeOK'
    BY <1>12, <1>s DEF StartDelivery, Calling, TypeOK, listVars, stopVars, loopVars, history
  <2>2. Remains
    BY <1>12, <1>w DEF StartDelivery, Calling, Remains, listVars, stopVars,
       loopVars
  <2> QED
    BY <2>1, <2>2
<1>13. CASE DispatchEvent
  <2>1. TypeOK'
    BY <1>13, <1>s DEF DispatchEvent, Calling, TypeOK, listVars, stopVars, loopVars, history
  <2>2. Remains
    BY <1>13, <1>w DEF DispatchEvent, Calling, Remains, listVars, stopVars,
       loopVars
  <2> QED
    BY <2>1, <2>2
<1>14. CASE PreventDefault
  <2>1. TypeOK'
    BY <1>14, <1>s DEF PreventDefault, Calling, TypeOK, listVars, stopVars, loopVars, history
  <2>2. Remains
    BY <1>14, <1>w DEF PreventDefault, Calling, Remains, listVars, stopVars,
       loopVars
  <2> QED
    BY <2>1, <2>2
<1>15. CASE SelfClose
  <2>1. TypeOK'
    BY <1>15, <1>s DEF SelfClose, Calling, RequestStop, TypeOK, listVars, stopVars, loopVars, history
  <2>2. Remains
    BY <1>15, <1>w DEF SelfClose, Calling, RequestStop, Remains, listVars, stopVars,
       loopVars
  <2> QED
    BY <2>1, <2>2
<1>16. CASE CallListener
  <2>1. TypeOK'
    BY <1>16, <1>s DEF CallListener, TypeOK, listVars, stopVars, loopVars, history
  <2>2. Remains
    BY <1>16, <1>w DEF CallListener, Remains, listVars, stopVars,
       loopVars
  <2> QED
    BY <2>1, <2>2
<1>17. CASE MainReturn
  <2>1. TypeOK'
    BY <1>17, <1>s DEF MainReturn, TypeOK, listVars, stopVars, loopVars, history
  <2>2. Remains
    BY <1>17, <1>w DEF MainReturn, Remains, listVars, stopVars,
       loopVars
  <2> QED
    BY <2>1, <2>2
<1>18. CASE MainThrow
  <2>1. TypeOK'
    BY <1>18, <1>s DEF MainThrow, TypeOK, listVars, stopVars, loopVars, history
  <2>2. Remains
    BY <1>18, <1>w DEF MainThrow, Remains, listVars, stopVars,
       loopVars
  <2> QED
    BY <2>1, <2>2
<1>19. CASE HandlerReturn
  <2>1. TypeOK'
    BY <1>19, <1>s DEF HandlerReturn, TypeOK, listVars, stopVars, loopVars, history
  <2>2. Remains
    BY <1>19, <1>w DEF HandlerReturn, Remains, listVars, stopVars,
       loopVars
  <2> QED
    BY <2>1, <2>2
<1>20. CASE JobReturn
  <2>1. TypeOK'
    BY <1>20, <1>s DEF JobReturn, TypeOK, listVars, stopVars, loopVars, history
  <2>2. Remains
    BY <1>20, <1>w DEF JobReturn, Remains, listVars, stopVars,
       loopVars
  <2> QED
    BY <2>1, <2>2
<1>21. CASE ListenerReturn
  <2>1. TypeOK'
    BY <1>21, <1>s DEF ListenerReturn, TypeOK, listVars, stopVars, loopVars, history
  <2>2. Remains
    BY <1>21, <1>w DEF ListenerReturn, Remains, listVars, stopVars,
       loopVars
  <2> QED
    BY <2>1, <2>2
<1>22. CASE DrainEnd
  <2>1. TypeOK'
    BY <1>22, <1>s DEF DrainEnd, TypeOK, listVars, stopVars, loopVars, history
  <2>2. Remains
    BY <1>22, <1>w DEF DrainEnd, Remains, listVars, stopVars,
       loopVars
  <2> QED
    BY <2>1, <2>2
<1>23. CASE ErrorEnd
  <2>1. TypeOK'
    BY <1>23, <1>s DEF ErrorEnd, TypeOK, listVars, stopVars, loopVars, history
  <2>2. Remains
    BY <1>23, <1>w DEF ErrorEnd, Remains, listVars, stopVars,
       loopVars
  <2> QED
    BY <2>1, <2>2
<1>24. CASE FreeArgs
  <2>1. TypeOK'
    BY <1>24, <1>s DEF FreeArgs, TypeOK, listVars, stopVars, loopVars, history
  <2>2. Remains
    BY <1>24, <1>w DEF FreeArgs, Remains, listVars, stopVars,
       loopVars
  <2> QED
    BY <2>1, <2>2
<1>25. CASE RunJob
  <2>1. TypeOK'
    BY <1>25, <1>s DEF RunJob, TypeOK, listVars, stopVars, loopVars, history
  <2>2. Remains
    BY <1>25, <1>w DEF RunJob, Remains, listVars, stopVars,
       loopVars
  <2> QED
    BY <2>1, <2>2
<1>26. CASE Fatal
  <2>1. TypeOK'
    BY <1>26, <1>s DEF Fatal, RequestStop, TypeOK, listVars, stopVars, loopVars, history
  <2>2. Remains
    BY <1>26, <1>w DEF Fatal, RequestStop, Remains, listVars, stopVars,
       loopVars
  <2> QED
    BY <2>1, <2>2
<1>27. CASE HandlerThrow
  <2>1. TypeOK'
    BY <1>27, <1>s DEF HandlerThrow, Uncaught, RequestStop, TypeOK, listVars, stopVars, loopVars, history
  <2>2. Remains
    BY <1>27, <1>w DEF HandlerThrow, Uncaught, RequestStop, Remains, listVars, stopVars,
       loopVars
  <2> QED
    BY <2>1, <2>2
<1>28. CASE JobThrow
  <2>1. TypeOK'
    BY <1>28, <1>s DEF JobThrow, Uncaught, RequestStop, TypeOK, listVars, stopVars, loopVars, history
  <2>2. Remains
    BY <1>28, <1>w DEF JobThrow, Uncaught, RequestStop, Remains, listVars, stopVars,
       loopVars
  <2> QED
    BY <2>1, <2>2
<1> QED
  BY <1>2, <1>3, <1>4, <1>11, <1>12, <1>13, <1>14, <1>15, <1>16, <1>17, <1>18, <1>19,
     <1>20, <1>21, <1>22, <1>23, <1>24, <1>25, <1>26, <1>27, <1>28 DEF InFrame, Script, Return, Throw

\* A step of a function keeps the invariant.
LEMMA FrameKeeps ==
  ASSUME IInv, InFrame, UNCHANGED is_worker
  PROVE  IInv' /\ Framed /\ stk # <<>>
<1>1. TypeOK /\ Stacked /\ Settled /\ Waits
  BY DEF IInv
<1>2. Framed /\ stk # <<>>
  BY <1>1, FrameFramed
<1>3. TypeOK' /\ Remains
  BY <1>1, <1>2, FrameTyped
<1>4. pc' # "left" /\ (pc' = "poll" => pc = "poll")
  <2>1. pc # "left"
    <3>1. pc = "left" => stk[Len(stk)] = "nothing"
      BY <1>1, <1>2 DEF Stacked, Bottom
    <3>2. stk[Len(stk)] \in Frames
      BY <1>1, <1>2, EmptySeq, LenProperties DEF TypeOK
    <3> QED
      BY <3>1, <3>2 DEF Frames
  <2> QED
    BY <1>2, <2>1 DEF Framed
<1>5. Waits'
  BY <1>1, <1>2, <1>3, <1>4 DEF Waits, Remains, NothingLeft
<1> QED
  BY <1>2, <1>3, <1>5 DEF IInv, Framed

----------------------------------------------------------------------------
(* What the loop does.                                                     *)

\* A step of the loop between two functions.
LEMMA Between ==
  ASSUME stk' = <<>>, pc' \in {"reject", "walk"} => jobs' <= reaped' \/ threw'
  PROVE  stk' \in Seq(Frames) /\ Stacked' /\ Settled'
<1>1. stk' \in Seq(Frames) /\ Stacked' /\ Top' = "none" /\ ~On("break")'
  BY NoneCalled
<1> QED
  BY <1>1 DEF Settled

\* There is no function on the stack where the loop only looks around.
LEMMA Resting ==
  ASSUME TypeOK, Stacked,
         pc \in {"enter", "prepare", "check", "left", "exit"}
  PROVE  stk = <<>>
<1> SUFFICES ASSUME stk # <<>> PROVE FALSE
  OBVIOUS
<1>1. stk[Len(stk)] = "nothing"
  BY DEF Stacked, Bottom
<1>2. stk[Len(stk)] \in Frames
  BY EmptySeq, LenProperties DEF TypeOK
<1> QED
  BY <1>1, <1>2 DEF Frames

\* The stack of the event of a rejection.
LEMMA WalkTop ==
  ASSUME Stacked, stk = <<"rejection">>
  PROVE  pc = "walk" /\ Top = "rejection"
<1>1. stk # <<>> /\ stk[Len(stk)] = "rejection" /\ Head(stk) = "rejection"
  OBVIOUS
<1> QED
  BY <1>1 DEF Stacked, Bottom, Top

\* The same of 'beforeunload'.
LEMMA UnloadTop ==
  ASSUME Stacked, stk = <<"unload">>
  PROVE  pc = "unload"
<1>1. stk # <<>> /\ stk[Len(stk)] = "unload"
  OBVIOUS
<1> QED
  BY <1>1 DEF Stacked, Bottom

\* Where the walk starts, and where it goes on.
LEMMA CursorsTyped ==
  ASSUME TypeOK
  PROVE  /\ pending # <<>> => Head(pending) \in Promises
         /\ \A p : \A s \in Seq(Promises) : NextOf(s, p) \in Promises \cup {None}
<1>1. ASSUME pending # <<>> PROVE Head(pending) \in Promises
  BY <1>1, EmptySeq DEF TypeOK
<1>2. ASSUME NEW s \in Seq(Promises), NEW p PROVE NextOf(s, p) \in Promises \cup {None}
  <2>1. CASE \E i \in 1 .. (Len(s) - 1) : s[i] = p
    <3> DEFINE i == CHOOSE i \in 1 .. (Len(s) - 1) : s[i] = p
    <3>1. i \in 1 .. (Len(s) - 1) /\ NextOf(s, p) = s[1 + i]
      BY <2>1 DEF NextOf
    <3> HIDE DEF i
    <3>2. 1 + i \in DOMAIN s
      BY <3>1, LenProperties
    <3> QED
      BY <3>1, <3>2
  <2>2. CASE ~ \E i \in 1 .. (Len(s) - 1) : s[i] = p
    BY <2>2 DEF NextOf
  <2> QED
    BY <2>1, <2>2
<1> QED
  BY <1>1, <1>2

\* So does a step of the check phase.
LEMMA WalkKeeps ==
  ASSUME IInv, UNCHANGED is_worker,
         Check \/ Walk \/ UseFreed \/ RejectionStart \/ RejectionPrevented \/ RejectionFatal \/ CheckEnd
  PROVE  IInv'
<1>a. TypeOK /\ Stacked /\ Settled /\ Waits
  BY DEF IInv
<1>1. CASE Check
  <2>1. stk' = <<"drain">> /\ pc' = "reject"
    BY <1>1 DEF Check, DrainFirst
  <2>2. /\ stk' \in Seq(Frames) /\ stk' # <<>> /\ Stacked' /\ Top' = "drain" /\ ~On("break")'
    BY <2>1, CalledByLoop DEF Bottom, Frames
  <2>3. TypeOK'
    BY <1>a, <1>1, <2>2 DEF Check, DrainFirst, TypeOK, listVars, stopVars, history
  <2>4. Waits'
    BY <1>a, <1>1 DEF Check, DrainFirst, Waits, NothingLeft, listVars, stopVars
  <2> QED
    BY <2>2, <2>3, <2>4 DEF IInv, Settled
<1>2. CASE Walk
  <2>1. stk' = <<>> /\ (jobs' <= reaped' \/ threw') /\ pc' = "walk"
    BY <1>a, <1>2 DEF Walk, Settled, history
  <2>2. stk' \in Seq(Frames) /\ Stacked' /\ Settled'
    BY <2>1, Between
  <2>3. {el, el1}' \subseteq Promises \cup {None}
    BY <1>a, <1>2, CursorsTyped DEF Walk, TypeOK
  <2>4. TypeOK'
    BY <1>a, <1>2, <2>2, <2>3 DEF Walk, TypeOK, stopVars, history
  <2>5. Waits'
    BY <1>a, <1>2 DEF Walk, Waits, NothingLeft, stopVars
  <2> QED
    BY <2>2, <2>4, <2>5 DEF IInv
<1>3. CASE RejectionStart
  <2>1. stk' = <<"rejection">> /\ pc' = "walk" /\ (jobs' <= reaped' \/ threw')
    BY <1>a, <1>3 DEF RejectionStart, Settled, loopVars
  <2>2. /\ stk' \in Seq(Frames) /\ stk' # <<>> /\ Stacked' /\ Top' = "rejection"
        /\ ~On("break")'
    BY <2>1, CalledByLoop DEF Bottom, Frames
  <2>3. el \in Promises
    BY <1>a, <1>3 DEF RejectionStart, TypeOK
  <2>4. TypeOK'
    BY <1>a, <1>3, <2>2, <2>3 DEF RejectionStart, TypeOK, listVars, stopVars, loopVars
  <2>5. Waits'
    BY <1>a, <1>3, <2>1 DEF RejectionStart, Waits, NothingLeft, listVars, stopVars, loopVars
  <2> QED
    BY <2>1, <2>2, <2>4, <2>5 DEF IInv, Settled
<1>4. CASE RejectionPrevented
  <2>0. pc = "walk" /\ Top = "rejection"
    BY <1>a, <1>4, WalkTop DEF RejectionPrevented
  <2>1. stk' = <<>> /\ pc' = "walk" /\ (jobs' <= reaped' \/ threw')
    BY <1>a, <1>4, <2>0 DEF RejectionPrevented, FreeEvent, Settled, TypeOK, loopVars
  <2>2. stk' \in Seq(Frames) /\ Stacked' /\ Settled'
    BY <2>1, Between
  <2>3. pending' \in Seq(Promises) /\ (pending' # <<>> => pending # <<>>)
    BY <1>a, <1>4, WithoutIt DEF RejectionPrevented, TypeOK
  <2>4. el' \in Promises \cup {None} /\ el1' \in Promises \cup {None}
    BY <1>a, <1>4, <2>3, CursorsTyped DEF RejectionPrevented, TypeOK
  <2>5. TypeOK'
    <3>1. jobs' \in Nat /\ reaped' \in Nat /\ calls' \in 0 .. MaxCalls
      BY <1>a, <1>4, EventLoopAssumption DEF RejectionPrevented, FreeEvent, TypeOK
    <3> QED
      BY <1>a, <1>4, <2>2, <2>3, <2>4, <3>1 DEF RejectionPrevented, TypeOK, stopVars, loopVars
  <2>6. Waits'
    BY <1>a, <1>4, <2>1, <2>3 DEF RejectionPrevented, Waits, NothingLeft, stopVars
  <2> QED
    BY <2>2, <2>5, <2>6 DEF IInv
<1>5. CASE RejectionFatal
  <2>0. pc = "walk" /\ Top = "rejection"
    BY <1>a, <1>5, WalkTop DEF RejectionFatal
  <2>1. stk' = <<>> /\ pc' = "walk" /\ (jobs' <= reaped' \/ threw')
    BY <1>a, <1>5, <2>0 DEF RejectionFatal, FreeEvent, Settled, TypeOK, loopVars
  <2>2. stk' \in Seq(Frames) /\ Stacked' /\ Settled'
    BY <2>1, Between
  <2>3. {pending[i] : i \in DOMAIN pending} \subseteq Promises
    BY <1>a DEF TypeOK
  <2>4. pending' \in Seq(Promises)
    BY <1>5, EmptySeq DEF RejectionFatal
  <2>5. dropped' \subseteq Promises
    BY <1>a, <1>5, <2>3 DEF RejectionFatal, TypeOK
  <2>6. TypeOK'
    <3>1. jobs' \in Nat /\ reaped' \in Nat /\ calls' \in 0 .. MaxCalls
      BY <1>a, <1>5, EventLoopAssumption DEF RejectionFatal, FreeEvent, TypeOK
    <3> QED
      BY <1>a, <1>5, <2>2, <2>4, <2>5, <3>1
         DEF RejectionFatal, AbortEnds, RequestStop, TypeOK, loopVars
  <2>7. Waits'
    BY <1>a, <1>5, <2>1 DEF RejectionFatal, RequestStop, Waits, NothingLeft
  <2> QED
    BY <2>2, <2>6, <2>7 DEF IInv
<1>6. CASE CheckEnd
  <2>1. stk' = <<>> /\ pc' = "closing"
    BY <1>6 DEF CheckEnd
  <2>2. stk' \in Seq(Frames) /\ Stacked' /\ Settled'
    BY <2>1, Between
  <2>3. idle' \in BOOLEAN /\ (pending' # <<>> => idle')
    BY <1>6 DEF CheckEnd, MaybeIdle
  <2>4. TypeOK'
    BY <1>a, <1>6, <2>2, <2>3 DEF CheckEnd, TypeOK, stopVars, history
  <2>5. Waits'
    BY <1>a, <1>6, <2>3 DEF CheckEnd, Waits, NothingLeft, stopVars
  <2> QED
    BY <2>2, <2>4, <2>5 DEF IInv
<1>7. CASE UseFreed
  <2>1. stk' = <<>> /\ pc' = "undefined"
    BY <1>7 DEF UseFreed
  <2>2. stk' \in Seq(Frames) /\ Stacked' /\ Settled'
    BY <2>1, Between
  <2>3. TypeOK'
    BY <1>a, <1>7, <2>1, <2>2 DEF UseFreed, TypeOK, listVars, stopVars, history
  <2>4. Waits'
    BY <1>a, <1>7, <2>1 DEF UseFreed, Waits, NothingLeft, listVars, stopVars
  <2> QED
    BY <2>2, <2>3, <2>4 DEF IInv
<1> QED
  BY <1>1, <1>2, <1>3, <1>4, <1>5, <1>6, <1>7

\* So does another step of the loop.
LEMMA TurnKeeps ==
  ASSUME IInv, UNCHANGED is_worker,
         Enter \/ Prepare \/ Stopped \/ PollEnd \/ EarlyEnd \/ ClosingEnd \/ TurnEnd \/ Leave
           \/ UnloadEnd
  PROVE  IInv'
<1>a. TypeOK /\ Stacked /\ Settled /\ Waits
  BY DEF IInv
<1>1. CASE Enter
  <2>1. stk = <<>> /\ stk' = <<>> /\ pc' \in {"early", "enter", "left"}
    BY <1>a, <1>1, Resting DEF Enter, AfterRun
  <2>2. stk' \in Seq(Frames) /\ Stacked' /\ Settled'
    BY <2>1, Between
  <2>3. /\ idle' \in BOOLEAN /\ (pending' # <<>> => idle')
        /\ pc' = "left" => jobs' = 0 /\ pending' = <<>>
    <3>1. idle' = (jobs > 0 \/ pending' # <<>>) /\ jobs' = jobs
      BY <1>1 DEF Enter, MaybeIdle
    <3>2. pc' = "left" => ~idle'
      BY <1>1 DEF Enter, Alive
    <3>3. jobs \in Nat
      BY <1>a DEF TypeOK
    <3>4. idle' \in BOOLEAN /\ (pending' # <<>> => idle')
      BY <3>1
    <3>5. ~idle' => ~(jobs > 0) /\ pending' = <<>>
      BY <3>1
    <3>6. ~(jobs > 0) => jobs' = 0
      BY <3>1, <3>3
    <3> QED
      BY <3>2, <3>4, <3>5, <3>6
  <2>4. TypeOK'
    BY <1>a, <1>1, <2>1, <2>2, <2>3 DEF Enter, TypeOK, stopVars, history
  <2>5. Waits'
    BY <1>a, <1>1, <2>1, <2>3 DEF Enter, Waits, NothingLeft, stopVars
  <2> QED
    BY <2>2, <2>4, <2>5 DEF IInv
<1>2. CASE Prepare
  <2>1. stk' = <<>> /\ pc' = "poll"
    BY <1>a, <1>2, Resting DEF Prepare
  <2>2. stk' \in Seq(Frames) /\ Stacked' /\ Settled'
    BY <2>1, Between
  <2>3. idle' = (jobs > 0 \/ pending' # <<>>) /\ jobs' = jobs
    BY <1>2 DEF Prepare, Prepared, MaybeIdle
  <2>4. idle' \in BOOLEAN /\ (pending' # <<>> => idle') /\ (idle' \/ jobs' = 0)
    <3>1. idle' \in BOOLEAN /\ (pending' # <<>> => idle') /\ (idle' \/ ~(jobs > 0))
      BY <2>3
    <3>2. ~(jobs > 0) => jobs' = 0
      BY <1>a, <2>3 DEF TypeOK
    <3> QED
      BY <3>1, <3>2
  <2>5. TypeOK'
    BY <1>a, <1>2, <2>2, <2>4 DEF Prepare, TypeOK, stopVars, history
  <2>6. Waits'
    BY <1>a, <1>2, <2>1, <2>4 DEF Prepare, Waits, NothingLeft, stopVars
  <2> QED
    BY <2>2, <2>5, <2>6 DEF IInv
<1>3. CASE Stopped
  <2>1. stk' = <<>> /\ pc' = "poll"
    BY <1>3 DEF Stopped
  <2>2. stk' \in Seq(Frames) /\ Stacked' /\ Settled'
    BY <2>1, Between
  <2>3. TypeOK'
    BY <1>a, <1>3, <2>2 DEF Stopped, TypeOK, listVars, history
  <2>4. Waits'
    BY <1>a, <1>3, <2>1 DEF Stopped, Waits, NothingLeft, listVars
  <2> QED
    BY <2>2, <2>3, <2>4 DEF IInv
<1>4. CASE PollEnd \/ EarlyEnd \/ ClosingEnd
  <2>1. stk' = <<>> /\ pc' \in {"check", "prepare", "timers"}
    BY <1>4 DEF PollEnd, EarlyEnd, ClosingEnd
  <2>2. stk' \in Seq(Frames) /\ Stacked' /\ Settled'
    BY <2>1, Between
  <2>3. TypeOK'
    BY <1>a, <1>4, <2>1, <2>2 DEF PollEnd, EarlyEnd, ClosingEnd, TypeOK, listVars, stopVars,
       history
  <2>4. Waits'
    BY <1>a, <1>4, <2>1 DEF PollEnd, EarlyEnd, ClosingEnd, Waits, NothingLeft, listVars, stopVars
  <2> QED
    BY <2>2, <2>3, <2>4 DEF IInv
<1>5. CASE TurnEnd
  <2>1. stk' = <<>> /\ pc' \in {"prepare", "enter", "left"} /\ UNCHANGED <<jobs, idle, pending>>
    BY <1>5 DEF TurnEnd, AfterRun, listVars
  <2>2. stk' \in Seq(Frames) /\ Stacked' /\ Settled'
    BY <2>1, Between
  <2>3. TypeOK'
    BY <1>a, <1>5, <2>1, <2>2 DEF TurnEnd, TypeOK, listVars, history
  <2>4. stopFlag' => stopFlag
    BY <1>5 DEF TurnEnd
  <2>5. pc' = "left" /\ ~stopping => jobs = 0 /\ pending = <<>>
    <3>1. CASE ~Alive(idle, ops)
      <4>1. pc' = IF jobs > 0 THEN "enter" ELSE "left"
        BY <1>5, <3>1 DEF TurnEnd, AfterRun
      <4>2. ~idle
        BY <3>1 DEF Alive
      <4>3. pending = <<>> /\ jobs \in Nat
        BY <1>a, <4>2 DEF Waits, TypeOK
      <4> QED
        BY <4>1, <4>3
    <3>2. CASE Alive(idle, ops)
      BY <1>a, <1>5, <3>2 DEF TurnEnd, Waits
    <3> QED
      BY <3>1, <3>2
  <2>6. Waits'
    BY <1>a, <1>5, <2>1, <2>4, <2>5 DEF TurnEnd, Waits, NothingLeft
  <2> QED
    BY <2>2, <2>3, <2>6 DEF IInv
<1>6. CASE Leave
  <2>1. CASE is_worker
    <3>1. stk' = <<>> /\ pc' = "exit" /\ UNCHANGED prevented
      BY <1>a, <1>6, <2>1, Resting DEF Leave
    <3>2. stk' \in Seq(Frames) /\ Stacked' /\ Settled'
      BY <3>1, Between
    <3>3. TypeOK'
      BY <1>a, <1>6, <3>1, <3>2 DEF Leave, TypeOK, listVars, stopVars, history
    <3>4. Waits'
      BY <1>a, <1>6, <3>1 DEF Leave, Waits, NothingLeft, listVars, stopVars
    <3> QED
      BY <3>2, <3>3, <3>4 DEF IInv
  <2>2. CASE ~is_worker
    <3>1. stk' = <<"unload">> /\ pc' = "unload" /\ prevented' = FALSE
      BY <1>6, <2>2 DEF Leave
    <3>2. /\ stk' \in Seq(Frames) /\ stk' # <<>> /\ Stacked' /\ Top' = "unload"
          /\ ~On("break")'
      BY <3>1, CalledByLoop DEF Bottom, Frames
    <3>3. TypeOK'
      BY <1>a, <1>6, <3>1, <3>2 DEF Leave, TypeOK, listVars, stopVars, history
    <3>4. Waits'
      BY <1>a, <1>6, <3>1 DEF Leave, Waits, NothingLeft, listVars, stopVars
    <3> QED
      BY <3>2, <3>3, <3>4 DEF IInv, Settled
  <2> QED
    BY <2>1, <2>2
<1>7. CASE UnloadEnd
  <2>1. stk' = <<>> /\ pc' \in {"enter", "exit"}
    BY <1>7 DEF UnloadEnd
  <2>2. stk' \in Seq(Frames) /\ Stacked' /\ Settled'
    BY <2>1, Between
  <2>3. TypeOK'
    BY <1>a, <1>7, <2>1, <2>2 DEF UnloadEnd, TypeOK, listVars, stopVars, history
  <2>4. Waits'
    BY <1>a, <1>7, <2>1 DEF UnloadEnd, Waits, NothingLeft, listVars, stopVars
  <2> QED
    BY <2>2, <2>3, <2>4 DEF IInv
<1> QED
  BY <1>1, <1>2, <1>3, <1>4, <1>5, <1>6, <1>7

\* So does a callback.
LEMMA CallbackKeeps ==
  ASSUME IInv, UNCHANGED is_worker, Callback
  PROVE  IInv'
<1>a. TypeOK /\ Stacked /\ Settled /\ Waits
  BY DEF IInv
<1>p. /\ pc \notin {"reject", "walk", "left"} /\ stk = <<>> /\ polled' = TRUE
      /\ UNCHANGED <<pc, prevented, stopVars, el, el1>>
      /\ pc \in {"early", "poll", "closing", "timers"}
  BY DEF Callback, Settle, CallHandler, Completes, PhaseOf, Track, listVars, Ops
<1>o. ops' \in [Ops -> Nat]
  <2>1. PICK k \in Ops : ops[k] > 0 /\ ops' = [ops EXCEPT ![k] = @ - 1]
    BY DEF Callback, Settle, CallHandler, Completes, Ops
  <2> QED
    BY <1>a, <2>1 DEF TypeOK
<1>1. CASE \E k \in Ops : CallHandler(k)
  <2>1. /\ stk' = <<"handler", "free">>
        /\ UNCHANGED <<jobs, idle, pending, rejected, handled, reported, threw, dropped, reaped,
                      calls>>
    BY <1>1 DEF CallHandler, listVars, history
  <2>2. stk' \in Seq(Frames) /\ stk' # <<>> /\ Top' = "handler" /\ Stacked' /\ ~On("break")'
    <3>1. /\ stk' \in Seq(Frames) /\ stk' # <<>> /\ Len(stk') = 2 /\ DOMAIN stk' = 1 .. 2
          /\ stk'[1] = "handler" /\ stk'[2] = "free" /\ Head(stk') = "handler"
      BY <2>1 DEF Frames
    <3>2. Chain(stk')
      <4>1. \A i \in DOMAIN stk' : i + 1 \in DOMAIN stk' => i = 1
        BY <3>1
      <4> QED
        BY <3>1, <4>1 DEF Chain, Above
    <3>3. Stacked'
      BY <1>p, <3>1, <3>2 DEF Stacked, Bottom
    <3>4. ~On("break")'
      BY <3>1 DEF On
    <3> QED
      BY <3>1, <3>3, <3>4 DEF Top
  <2>3. TypeOK'
    BY <1>a, <1>o, <1>p, <2>1, <2>2 DEF TypeOK, stopVars
  <2>4. Waits'
    BY <1>a, <1>p, <2>1 DEF Waits, NothingLeft, stopVars
  <2> QED
    BY <2>2, <2>3, <2>4 DEF IInv, Settled
<1>2. CASE Settle
  <2>1. stk' = <<>> /\ UNCHANGED calls
    BY <1>2, <1>p DEF Settle
  <2>2. stk' \in Seq(Frames) /\ Stacked' /\ Settled'
    BY <1>p, <2>1, Between
  <2>3. CASE jobs' = jobs + 1 /\ UNCHANGED <<idle, listVars, history>>
    <3>1. TypeOK'
      BY <1>a, <1>o, <1>p, <2>1, <2>2, <2>3 DEF TypeOK, stopVars, listVars, history
    <3>2. Waits'
      BY <1>a, <1>p, <2>1, <2>3 DEF Waits, NothingLeft, stopVars, listVars
    <3> QED
      BY <2>2, <3>1, <3>2 DEF IInv
  <2>4. CASE UNCHANGED jobs /\ \E p \in Promises : Track(p)
    <3>1. PICK p \in Promises : Track(p)
      BY <2>4
    <3>2. Append(pending, p) \in Seq(Promises)
      BY <1>a, ListTyped
    <3>3. /\ pending' = Append(pending, p) /\ idle' = (jobs > 0 \/ pending' # <<>>)
          /\ rejected' = rejected \cup {p}
          /\ UNCHANGED <<handled, reported, threw, dropped, reaped>>
      BY <3>1 DEF Track, Add, MaybeIdle
    <3>4. idle' \in BOOLEAN /\ (pending' # <<>> => idle')
      BY <3>3
    <3>5. TypeOK'
      BY <1>a, <1>o, <1>p, <2>1, <2>2, <2>4, <3>2, <3>3, <3>4 DEF TypeOK, stopVars
    <3>6. Waits'
      BY <1>a, <1>p, <2>1, <3>4 DEF Waits, NothingLeft, stopVars
    <3> QED
      BY <2>2, <3>5, <3>6 DEF IInv
  <2> QED
    BY <1>2, <2>3, <2>4 DEF Settle
<1> QED
  BY <1>1, <1>2 DEF Callback

\* It holds at the start.
LEMMA Starts == Init => IInv
<1> SUFFICES ASSUME Init PROVE IInv
  OBVIOUS
<1>a. pending \in Seq(Promises) /\ {el, el1} \subseteq Promises \cup {None}
  BY EmptySeq DEF Init
<1>b. calls \in 0 .. MaxCalls /\ ops \in [Ops -> Nat] /\ jobs \in Nat /\ reaped \in Nat
  BY EventLoopAssumption DEF Init
<1>c. is_worker \in BOOLEAN
  BY DEF Init
<1>d. idle = FALSE /\ stopSent = FALSE /\ stopFlag = FALSE /\ stopping = FALSE
      /\ polled = FALSE /\ prevented = FALSE /\ threw = FALSE
      /\ rejected = {} /\ handled = {} /\ reported = {} /\ dropped = {}
  BY DEF Init
<1>1. CASE is_worker
  <2>1. stk = <<>> /\ pc = "enter"
    BY <1>1 DEF Init
  <2>2. DOMAIN stk = {} /\ stk \in Seq(Frames)
    BY <2>1
  <2>3. Stacked /\ Settled
    BY <2>1, <2>2 DEF Stacked, Settled, Chain, Top, On
  <2>4. TypeOK
    BY <1>a, <1>b, <1>c, <1>d, <2>1, <2>2 DEF TypeOK
  <2>5. Waits
    BY <2>1 DEF Init, Waits, NothingLeft
  <2> QED
    BY <2>3, <2>4, <2>5 DEF IInv
<1>2. CASE ~is_worker
  <2>1. stk = <<"main">> /\ pc = "eval"
    BY <1>2 DEF Init
  <2>2. /\ stk \in Seq(Frames) /\ Len(stk) = 1 /\ DOMAIN stk = {1} /\ stk[1] = "main"
        /\ Head(stk) = "main"
    BY <2>1 DEF Frames
  <2>3. Stacked /\ Settled
    BY <2>1, <2>2 DEF Stacked, Settled, Chain, Top, On, Bottom
  <2>4. TypeOK
    BY <1>a, <1>b, <1>c, <1>d, <2>1, <2>2 DEF TypeOK
  <2>5. Waits
    BY <2>1 DEF Init, Waits, NothingLeft
  <2> QED
    BY <2>3, <2>4, <2>5 DEF IInv
<1> QED
  BY <1>1, <1>2

\* Every step keeps it.
LEMMA NextKeeps == IInv /\ [Next]_vars => IInv'
<1> SUFFICES ASSUME IInv, [Next]_vars PROVE IInv'
  OBVIOUS
<1>1. CASE InFrame /\ UNCHANGED is_worker
  BY <1>1, FrameKeeps
<1>2. CASE Turn /\ UNCHANGED is_worker
  BY <1>2, WalkKeeps, TurnKeeps DEF Turn
<1>3. CASE Callback /\ UNCHANGED is_worker
  BY <1>3, CallbackKeeps
<1>4. CASE UNCHANGED vars
  BY <1>4 DEF IInv, TypeOK, Stacked, Settled, Waits, NothingLeft, Top, On, vars, listVars,
     stopVars, loopVars, history
<1> QED
  BY <1>1, <1>2, <1>3, <1>4 DEF Next, InFrame

\* It always holds.
LEMMA AlwaysIInv == Spec => []IInv
<1>1. Init => IInv
  BY Starts
<1>2. IInv /\ [Next]_vars => IInv'
  BY NextKeeps
<1> QED
  BY <1>1, <1>2, PTL DEF Spec

\* The loop neither sleeps nor ends while a job or a rejection waits: the idle
\* handle is active whenever the list is not empty, jobs are only queued by
\* functions, after each of which they are drained, or by callbacks of a poll
\* that then does not block.
THEOREM LoopNeverWaits == Spec => []NothingWaits
<1>1. IInv => NothingWaits
  BY DEF IInv, Waits, NothingWaits, NeverAsleep, TypeOK
<1> QED
  BY <1>1, AlwaysIInv, PTL

----------------------------------------------------------------------------
(* The list and the walk.                                                  *)

\* Where the walk goes on is another entry of the list.
LEMMA NextOfIt ==
  ASSUME NEW s \in Seq(Promises), Unique(s), NEW p, NextOf(s, p) # None
  PROVE  NextOf(s, p) \in Members(s) /\ NextOf(s, p) # p
<1> DEFINE i == CHOOSE i \in 1 .. (Len(s) - 1) : s[i] = p
<1>1. i \in 1 .. (Len(s) - 1) /\ s[i] = p /\ NextOf(s, p) = s[1 + i]
  BY DEF NextOf
<1> HIDE DEF i
<1>2. i \in DOMAIN s /\ 1 + i \in DOMAIN s /\ 1 + i # i
  BY <1>1, LenProperties
<1> QED
  BY <1>1, <1>2 DEF Unique, Members

\* A rejection is added at the end.
LEMMA AppendIt ==
  ASSUME NEW s \in Seq(Promises), NEW p \in Promises, Unique(s), p \notin Members(s)
  PROVE  Unique(Append(s, p)) /\ Members(Append(s, p)) = Members(s) \cup {p}
<1> DEFINE r == Append(s, p)
<1>1. /\ r \in Seq(Promises) /\ Len(r) = Len(s) + 1 /\ Len(s) \in Nat
      /\ \A i \in 1 .. Len(s) : r[i] = s[i]
      /\ r[Len(s) + 1] = p
  BY AppendProperties, LenProperties
<1>2. DOMAIN r = 1 .. Len(s) + 1 /\ DOMAIN s = 1 .. Len(s)
  BY <1>1, LenProperties
<1> HIDE DEF r
<1>3. \A i \in DOMAIN r : (i = Len(s) + 1 /\ r[i] = p) \/ (i \in DOMAIN s /\ r[i] = s[i])
  BY <1>1, <1>2
<1>4. Unique(r)
  <2> SUFFICES ASSUME NEW i \in DOMAIN r, NEW j \in DOMAIN r, r[i] = r[j] PROVE i = j
    BY DEF Unique
  <2> QED
    BY <1>3 DEF Unique, Members
<1>5. \A i \in DOMAIN s : i \in DOMAIN r /\ r[i] = s[i]
  BY <1>1, <1>2
<1>6. Len(s) + 1 \in DOMAIN r
  BY <1>1, <1>2
<1>7. Members(r) = Members(s) \cup {p}
  BY <1>1, <1>3, <1>5, <1>6 DEF Members
<1> QED
  BY <1>4, <1>7 DEF r

\* The cursors of the walk are entries of the list, or were handled and freed under it.
Cursors ==
  pc = "walk" =>
    /\ el = None => stk = <<>> /\ el1 = None
    /\ el # None => Listed(el) \/ el \in handled
    /\ el1 # None => (Listed(el1) \/ el1 \in handled) /\ el1 # el
    /\ stk # <<>> => el \in reported

\* What is reported, handled or forgotten was rejected.
Known == handled \cup reported \cup dropped \subseteq rejected

\* The parts of the invariant that are about the list.
Listing == Cursors /\ Known /\ Ledger

\* The list, in sets.
LEMMA ListOf ==
  ASSUME IInv, Ledger
  PROVE  /\ Unique(pending)
         /\ Members(pending) = ((rejected \ handled) \ dropped) \ (reported \ Current)
         /\ \A p : Listed(p) <=> p \in Members(pending)
BY DEF Ledger, Unique, Members, Listed

\* The steps that leave the list, its walk and its history alone.
LEMMA SameList ==
  ASSUME Listing, UNCHANGED <<listVars, rejected, handled, reported, dropped>>, Current' = Current,
         pc' = "walk" => pc = "walk", pc' = "walk" => (stk' = <<>> <=> stk = <<>>)
  PROVE  Listing'
BY DEF Listing, Cursors, Known, Ledger, Listed, listVars

\* A promise is rejected.
LEMMA Tracked ==
  ASSUME IInv, Listing, NEW p \in Promises, Track(p), Current' = Current,
         pc' = pc, stk' = <<>> <=> stk = <<>>
  PROVE  Listing'
<1>1. /\ Unique(pending)
      /\ Members(pending) = ((rejected \ handled) \ dropped) \ (reported \ Current)
      /\ \A q : Listed(q) <=> q \in Members(pending)
  BY ListOf DEF Listing
<1>2. /\ p \notin rejected /\ rejected' = rejected \cup {p} /\ pending' = Append(pending, p)
      /\ UNCHANGED <<el, el1, handled, reported, dropped>>
  BY DEF Track, Add
<1>3. pending \in Seq(Promises) /\ p \notin Members(pending)
  BY <1>1, <1>2 DEF IInv, TypeOK
<1>4. Unique(pending') /\ Members(pending') = Members(pending) \cup {p}
  BY <1>1, <1>2, <1>3, AppendIt
<1>5. \A q : Listed(q)' <=> q \in Members(pending')
  BY DEF Listed, Members
<1>6. Known'
  BY <1>2 DEF Listing, Known
<1>7. Members(pending') = ((rejected' \ handled') \ dropped') \ (reported' \ Current')
  BY <1>1, <1>2, <1>4 DEF Listing, Known
<1>8. Ledger'
  BY <1>4, <1>7 DEF Ledger, Unique, Members
<1>9. Cursors'
  BY <1>1, <1>2, <1>4, <1>5 DEF Listing, Cursors
<1> QED
  BY <1>6, <1>8, <1>9 DEF Listing

\* A promise is handled, maybe that of the current event or of the next.
LEMMA Untracked ==
  ASSUME IInv, Listing, NEW p \in Promises, p \in rejected,
         handled' = handled \cup {p}, Removed(p),
         UNCHANGED <<el, el1, rejected, reported, dropped>>, Current' = Current,
         pc' = pc, stk' = <<>> <=> stk = <<>>
  PROVE  Listing'
<1>1. /\ Unique(pending)
      /\ Members(pending) = ((rejected \ handled) \ dropped) \ (reported \ Current)
      /\ \A q : Listed(q) <=> q \in Members(pending)
  BY ListOf DEF Listing
<1>2. pending \in Seq(Promises) /\ pending' = Without(pending, p)
  BY DEF IInv, TypeOK, Removed
<1>3. Unique(pending') /\ Members(pending') = Members(pending) \ {p}
  BY <1>1, <1>2, WithoutIt
<1>4. \A q : Listed(q)' <=> q \in Members(pending')
  BY DEF Listed, Members
<1>5. Known'
  BY DEF Listing, Known
<1>6. Members(pending') = ((rejected' \ handled') \ dropped') \ (reported' \ Current')
  BY <1>1, <1>3
<1>7. Ledger'
  BY <1>3, <1>6 DEF Ledger, Unique, Members
<1>8. Cursors'
  BY <1>1, <1>3, <1>4 DEF Listing, Cursors
<1> QED
  BY <1>5, <1>7, <1>8 DEF Listing

\* A step of a function keeps what is said of the list.
LEMMA FrameLists ==
  ASSUME IInv, Listing, InFrame, Framed, stk # <<>>
  PROVE  Listing'
<1>1. /\ el' = el /\ el1' = el1 /\ reported' = reported /\ dropped' = dropped
      /\ \/ UNCHANGED <<pending, rejected, handled>>
         \/ /\ pc' = pc /\ stk' = stk
            /\ \E p \in Promises : Reject(p) \/ Handle(p)
  BY DEF InFrame, Script, EnqueueJob, SelfClose, DispatchEvent, StartDelivery, PreventDefault,
     Reject, Handle, StartOp, Track, Return, MainReturn, HandlerReturn, FreeArgs, JobReturn,
     ListenerReturn, Fatal, RunJob, DrainEnd, ErrorEnd, Throw, MainThrow, HandlerThrow, JobThrow,
     CallListener, listVars, loopVars, history
<1>2. /\ pc' = "walk" => pc = "walk" /\ stk' # <<>>
      /\ pc = "walk" => pc' = "walk"
  BY DEF Framed
<1>3. Current' = Current
  BY <1>1, <1>2 DEF Current
<1>4. CASE UNCHANGED <<pending, rejected, handled>>
  BY <1>1, <1>2, <1>3, <1>4, SameList DEF listVars
<1>5. ASSUME NEW p \in Promises, Reject(p), pc' = pc, stk' = stk PROVE Listing'
  <2>1. Track(p)
    BY <1>5 DEF Reject
  <2> QED
    BY <1>3, <1>5, <2>1, Tracked
<1>6. ASSUME NEW p \in Promises, Handle(p), pc' = pc, stk' = stk PROVE Listing'
  <2>1. p \in rejected /\ handled' = handled \cup {p} /\ Removed(p)
        /\ UNCHANGED <<el, el1, rejected, reported, dropped>>
    BY <1>6 DEF Handle
  <2> QED
    BY <1>3, <1>6, <2>1, Untracked
<1> QED
  BY <1>1, <1>4, <1>5, <1>6

\* So does a step of the loop.
LEMMA LoopLists ==
  ASSUME IInv, Listing, Turn \/ Callback
  PROVE  Listing'
<1>a. TypeOK /\ Stacked
  BY DEF IInv
<1>b. /\ Unique(pending)
      /\ Members(pending) = ((rejected \ handled) \ dropped) \ (reported \ Current)
      /\ \A q : Listed(q) <=> q \in Members(pending)
      /\ pending \in Seq(Promises)
  BY <1>a, ListOf DEF Listing, TypeOK
<1>c. Cursors /\ Known
  BY DEF Listing
<1>1. CASE Walk
  <2>1. /\ pc' = "walk" /\ pc = "reject" /\ stk = <<>>
        /\ UNCHANGED <<stk, pending, rejected, handled, reported, dropped>>
        /\ el' = (IF pending = <<>> THEN None ELSE Head(pending))
        /\ el1' = (IF pending = <<>> THEN None ELSE NextOf(pending, Head(pending)))
    BY <1>1 DEF Walk, history
  <2>2. Current' = Current
    BY <2>1 DEF Current
  <2>3. Known' /\ Ledger'
    BY <1>c, <2>1, <2>2 DEF Listing, Known, Ledger
  <2>4. \A q : Listed(q)' <=> q \in Members(pending)
    BY <1>b, <2>1 DEF Listed
  <2>5. CASE pending = <<>>
    <3>1. Cursors'
      BY <2>1, <2>5 DEF Cursors
    <3> QED
      BY <2>3, <3>1 DEF Listing
  <2>6. CASE pending # <<>>
    <3>1. 1 \in DOMAIN pending /\ Head(pending) = pending[1]
      BY <1>b, <2>6, EmptySeq, LenProperties
    <3>2. Head(pending) \in Members(pending) /\ Head(pending) # None
      <4>1. Head(pending) \in Members(pending)
        BY <3>1 DEF Members
      <4>2. Head(pending) \in Promises
        BY <1>b, <2>6, EmptySeq
      <4> QED
        BY <4>1, <4>2, EventLoopAssumption
    <3>3. el1' # None => el1' \in Members(pending) /\ el1' # el'
      BY <1>b, <2>1, <2>6, NextOfIt
    <3>4. Cursors'
      BY <2>1, <2>4, <2>6, <3>2, <3>3 DEF Cursors
    <3> QED
      BY <2>3, <3>4 DEF Listing
  <2> QED
    BY <2>3, <2>5, <2>6 DEF Listing
<1>2. CASE RejectionStart
  <2>1. /\ pc = "walk" /\ pc' = "walk" /\ stk = <<>> /\ stk' # <<>> /\ el # None
        /\ reported' = reported \cup {el}
        /\ UNCHANGED <<pending, el, el1, rejected, handled, dropped>>
    BY <1>2 DEF RejectionStart, listVars, loopVars
  <2>2. Current = {} /\ Current' = {el}
    BY <2>1 DEF Current
  <2>3. el \in Members(pending)
    BY <1>2, <1>b, <2>1 DEF RejectionStart, Stale
  <2>4. Known'
    BY <1>b, <1>c, <2>1, <2>3 DEF Known
  <2>5. Members(pending') = ((rejected' \ handled') \ dropped') \ (reported' \ Current')
    BY <1>b, <2>1, <2>2, <2>3
  <2>6. Ledger'
    BY <1>b, <2>1, <2>5 DEF Ledger, Unique, Members
  <2>7. Cursors'
    BY <1>c, <2>1 DEF Cursors, Listed
  <2> QED
    BY <2>4, <2>6, <2>7 DEF Listing
<1>3. CASE RejectionPrevented
  <2>0. pc = "walk" /\ stk # <<>>
    BY <1>3, <1>a, WalkTop DEF RejectionPrevented
  <2>1. /\ pc' = "walk" /\ stk' = <<>>
        /\ pending' = Without(pending, el) /\ el' = el1
        /\ el1' = (IF el1 = None THEN None ELSE NextOf(pending', el1))
        /\ UNCHANGED <<rejected, handled, reported, dropped>>
    BY <1>3, <2>0 DEF RejectionPrevented, loopVars
  <2>2. Current = {el} /\ Current' = {}
    BY <2>0, <2>1 DEF Current
  <2>3. /\ el \in reported
        /\ el1 # None => (el1 \in Members(pending) \/ el1 \in handled) /\ el1 # el
    BY <1>b, <1>c, <2>0 DEF Cursors
  <2>4. /\ pending' \in Seq(Promises) /\ Unique(pending')
        /\ Members(pending') = Members(pending) \ {el}
    BY <1>b, <2>1, WithoutIt
  <2>5. \A q : Listed(q)' <=> q \in Members(pending')
    BY DEF Listed, Members
  <2>6. Known'
    BY <1>c, <2>1 DEF Known
  <2>7. Members(pending') = ((rejected' \ handled') \ dropped') \ (reported' \ Current')
    BY <1>b, <2>1, <2>2, <2>3, <2>4
  <2>8. Ledger'
    BY <2>4, <2>7 DEF Ledger, Unique, Members
  <2>9. el1' # None => el1' \in Members(pending') /\ el1' # el'
    BY <2>1, <2>4, NextOfIt
  <2>10. el' # None => el' \in Members(pending') \/ el' \in handled'
    BY <2>1, <2>3, <2>4
  <2>11. Cursors'
    BY <2>1, <2>5, <2>9, <2>10 DEF Cursors
  <2> QED
    BY <2>6, <2>8, <2>11 DEF Listing
<1>4. CASE RejectionFatal
  <2>0. pc = "walk" /\ stk # <<>>
    BY <1>4, <1>a, WalkTop DEF RejectionFatal
  <2>1. /\ pc' = "walk" /\ stk' = <<>> /\ pending' = <<>> /\ el' = None /\ el1' = None
        /\ dropped' = dropped \cup Members(pending)
        /\ UNCHANGED <<rejected, handled, reported>>
    BY <1>4, <2>0 DEF RejectionFatal, AbortEnds, loopVars, Members
  <2>2. Current' = {}
    BY <2>1 DEF Current
  <2>3. DOMAIN pending' = {}
    BY <2>1
  <2>4. Known'
    BY <1>b, <1>c, <2>1 DEF Known
  <2>5. ((rejected' \ handled') \ dropped') \ (reported' \ Current') = {}
    <3>1. ((rejected \ handled) \ dropped) \ reported \subseteq Members(pending)
      BY <1>b
    <3> QED
      BY <2>1, <2>2, <3>1
  <2>6. Ledger'
    BY <2>3, <2>5 DEF Ledger
  <2>7. Cursors'
    BY <2>1 DEF Cursors
  <2> QED
    BY <2>4, <2>6, <2>7 DEF Listing
<1>5. CASE Callback
  <2>1. /\ pc # "walk" /\ pc' = pc
    BY <1>5 DEF Callback, Settle, CallHandler, Completes, PhaseOf, Ops, Track
  <2>2. Current' = Current
    BY <2>1 DEF Current
  <2>3. CASE \E k \in Ops : CallHandler(k)
    <3>1. UNCHANGED <<listVars, rejected, handled, reported, dropped>>
      BY <2>3 DEF CallHandler, history
    <3> QED
      BY <2>1, <2>2, <3>1, SameList
  <2>4. CASE Settle
    <3>1. UNCHANGED stk
      BY <2>4 DEF Settle
    <3>2. CASE UNCHANGED <<listVars, history>>
      BY <2>1, <2>2, <3>1, <3>2, SameList DEF history
    <3>3. ASSUME NEW p \in Promises, Track(p) PROVE Listing'
      BY <2>1, <2>2, <3>1, <3>3, Tracked
    <3> QED
      BY <2>4, <3>2, <3>3 DEF Settle
  <2> QED
    BY <1>5, <2>3, <2>4 DEF Callback
<1>6. CASE Check \/ CheckEnd \/ Enter \/ Prepare \/ Stopped \/ PollEnd \/ EarlyEnd \/ ClosingEnd
           \/ TurnEnd \/ Leave \/ UnloadEnd
  <2>1. UNCHANGED <<listVars, rejected, handled, reported, dropped>>
    BY <1>6 DEF Check, DrainFirst, CheckEnd, Enter, Prepare, Stopped, PollEnd, EarlyEnd,
       ClosingEnd, TurnEnd, Leave, UnloadEnd, listVars, history
  <2>2. pc' # "walk"
    BY <1>6 DEF Check, CheckEnd, Enter, AfterRun, Prepare, Stopped, PollEnd, EarlyEnd,
       ClosingEnd, TurnEnd, Leave, UnloadEnd, loopVars
  <2>3. Current' = Current
    <3>1. pc = "walk" => stk = <<>>
      <4>1. pc = "walk" => CheckEnd \/ UnloadEnd
        BY <1>6 DEF Check, Enter, Prepare, Stopped, PollEnd, EarlyEnd, ClosingEnd, TurnEnd, Leave
      <4>2. UnloadEnd => pc = "unload"
        BY <1>a, UnloadTop DEF UnloadEnd
      <4> QED
        BY <4>1, <4>2 DEF CheckEnd
    <3> QED
      BY <2>2, <3>1 DEF Current
  <2> QED
    BY <2>1, <2>2, <2>3, SameList
<1>7. CASE UseFreed
  <2>1. /\ pc = "walk" /\ pc' = "undefined" /\ el # None /\ ~Listed(el)
        /\ UNCHANGED <<listVars, rejected, handled, reported, dropped>>
    BY <1>7 DEF UseFreed, Stale, history
  <2>2. el \in handled
    BY <1>c, <2>1 DEF Cursors
  <2>3. Current \subseteq {el} /\ Current' = {}
    BY <2>1 DEF Current
  <2>4. Known'
    BY <1>c, <2>1 DEF Known
  <2>5. Members(pending') = ((rejected' \ handled') \ dropped') \ (reported' \ Current')
    BY <1>b, <2>1, <2>2, <2>3 DEF listVars
  <2>6. Ledger'
    BY <1>b, <2>1, <2>5 DEF Ledger, Unique, Members, listVars
  <2>7. Cursors'
    BY <2>1 DEF Cursors
  <2> QED
    BY <2>4, <2>6, <2>7 DEF Listing
<1> QED
  BY <1>1, <1>2, <1>3, <1>4, <1>5, <1>6, <1>7 DEF Turn

\* It holds at the start.
LEMMA ListStarts == Init => Listing
<1> SUFFICES ASSUME Init PROVE Listing
  OBVIOUS
<1>1. /\ pending = <<>> /\ rejected = {} /\ handled = {} /\ reported = {} /\ dropped = {}
      /\ pc # "walk"
  BY DEF Init
<1>2. DOMAIN pending = {}
  BY <1>1
<1> QED
  BY <1>1, <1>2 DEF Listing, Cursors, Known, Ledger

\* The list of rejections, whatever the listeners of its walk do: it holds what is neither
\* handled nor reported, the walk stands on a freed entry only if a script handled that
\* promise under it, and jobs that may handle a promise have run before it is reported, but
\* those that the walk queued with what it freed (vm.c:389-452, 888-956).
THEOREM RejectionsSound == Spec => []Rejections
<1>1. Init => IInv /\ Listing
  BY Starts, ListStarts
<1>2. IInv /\ Listing /\ [Next]_vars => (IInv /\ Listing)'
  <2> SUFFICES ASSUME IInv, Listing, [Next]_vars PROVE (IInv /\ Listing)'
    OBVIOUS
  <2>1. IInv'
    BY NextKeeps
  <2>2. CASE InFrame /\ UNCHANGED is_worker
    <3>1. Framed /\ stk # <<>>
      BY <2>2, FrameKeeps
    <3> QED
      BY <2>1, <2>2, <3>1, FrameLists
  <2>3. CASE Turn \/ Callback
    BY <2>1, <2>3, LoopLists
  <2>4. CASE UNCHANGED vars
    <3>1. UNCHANGED <<listVars, rejected, handled, reported, dropped, pc, stk>>
      BY <2>4 DEF vars, listVars, loopVars, history
    <3>2. Current' = Current
      BY <3>1 DEF Current, listVars
    <3> QED
      BY <2>1, <3>1, <3>2, SameList
  <2> QED
    BY <2>2, <2>3, <2>4 DEF Next, InFrame
<1>3. IInv /\ Listing => Rejections
  BY DEF IInv, Listing, Settled, Cursors, Rejections, Stale, StaleIfHandled, JobsFirst
<1> QED
  BY <1>1, <1>2, <1>3, PTL DEF Spec

=============================================================================
