----------------------------- MODULE Lws_proofs -----------------------------
(***************************************************************************)
(* What the HTTP client runs on, and the client itself; proofs that TLAPS  *)
(* checks.                                                                 *)
(*                                                                         *)
(* EvLib: the table of watchers is sound for any set of sockets, racers    *)
(* and descriptors, whatever lws does behind the library's back.           *)
(* TableSound is not inductive.  Whether a new key is free depends on what *)
(* lws knows: a racer that lws has is in the table, one that lws does not  *)
(* have is not (Races); a primary watcher is that of the present socket if *)
(* that has one (Primaries); and a descriptor has one user (Users).        *)
(*                                                                         *)
(* Fetch: the native clients of a request, its promise and its two bodies. *)
(* The properties are not inductive.  FetchSound adds the stages of a      *)
(* client (Staged); that all hops but the last are over and were redirects *)
(* (Chained); that HttpClient knows the client that waits, and that one    *)
(* does until the request is over (Known, Awaited); and how far the        *)
(* promise (Settling), the response (Streamed, Served) and the request     *)
(* body (Framed, Chunked) have come.                                       *)
(***************************************************************************)
EXTENDS EvLib, Fetch, SequenceTheorems, FiniteSetTheorems, TLAPS

----------------------------------------------------------------------------
(* The event library.                                                      *)

\* The racers of lws and the watchers with a racer index correspond.
Races ==
  /\ \A w \in Wsis, p \in Racers : racer[w][p] \in Fds =>
       \E x \in watchers : x.wsi = w /\ x.pidx = p /\ x.fd = racer[w][p]
  /\ \A x \in watchers : x.pidx # Primary => racer[x.wsi][x.pidx] # None

\* A wsi that has a primary watcher has one for its socket.
Primaries ==
  \A x \in watchers : x.pidx = Primary /\ desc[x.wsi] # None =>
    \E y \in watchers : y.wsi = x.wsi /\ y.fd = desc[x.wsi]

\* Every descriptor lws uses is its own and is used once.
Users ==
  \A w \in Wsis :
    /\ desc[w] # None => /\ owner[desc[w]] = "lws"
                         /\ \A v \in Wsis : desc[v] = desc[w] => v = w
                         /\ \A v \in Wsis, q \in Racers : racer[v][q] # desc[w]
    /\ \A p \in Racers : racer[w][p] \in Fds =>
         /\ owner[racer[w][p]] = "lws"
         /\ \A v \in Wsis, q \in Racers : racer[v][q] = racer[w][p] => v = w /\ q = p

\* What a wsi may have.
States ==
  /\ \A w \in Wsis : wsis[w] = "free" => desc[w] = None
  /\ \A w \in Wsis, p \in Racers : wsis[w] # "client" => racer[w][p] = None
  /\ \A x \in watchers : x.ref => wsis[x.wsi] = "listen" /\ desc[x.wsi] = x.fd

\* The two handles of the tick are the closes to come.
Ticks == pendingCloses = tickHandles

Table == OnePoll /\ OneSlot /\ NoDangling /\ Races /\ Primaries /\ Users /\ States /\ NotDeaf
Sound == TypeOK /\ Table /\ ClosedOnce /\ Ticks

----------------------------------------------------------------------------
\* What tjs__evlib_io makes of the table: nothing, or the watcher n of the socket, which
\* is new, or is the one it had, or was taken from another wsi.
Stopped(t, fd, start) == FindByFd(watchers, fd) = {} /\ ~start /\ t = watchers
Adopted(t, n, w, fd, start, flags) ==
  /\ FindByFd(watchers, fd) = {} /\ start
  /\ n \in Watcher /\ n.wsi = w /\ n.pidx = Primary /\ n.fd = fd /\ ~n.ref
  /\ n.events = {Readable} \cup flags
  /\ \A y : y \in t <=> y = n \/ y \in watchers
Stayed(t, n, x, w, fd, start, flags) ==
  /\ x \in watchers /\ x.fd = fd /\ x.wsi = w
  /\ n \in Watcher /\ n.wsi = w /\ n.pidx = x.pidx /\ n.fd = fd /\ n.ref = x.ref
  /\ n.events = Subscribe(x.events, start, flags)
  /\ \A y : y \in t <=> y = n \/ (y \in watchers /\ y # x)
Taken(t, n, x, w, fd, start, flags) ==
  /\ x \in watchers /\ x.fd = fd /\ x.wsi # w
  /\ n \in Watcher /\ n.wsi = w /\ n.pidx = Primary /\ n.fd = fd /\ n.ref = x.ref
  /\ n.events = Subscribe(x.events, start, flags)
  /\ \A y : y \in t <=>
       y = n \/ (y \in watchers /\ y # x /\ ~(y.wsi = w /\ y.pidx = Primary))

\* A watcher that is subscribed to more or to less is that of the same socket.
LEMMA ApplyFields ==
  ASSUME NEW x \in Watcher, NEW start \in BOOLEAN, NEW flags \in SUBSET Events
  PROVE  /\ Apply(x, start, flags) \in Watcher
         /\ Apply(x, start, flags).wsi = x.wsi /\ Apply(x, start, flags).pidx = x.pidx
         /\ Apply(x, start, flags).fd = x.fd /\ Apply(x, start, flags).ref = x.ref
         /\ Apply(x, start, flags).events = Subscribe(x.events, start, flags)
<1>1. Subscribe(x.events, start, flags) \in SUBSET Events
  BY DEF Subscribe, Watcher
<1>2. Apply(x, start, flags) = [wsi |-> x.wsi, pidx |-> x.pidx, fd |-> x.fd,
                                events |-> Subscribe(x.events, start, flags), ref |-> x.ref]
  BY DEF Apply, Watcher
<1> QED
  BY <1>1, <1>2 DEF Watcher

\* tjs__evlib_io does one of these.
LEMMA IoTable ==
  ASSUME TypeOK, OnePoll, NEW w \in Wsis, NEW fd \in Fds, NEW start \in BOOLEAN,
         NEW flags \in SUBSET Events, NEW t, t = IoByFd(watchers, w, fd, start, flags)
  PROVE  \/ Stopped(t, fd, start)
         \/ \E n : Adopted(t, n, w, fd, start, flags)
         \/ \E n, x : Stayed(t, n, x, w, fd, start, flags)
         \/ \E n, x : Taken(t, n, x, w, fd, start, flags)
<1> DEFINE found == FindByFd(watchers, fd)
           moved == IF \E x \in found : x.wsi # w
                    THEN Rekey(watchers, CHOOSE x \in found : x.wsi # w, w, Primary)
                    ELSE watchers
           known == IF found = {} /\ start
                    THEN watchers \cup {Created(w, Primary, fd, {Readable}, FALSE)}
                    ELSE moved
<1>1. t = {IF y.fd = fd THEN Apply(y, start, flags) ELSE y : y \in known}
  BY DEF IoByFd
<1>2. \A y \in watchers : y \in Watcher
  BY DEF TypeOK
<1>3. CASE found = {} /\ ~start
  <2>1. known = watchers /\ \A y \in watchers : y.fd # fd
    BY <1>3 DEF FindByFd
  <2> HIDE DEF known, found
  <2>2. t = watchers
    BY <1>1, <2>1
  <2> QED
    BY <1>3, <2>2 DEF Stopped, found
<1>4. CASE found = {} /\ start
  <2> DEFINE c == Created(w, Primary, fd, {Readable}, FALSE)
             n == Apply(c, start, flags)
  <2>1. known = watchers \cup {c} /\ \A y \in watchers : y.fd # fd
    BY <1>4 DEF FindByFd
  <2>2. /\ c \in Watcher /\ c.wsi = w /\ c.pidx = Primary /\ c.fd = fd /\ ~c.ref
        /\ c.events = {Readable}
    BY EvLibAssumption DEF Created, Watcher, Keys
  <2> HIDE DEF known, found, c
  <2>3. /\ n \in Watcher /\ n.wsi = w /\ n.pidx = Primary /\ n.fd = fd /\ ~n.ref
        /\ n.events = {Readable} \cup flags
    <3>1. /\ n \in Watcher /\ n.wsi = c.wsi /\ n.pidx = c.pidx /\ n.fd = c.fd
          /\ n.ref = c.ref /\ n.events = Subscribe(c.events, start, flags)
      BY <2>2, ApplyFields
    <3> QED
      BY <1>4, <2>2, <3>1 DEF Subscribe
  <2> HIDE DEF n
  <2>4. \A y : y \in t <=> y = n \/ y \in watchers
    BY <1>1, <2>1, <2>2 DEF n
  <2> QED
    BY <1>4, <2>3, <2>4 DEF Adopted, found
<1>5. ASSUME NEW x \in watchers, x.fd = fd, x.wsi = w
      PROVE  \E n : Stayed(t, n, x, w, fd, start, flags)
  <2> DEFINE n == Apply(x, start, flags)
  <2>1. \A y \in watchers : y.fd = fd => y = x
    BY <1>5 DEF OnePoll
  <2>2. known = watchers
    BY <1>5, <2>1 DEF FindByFd
  <2> HIDE DEF known, found
  <2>3. /\ n \in Watcher /\ n.wsi = w /\ n.pidx = x.pidx /\ n.fd = fd /\ n.ref = x.ref
        /\ n.events = Subscribe(x.events, start, flags)
    BY <1>2, <1>5, ApplyFields
  <2> HIDE DEF n
  <2>4. \A y : y \in t <=> y = n \/ (y \in watchers /\ y # x)
    BY <1>1, <1>5, <2>1, <2>2 DEF n
  <2> QED
    BY <1>5, <2>3, <2>4 DEF Stayed
<1>6. ASSUME NEW x \in watchers, x.fd = fd, x.wsi # w
      PROVE  \E n : Taken(t, n, x, w, fd, start, flags)
  <2> DEFINE c == [x EXCEPT !.wsi = w, !.pidx = Primary]
             n == Apply(c, start, flags)
  <2>1. \A y \in watchers : y.fd = fd => y = x
    BY <1>6 DEF OnePoll
  <2>2. found = {x}
    BY <1>6, <2>1 DEF FindByFd
  <2>3. (CHOOSE z \in found : z.wsi # w) = x
    <3> HIDE DEF found
    <3> QED
      BY <1>6, <2>2
  <2>4. known = (({y \in watchers : ~(y.wsi = w /\ y.pidx = Primary)}) \ {x}) \cup {c}
    <3>1. known = moved /\ moved = Rekey(watchers, x, w, Primary)
      BY <1>6, <2>2, <2>3
    <3> HIDE DEF known, moved
    <3> QED
      BY <3>1 DEF Rekey, Detach, Find
  <2>5. /\ c \in Watcher /\ c.wsi = w /\ c.pidx = Primary /\ c.fd = fd /\ c.ref = x.ref
        /\ c.events = x.events
    BY <1>2, <1>6 DEF Watcher, Keys
  <2> HIDE DEF known, found, c
  <2>6. /\ n \in Watcher /\ n.wsi = w /\ n.pidx = Primary /\ n.fd = fd /\ n.ref = x.ref
        /\ n.events = Subscribe(x.events, start, flags)
    BY <2>5, ApplyFields
  <2> HIDE DEF n
  <2>7. \A y : y \in t <=>
          y = n \/ (y \in watchers /\ y # x /\ ~(y.wsi = w /\ y.pidx = Primary))
    BY <1>1, <2>1, <2>4, <2>5 DEF n
  <2> QED
    BY <1>6, <2>6, <2>7 DEF Taken
<1> QED
  BY <1>3, <1>4, <1>5, <1>6 DEF FindByFd

\* A descriptor is a socket of one wsi.
LEMMA OneUser ==
  ASSUME Users, NEW u \in Wsis, NEW v \in Wsis, NEW fd \in Fds,
         fd \in SocketsOf(u), fd \in SocketsOf(v)
  PROVE  u = v
BY EvLibAssumption DEF Users, SocketsOf

----------------------------------------------------------------------------
\* The table is empty.
LEMMA InitSound == Init => Sound
BY EvLibAssumption, FS_EmptySet
   DEF Init, Sound, Table, TypeOK, OnePoll, OneSlot, NoDangling, Races, Primaries, Users,
       States, NotDeaf, SocketsOf, ClosedOnce, Ticks, CloseCount, Primary


\* A wsi is allocated.
LEMMA NewClientSound ==
  ASSUME Sound, NEW w \in Wsis, NewClient(w)
  PROVE  Sound'
<1> USE EvLibAssumption DEF Primary
<1>0. TypeOK /\ OnePoll /\ OneSlot /\ NoDangling /\ Races /\ Primaries /\ Users /\ States
        /\ NotDeaf /\ ClosedOnce /\ Ticks
  BY DEF Sound, Table
<1>1. TypeOK'
  BY <1>0 DEF NewClient, TypeOK, Watcher, Keys, Lws, tickVars, lwsVars
<1>2. OnePoll'
  BY <1>0 DEF NewClient, OnePoll, Lws, tickVars, lwsVars, TypeOK, Watcher, Keys
<1>3. OneSlot'
  BY <1>0 DEF NewClient, OneSlot, Lws, tickVars, lwsVars, TypeOK, Watcher, Keys
<1>4. NoDangling'
  BY <1>0 DEF NewClient, NoDangling, Lws, tickVars, lwsVars, TypeOK, Watcher, Keys
<1>5. Races'
  BY <1>0 DEF NewClient, Races, Lws, tickVars, lwsVars, TypeOK, Watcher, Keys
<1>6. Primaries'
  BY <1>0 DEF NewClient, Primaries, Lws, tickVars, lwsVars, TypeOK, Watcher, Keys
<1>7. Users'
  BY <1>0 DEF NewClient, Users, Lws, tickVars, lwsVars, TypeOK, Watcher, Keys
<1>8. States'
  BY <1>0 DEF NewClient, States, Lws, tickVars, lwsVars, TypeOK, Watcher, Keys
<1>9. NotDeaf'
  BY <1>0 DEF NewClient, NotDeaf, SocketsOf, Races, OnePoll, Lws, tickVars, lwsVars, TypeOK,
     Watcher, Keys
<1>10. ClosedOnce'
  BY <1>0 DEF NewClient, ClosedOnce, Lws, tickVars, lwsVars, TypeOK, Watcher, Keys
<1>11. Ticks'
  BY <1>0 DEF NewClient, Ticks, Lws, tickVars, lwsVars, TypeOK, Watcher, Keys
<1> QED
  BY <1>1, <1>2, <1>3, <1>4, <1>5, <1>6, <1>7, <1>8, <1>9, <1>10, <1>11 DEF Sound, Table

\* A socket is closed without a call.
LEMMA CloseBehindSound ==
  ASSUME Sound, NEW w \in Wsis, CloseBehind(w)
  PROVE  Sound'
<1> USE EvLibAssumption DEF Primary
<1>0. TypeOK /\ OnePoll /\ OneSlot /\ NoDangling /\ Races /\ Primaries /\ Users /\ States
        /\ NotDeaf /\ ClosedOnce /\ Ticks
  BY DEF Sound, Table
<1>1. desc[w] \in Fds /\ owner[desc[w]] = "lws"
  BY <1>0 DEF CloseBehind, TypeOK, Users
<1>2. TypeOK'
  BY <1>0, <1>1 DEF CloseBehind, TypeOK, Watcher, Keys, Lws, tickVars, lwsVars
<1>3. OnePoll'
  BY <1>0, <1>1 DEF CloseBehind, OnePoll, Lws, tickVars, lwsVars, TypeOK, Watcher, Keys
<1>4. OneSlot'
  BY <1>0, <1>1 DEF CloseBehind, OneSlot, Lws, tickVars, lwsVars, TypeOK, Watcher, Keys
<1>5. NoDangling'
  BY <1>0, <1>1 DEF CloseBehind, NoDangling, Lws, tickVars, lwsVars, TypeOK, Watcher, Keys
<1>6. Races'
  BY <1>0, <1>1 DEF CloseBehind, Races, Lws, tickVars, lwsVars, TypeOK, Watcher, Keys
<1>7. Primaries'
  BY <1>0, <1>1 DEF CloseBehind, Primaries, Lws, tickVars, lwsVars, TypeOK, Watcher, Keys
<1>8. Users'
  BY <1>0, <1>1 DEF CloseBehind, Users, Lws, tickVars, lwsVars, TypeOK, Watcher, Keys
<1>9. States'
  BY <1>0, <1>1 DEF CloseBehind, States, Lws, tickVars, lwsVars, TypeOK, Watcher, Keys
<1>10. NotDeaf'
  BY <1>0, <1>1 DEF CloseBehind, NotDeaf, SocketsOf, Races, OnePoll, Lws, tickVars, lwsVars,
     TypeOK, Watcher, Keys
<1>11. ClosedOnce'
  BY <1>0, <1>1 DEF CloseBehind, ClosedOnce, Lws, tickVars, lwsVars, TypeOK, Watcher, Keys
<1>12. Ticks'
  BY <1>0, <1>1 DEF CloseBehind, Ticks, Lws, tickVars, lwsVars, TypeOK, Watcher, Keys
<1> QED
  BY <1>2, <1>3, <1>4, <1>5, <1>6, <1>7, <1>8, <1>9, <1>10, <1>11, <1>12 DEF Sound, Table

\* A racer replaces the socket without a call.
LEMMA PromoteSilentlySound ==
  ASSUME Sound, NEW w \in Wsis, NEW p \in Racers, PromoteSilently(w, p)
  PROVE  Sound'
<1> USE EvLibAssumption DEF Primary
<1>0. TypeOK /\ OnePoll /\ OneSlot /\ NoDangling /\ Races /\ Primaries /\ Users /\ States
        /\ NotDeaf /\ ClosedOnce /\ Ticks
  BY DEF Sound, Table
<1>1. \E y \in watchers : y.wsi = w /\ y.pidx = p /\ y.fd = racer[w][p]
  BY <1>0 DEF PromoteSilently, Races
<1>2. TypeOK'
  BY <1>0, <1>1 DEF PromoteSilently, TypeOK, Watcher, Keys, Lws, tickVars, lwsVars
<1>3. OnePoll'
  BY <1>0, <1>1 DEF PromoteSilently, OnePoll, Lws, tickVars, lwsVars, TypeOK, Watcher, Keys
<1>4. OneSlot'
  BY <1>0, <1>1 DEF PromoteSilently, OneSlot, Lws, tickVars, lwsVars, TypeOK, Watcher, Keys
<1>5. NoDangling'
  BY <1>0, <1>1 DEF PromoteSilently, NoDangling, Lws, tickVars, lwsVars, TypeOK, Watcher,
     Keys
<1>6. Races'
  BY <1>0, <1>1 DEF PromoteSilently, Races, Lws, tickVars, lwsVars, TypeOK, Watcher, Keys
<1>7. Primaries'
  BY <1>0, <1>1 DEF PromoteSilently, Primaries, Lws, tickVars, lwsVars, TypeOK, Watcher,
     Keys
<1>8. Users'
  BY <1>0, <1>1 DEF PromoteSilently, Users, Lws, tickVars, lwsVars, TypeOK, Watcher, Keys
<1>9. States'
  BY <1>0, <1>1 DEF PromoteSilently, States, Lws, tickVars, lwsVars, TypeOK, Watcher, Keys
<1>10. NotDeaf'
  BY <1>0, <1>1 DEF PromoteSilently, NotDeaf, SocketsOf, Races, OnePoll, Lws, tickVars,
     lwsVars, TypeOK, Watcher, Keys
<1>11. ClosedOnce'
  BY <1>0, <1>1 DEF PromoteSilently, ClosedOnce, Lws, tickVars, lwsVars, TypeOK, Watcher,
     Keys
<1>12. Ticks'
  BY <1>0, <1>1 DEF PromoteSilently, Ticks, Lws, tickVars, lwsVars, TypeOK, Watcher, Keys
<1> QED
  BY <1>2, <1>3, <1>4, <1>5, <1>6, <1>7, <1>8, <1>9, <1>10, <1>11, <1>12 DEF Sound, Table

\* A socket moves to a fresh wsi.
LEMMA MigrateSound ==
  ASSUME Sound, NEW w \in Wsis, NEW v \in Wsis, Migrate(w, v)
  PROVE  Sound'
<1> USE EvLibAssumption DEF Primary
<1>0. TypeOK /\ OnePoll /\ OneSlot /\ NoDangling /\ Races /\ Primaries /\ Users /\ States
        /\ NotDeaf /\ ClosedOnce /\ Ticks
  BY DEF Sound, Table
<1>1. w # v /\ \A x \in watchers : x.wsi # v
  BY <1>0 DEF Migrate, NoDangling
<1>2. desc[v] = None /\ desc[w] \in Fds /\ \A q \in Racers : racer[v][q] = None
  BY <1>0 DEF Migrate, States, TypeOK
<1>3. /\ wsis[w] = "client" /\ wsis[v] = "free"
      /\ wsis' = [wsis EXCEPT ![v] = "client"]
      /\ desc' = [u \in DOMAIN desc |-> IF u = v THEN desc[w]
                                        ELSE IF u = w THEN None ELSE desc[u]]
      /\ want' = [want EXCEPT ![desc[w]] = {}]
      /\ UNCHANGED <<watchers, closing, racer, owner, tick, pendingCloses, tickHandles>>
  BY DEF Migrate, Lws, tickVars
<1>4. TypeOK'
  BY <1>0, <1>1, <1>2, <1>3 DEF TypeOK, Watcher, Keys, Lws, tickVars, lwsVars
<1>5. OnePoll'
  BY <1>0, <1>1, <1>2, <1>3 DEF OnePoll, Lws, tickVars, lwsVars, TypeOK, Watcher, Keys
<1>6. OneSlot'
  BY <1>0, <1>1, <1>2, <1>3 DEF OneSlot, Lws, tickVars, lwsVars, TypeOK, Watcher, Keys
<1>7. NoDangling'
  BY <1>0, <1>1, <1>2, <1>3 DEF NoDangling, Lws, tickVars, lwsVars, TypeOK, Watcher, Keys
<1>8. Races'
  BY <1>0, <1>1, <1>2, <1>3 DEF Races, Lws, tickVars, lwsVars, TypeOK, Watcher, Keys
<1>9. Primaries'
  BY <1>0, <1>1, <1>2, <1>3 DEF Primaries, Lws, tickVars, lwsVars, TypeOK, Watcher, Keys
<1>10. Users'
  BY <1>0, <1>1, <1>2, <1>3 DEF Users, Lws, tickVars, lwsVars, TypeOK, Watcher, Keys
<1>11. States'
  BY <1>0, <1>1, <1>2, <1>3 DEF States, Lws, tickVars, lwsVars, TypeOK, Watcher, Keys
<1>12. NotDeaf'
  BY <1>0, <1>1, <1>2, <1>3 DEF NotDeaf, SocketsOf, Races, OnePoll, Lws, tickVars, lwsVars,
     TypeOK, Watcher, Keys
<1>13. ClosedOnce'
  BY <1>0, <1>1, <1>2, <1>3 DEF ClosedOnce, Lws, tickVars, lwsVars, TypeOK, Watcher, Keys
<1>14. Ticks'
  BY <1>0, <1>1, <1>2, <1>3 DEF Ticks, Lws, tickVars, lwsVars, TypeOK, Watcher, Keys
<1> QED
  BY <1>4, <1>5, <1>6, <1>7, <1>8, <1>9, <1>10, <1>11, <1>12, <1>13, <1>14 DEF Sound, Table

\* The loop goes.
LEMMA DestroyPtSound ==
  ASSUME Sound, DestroyPt
  PROVE  Sound'
<1> USE EvLibAssumption DEF Primary
<1>0. TypeOK /\ OnePoll /\ OneSlot /\ NoDangling /\ Races /\ Primaries /\ Users /\ States
        /\ NotDeaf /\ ClosedOnce /\ Ticks
  BY DEF Sound, Table
<1>1. \A w \in Wsis : desc[w] = None /\ \A p \in Racers : racer[w][p] = None
  BY <1>0 DEF DestroyPt, States
<1>2. TypeOK'
  BY <1>0, <1>1 DEF DestroyPt, TypeOK, Watcher, Keys, Lws, tickVars, lwsVars
<1>3. OnePoll'
  BY <1>0, <1>1 DEF DestroyPt, OnePoll, Lws, tickVars, lwsVars, TypeOK, Watcher, Keys
<1>4. OneSlot'
  BY <1>0, <1>1 DEF DestroyPt, OneSlot, Lws, tickVars, lwsVars, TypeOK, Watcher, Keys
<1>5. NoDangling'
  BY <1>0, <1>1 DEF DestroyPt, NoDangling, Lws, tickVars, lwsVars, TypeOK, Watcher, Keys
<1>6. Races'
  BY <1>0, <1>1 DEF DestroyPt, Races, Lws, tickVars, lwsVars, TypeOK, Watcher, Keys
<1>7. Primaries'
  BY <1>0, <1>1 DEF DestroyPt, Primaries, Lws, tickVars, lwsVars, TypeOK, Watcher, Keys
<1>8. Users'
  BY <1>0, <1>1 DEF DestroyPt, Users, Lws, tickVars, lwsVars, TypeOK, Watcher, Keys
<1>9. States'
  BY <1>0, <1>1 DEF DestroyPt, States, Lws, tickVars, lwsVars, TypeOK, Watcher, Keys
<1>10. NotDeaf'
  BY <1>0, <1>1 DEF DestroyPt, NotDeaf, SocketsOf, Races, OnePoll, Lws, tickVars, lwsVars,
     TypeOK, Watcher, Keys
<1>11. ClosedOnce'
  BY <1>0, <1>1 DEF DestroyPt, ClosedOnce, Lws, tickVars, lwsVars, TypeOK, Watcher, Keys
<1>12. Ticks'
  BY <1>0, <1>1 DEF DestroyPt, Ticks, Lws, tickVars, lwsVars, TypeOK, Watcher, Keys
<1> QED
  BY <1>2, <1>3, <1>4, <1>5, <1>6, <1>7, <1>8, <1>9, <1>10, <1>11, <1>12 DEF Sound, Table

\* A handle of the tick is closed.
LEMMA TickClosedSound ==
  ASSUME Sound, TickClosed
  PROVE  Sound'
<1> USE EvLibAssumption DEF Primary
<1>0. TypeOK /\ OnePoll /\ OneSlot /\ NoDangling /\ Races /\ Primaries /\ Users /\ States
        /\ NotDeaf /\ ClosedOnce /\ Ticks
  BY DEF Sound, Table
<1>1. pendingCloses = tickHandles
  BY <1>0 DEF Ticks
<1>2. TypeOK'
  BY <1>0, <1>1 DEF TickClosed, TypeOK, Watcher, Keys, Lws, tickVars, lwsVars
<1>3. OnePoll'
  BY <1>0, <1>1 DEF TickClosed, OnePoll, Lws, tickVars, lwsVars, TypeOK, Watcher, Keys
<1>4. OneSlot'
  BY <1>0, <1>1 DEF TickClosed, OneSlot, Lws, tickVars, lwsVars, TypeOK, Watcher, Keys
<1>5. NoDangling'
  BY <1>0, <1>1 DEF TickClosed, NoDangling, Lws, tickVars, lwsVars, TypeOK, Watcher, Keys
<1>6. Races'
  BY <1>0, <1>1 DEF TickClosed, Races, Lws, tickVars, lwsVars, TypeOK, Watcher, Keys
<1>7. Primaries'
  BY <1>0, <1>1 DEF TickClosed, Primaries, Lws, tickVars, lwsVars, TypeOK, Watcher, Keys
<1>8. Users'
  BY <1>0, <1>1 DEF TickClosed, Users, Lws, tickVars, lwsVars, TypeOK, Watcher, Keys
<1>9. States'
  BY <1>0, <1>1 DEF TickClosed, States, Lws, tickVars, lwsVars, TypeOK, Watcher, Keys
<1>10. NotDeaf'
  BY <1>0, <1>1 DEF TickClosed, NotDeaf, SocketsOf, Races, OnePoll, Lws, tickVars, lwsVars,
     TypeOK, Watcher, Keys
<1>11. ClosedOnce'
  BY <1>0, <1>1 DEF TickClosed, ClosedOnce, Lws, tickVars, lwsVars, TypeOK, Watcher, Keys
<1>12. Ticks'
  BY <1>0, <1>1 DEF TickClosed, Ticks, Lws, tickVars, lwsVars, TypeOK, Watcher, Keys
<1> QED
  BY <1>2, <1>3, <1>4, <1>5, <1>6, <1>7, <1>8, <1>9, <1>10, <1>11, <1>12 DEF Sound, Table

\* A descriptor is closed.
LEMMA WatcherClosedSound ==
  ASSUME Sound, NEW fd \in Fds, WatcherClosed(fd)
  PROVE  Sound'
<1> USE EvLibAssumption DEF Primary
<1>0. TypeOK /\ OnePoll /\ OneSlot /\ NoDangling /\ Races /\ Primaries /\ Users /\ States
        /\ NotDeaf /\ ClosedOnce /\ Ticks
  BY DEF Sound, Table
<1>1. owner[fd] = "evlib"
  BY <1>0 DEF WatcherClosed, ClosedOnce, TypeOK
<1>2. TypeOK'
  BY <1>0, <1>1 DEF WatcherClosed, TypeOK, Watcher, Keys, Lws, tickVars, lwsVars
<1>3. OnePoll'
  BY <1>0, <1>1 DEF WatcherClosed, OnePoll, Lws, tickVars, lwsVars, TypeOK, Watcher, Keys
<1>4. OneSlot'
  BY <1>0, <1>1 DEF WatcherClosed, OneSlot, Lws, tickVars, lwsVars, TypeOK, Watcher, Keys
<1>5. NoDangling'
  BY <1>0, <1>1 DEF WatcherClosed, NoDangling, Lws, tickVars, lwsVars, TypeOK, Watcher, Keys
<1>6. Races'
  BY <1>0, <1>1 DEF WatcherClosed, Races, Lws, tickVars, lwsVars, TypeOK, Watcher, Keys
<1>7. Primaries'
  BY <1>0, <1>1 DEF WatcherClosed, Primaries, Lws, tickVars, lwsVars, TypeOK, Watcher, Keys
<1>8. Users'
  BY <1>0, <1>1 DEF WatcherClosed, Users, Lws, tickVars, lwsVars, TypeOK, Watcher, Keys
<1>9. States'
  BY <1>0, <1>1 DEF WatcherClosed, States, Lws, tickVars, lwsVars, TypeOK, Watcher, Keys
<1>10. NotDeaf'
  BY <1>0, <1>1 DEF WatcherClosed, NotDeaf, SocketsOf, Races, OnePoll, Lws, tickVars,
     lwsVars, TypeOK, Watcher, Keys
<1>11. ClosedOnce'
  BY <1>0, <1>1 DEF WatcherClosed, ClosedOnce, Lws, tickVars, lwsVars, TypeOK, Watcher, Keys
<1>12. Ticks'
  BY <1>0, <1>1 DEF WatcherClosed, Ticks, Lws, tickVars, lwsVars, TypeOK, Watcher, Keys
<1> QED
  BY <1>2, <1>3, <1>4, <1>5, <1>6, <1>7, <1>8, <1>9, <1>10, <1>11, <1>12 DEF Sound, Table

\* A socket connects.
LEMMA SockAcceptSound ==
  ASSUME Sound, NEW w \in Wsis, NEW fd \in Fds, SockAccept(w, fd)
  PROVE  Sound'
<1> USE EvLibAssumption DEF Primary
<1>0. TypeOK /\ OnePoll /\ OneSlot /\ NoDangling /\ Races /\ Primaries /\ Users /\ States
        /\ NotDeaf /\ ClosedOnce /\ Ticks
  BY DEF Sound, Table
<1>1. PICK n : n = Created(w, Primary, fd, {}, FALSE)
  OBVIOUS
<1>2. n \in Watcher /\ n.wsi = w /\ n.pidx = Primary /\ n.fd = fd /\ ~n.ref
  BY <1>1 DEF Created, Watcher, Keys
<1>3. n \in watchers' /\ \A x : x \in watchers' <=>
         x = n \/ (x \in watchers /\ x.fd # fd /\ ~(x.wsi = w /\ x.pidx = Primary))
  BY <1>1 DEF SockAccept, DetachByFd, Detach, Find, FindByFd
<1>4. owner[fd] = "free" /\ \A v \in Wsis : desc[v] # fd /\ \A p \in Racers : racer[v][p] # fd
  BY <1>0 DEF SockAccept, Opened, Users, TypeOK
<1>5. /\ wsis[w] = "client" /\ desc[w] = None
      /\ \A v \in Wsis : desc'[v] = IF v = w THEN fd ELSE desc[v]
      /\ \A f \in Fds : owner'[f] = IF f = fd THEN "lws" ELSE owner[f]
      /\ \A f \in Fds : want'[f] = IF f = fd THEN {} ELSE want[f]
      /\ UNCHANGED <<closing, wsis, racer, tick, pendingCloses, tickHandles>>
  BY <1>0 DEF SockAccept, Opened, Lws, tickVars, TypeOK
<1>6. /\ \A u \in watchers : /\ u.wsi \in Wsis /\ u.pidx \in Racers \cup {Primary}
                             /\ u.fd \in Fds
      /\ \A v \in Wsis : /\ desc[v] \in Fds \cup {None}
                         /\ \A q \in Racers : racer[v][q] \in Fds \cup {None, "spent"}
  BY <1>0 DEF TypeOK, Watcher, Keys
<1>7. TypeOK'
  BY <1>0, <1>2, <1>3 DEF SockAccept, Opened, Lws, tickVars, TypeOK
<1>8. OnePoll'
  BY <1>0, <1>2, <1>3, <1>4, <1>5, <1>6 DEF OnePoll
<1>9. OneSlot'
  BY <1>0, <1>2, <1>3, <1>4, <1>5, <1>6 DEF OneSlot
<1>10. NoDangling'
  BY <1>0, <1>2, <1>3, <1>4, <1>5, <1>6 DEF NoDangling
<1>11. Races'
  BY <1>0, <1>2, <1>3, <1>4, <1>5, <1>6 DEF Races
<1>12. Primaries'
  BY <1>0, <1>2, <1>3, <1>4, <1>5, <1>6 DEF Primaries
<1>13. Users'
  BY <1>0, <1>2, <1>3, <1>4, <1>5, <1>6 DEF Users
<1>14. States'
  <2>1. (\A u \in Wsis : wsis[u] = "free" => desc[u] = None)'
       /\ (\A u \in Wsis, q \in Racers : wsis[u] # "client" => racer[u][q] = None)'
    BY <1>0, <1>2, <1>3, <1>5 DEF States
  <2>2. (\A x \in watchers : x.ref => wsis[x.wsi] = "listen" /\ desc[x.wsi] = x.fd)'
    BY <1>0, <1>2, <1>3, <1>5, <1>6 DEF States
  <2> QED
    BY <2>1, <2>2 DEF States
<1>15. NotDeaf'
  BY <1>0, <1>2, <1>3, <1>4, <1>5, <1>6 DEF NotDeaf, SocketsOf, Races, OnePoll
<1>16. ClosedOnce'
  BY <1>0, <1>2, <1>3, <1>4, <1>5, <1>6 DEF ClosedOnce
<1>17. Ticks'
  BY <1>0, <1>2, <1>3, <1>4, <1>5, <1>6 DEF Ticks
<1> QED
  BY <1>7, <1>8, <1>9, <1>10, <1>11, <1>12, <1>13, <1>14, <1>15, <1>16, <1>17 DEF Sound,
     Table

\* A socket joins the race.
LEMMA SockAcceptParallelSound ==
  ASSUME Sound, NEW w \in Wsis, NEW p \in Racers, NEW fd \in Fds, SockAcceptParallel(w, p, fd)
  PROVE  Sound'
<1> USE EvLibAssumption DEF Primary
<1>0. TypeOK /\ OnePoll /\ OneSlot /\ NoDangling /\ Races /\ Primaries /\ Users /\ States
        /\ NotDeaf /\ ClosedOnce /\ Ticks
  BY DEF Sound, Table
<1>1. PICK n : n = Created(w, p, fd, {}, FALSE)
  OBVIOUS
<1>2. n \in Watcher /\ n.wsi = w /\ n.pidx = p /\ n.fd = fd /\ ~n.ref /\ p # Primary
  BY <1>1 DEF Created, Watcher, Keys
<1>3. n \in watchers' /\ \A x : x \in watchers' <=> x = n \/ (x \in watchers /\ x.fd # fd)
  BY <1>1 DEF SockAcceptParallel, DetachByFd, FindByFd
<1>4. owner[fd] = "free" /\ \A v \in Wsis : desc[v] # fd /\ \A q \in Racers : racer[v][q] # fd
  BY <1>0 DEF SockAcceptParallel, Opened, Users, TypeOK
<1>5. \A x \in watchers : ~(x.wsi = w /\ x.pidx = p)
  BY <1>0, <1>2 DEF SockAcceptParallel, Races
<1>6. /\ wsis[w] = "client" /\ desc[w] # None /\ racer[w][p] = None
      /\ \A v \in Wsis, q \in Racers :
             racer'[v][q] = IF v = w /\ q = p THEN fd ELSE racer[v][q]
      /\ \A f \in Fds : owner'[f] = IF f = fd THEN "lws" ELSE owner[f]
      /\ \A f \in Fds : want'[f] = IF f = fd THEN {} ELSE want[f]
      /\ UNCHANGED <<closing, wsis, desc, tick, pendingCloses, tickHandles>>
  BY <1>0 DEF SockAcceptParallel, Opened, Lws, tickVars, TypeOK
<1>7. /\ \A u \in watchers : /\ u.wsi \in Wsis /\ u.pidx \in Racers \cup {Primary}
                             /\ u.fd \in Fds
      /\ \A v \in Wsis : /\ desc[v] \in Fds \cup {None}
                         /\ \A q \in Racers : racer[v][q] \in Fds \cup {None, "spent"}
  BY <1>0 DEF TypeOK, Watcher, Keys
<1>8. TypeOK'
  BY <1>0, <1>2, <1>3 DEF SockAcceptParallel, Opened, Lws, tickVars, TypeOK
<1>9. OnePoll'
  BY <1>0, <1>2, <1>3, <1>4, <1>5, <1>6, <1>7 DEF OnePoll
<1>10. OneSlot'
  BY <1>0, <1>2, <1>3, <1>4, <1>5, <1>6, <1>7 DEF OneSlot
<1>11. NoDangling'
  BY <1>0, <1>2, <1>3, <1>4, <1>5, <1>6, <1>7 DEF NoDangling
<1>12. Races'
  <2>1. (\A u \in Wsis, q \in Racers : racer[u][q] \in Fds =>
           \E x \in watchers : x.wsi = u /\ x.pidx = q /\ x.fd = racer[u][q])'
    BY <1>0, <1>2, <1>3, <1>4, <1>6, <1>7 DEF Races
  <2>2. ASSUME NEW x \in watchers', x.pidx # Primary PROVE racer'[x.wsi][x.pidx] # None
    <3>1. CASE x \in watchers
      <4>1. x.wsi \in Wsis /\ x.pidx \in Racers /\ racer[x.wsi][x.pidx] # None
        BY <1>0, <1>7, <2>2, <3>1 DEF Races
      <4> QED
        BY <1>6, <4>1
    <3>2. CASE x = n
      BY <1>2, <1>6, <3>2
    <3> QED
      BY <1>3, <3>1, <3>2
  <2> QED
    BY <2>1, <2>2 DEF Races
<1>13. Primaries'
  BY <1>0, <1>2, <1>3, <1>4, <1>5, <1>6, <1>7 DEF Primaries
<1>14. Users'
  BY <1>0, <1>2, <1>3, <1>4, <1>5, <1>6, <1>7 DEF Users
<1>15. States'
  BY <1>0, <1>2, <1>3, <1>4, <1>5, <1>6, <1>7 DEF States
<1>16. NotDeaf'
  BY <1>0, <1>2, <1>3, <1>4, <1>5, <1>6, <1>7 DEF NotDeaf, SocketsOf, Races, OnePoll
<1>17. ClosedOnce'
  BY <1>0, <1>2, <1>3, <1>4, <1>5, <1>6, <1>7 DEF ClosedOnce
<1>18. Ticks'
  BY <1>0, <1>2, <1>3, <1>4, <1>5, <1>6, <1>7 DEF Ticks
<1> QED
  BY <1>8, <1>9, <1>10, <1>11, <1>12, <1>13, <1>14, <1>15, <1>16, <1>17, <1>18 DEF Sound,
     Table

\* A racer is torn down.
LEMMA CloseRacerSound ==
  ASSUME Sound, NEW w \in Wsis, NEW p \in Racers, CloseRacer(w, p)
  PROVE  Sound'
<1> USE EvLibAssumption DEF Primary
<1>0. TypeOK /\ OnePoll /\ OneSlot /\ NoDangling /\ Races /\ Primaries /\ Users /\ States
        /\ NotDeaf /\ ClosedOnce /\ Ticks
  BY DEF Sound, Table
<1>1. PICK x \in watchers : x.wsi = w /\ x.pidx = p /\ x.fd = racer[w][p]
  BY <1>0 DEF CloseRacer, Races
<1>2. p # Primary /\ racer[w][p] \in Fds /\ owner[racer[w][p]] = "lws"
  BY <1>0 DEF CloseRacer, Users
<1>3. Find(watchers, w, p) = {x} /\ \A y : y \in watchers' <=> y \in watchers /\ y # x
  BY <1>0, <1>1 DEF CloseRacer, Detach, Find, OneSlot
<1>4. \A f \in Fds : closing'[f] = IF f = racer[w][p] THEN closing[f] + 1 ELSE closing[f]
  <2>1. ASSUME NEW f \in Fds
        PROVE  Cardinality(FindByFd({x}, f)) = IF f = racer[w][p] THEN 1 ELSE 0
    <3>1. FindByFd({x}, f) = IF f = racer[w][p] THEN {x} ELSE {}
      BY <1>1 DEF FindByFd
    <3> QED
      BY <3>1, FS_EmptySet, FS_Singleton
  <2>2. \A f \in Fds : closing'[f] = closing[f] + Cardinality(FindByFd({x}, f))
    BY <1>3 DEF CloseRacer, CloseLater
  <2>3. \A f \in Fds : closing[f] + 0 = closing[f]
    BY <1>0 DEF TypeOK
  <2> QED
    BY <2>1, <2>2, <2>3
<1>5. /\ \A v \in Wsis, q \in Racers :
           racer'[v][q] = IF v = w /\ q = p THEN None ELSE racer[v][q]
      /\ \A f \in Fds : owner'[f] = IF f = racer[w][p] THEN "evlib" ELSE owner[f]
      /\ UNCHANGED <<wsis, desc, want, tick, pendingCloses, tickHandles>>
  BY <1>0 DEF CloseRacer, Lws, tickVars, TypeOK
<1>6. /\ \A u \in watchers : /\ u.wsi \in Wsis /\ u.pidx \in Racers \cup {Primary}
                             /\ u.fd \in Fds
      /\ \A v \in Wsis : /\ desc[v] \in Fds \cup {None}
                         /\ \A q \in Racers : racer[v][q] \in Fds \cup {None, "spent"}
  BY <1>0 DEF TypeOK, Watcher, Keys
<1>7. TypeOK'
  <2>1. (watchers \subseteq Watcher)'
    BY <1>0, <1>3 DEF TypeOK
  <2>2. (closing \in [Fds -> Nat])'
    <3>1. DOMAIN closing' = Fds /\ closing' = [f \in Fds |-> closing'[f]]
      BY DEF CloseRacer, CloseLater
    <3>2. \A f \in Fds : closing[f] \in Nat
      BY <1>0 DEF TypeOK
    <3>3. \A f \in Fds : closing'[f] \in Nat
      BY <1>4, <3>2
    <3> QED
      BY <3>1, <3>3
  <2> QED
    BY <1>0, <2>1, <2>2 DEF TypeOK, CloseRacer, Lws, tickVars
<1>8. OnePoll'
  BY <1>0, <1>1, <1>2, <1>3, <1>4, <1>5, <1>6 DEF OnePoll
<1>9. OneSlot'
  BY <1>0, <1>1, <1>2, <1>3, <1>4, <1>5, <1>6 DEF OneSlot
<1>10. NoDangling'
  BY <1>0, <1>1, <1>2, <1>3, <1>4, <1>5, <1>6 DEF NoDangling
<1>11. Races'
  <2>1. ASSUME NEW u \in Wsis, NEW q \in Racers, racer'[u][q] \in Fds
        PROVE  \E y \in watchers' : y.wsi = u /\ y.pidx = q /\ y.fd = racer'[u][q]
    <3>1. ~(u = w /\ q = p) /\ racer'[u][q] = racer[u][q]
      BY <1>5, <2>1
    <3>2. PICK y \in watchers : y.wsi = u /\ y.pidx = q /\ y.fd = racer[u][q]
      BY <1>0, <2>1, <3>1 DEF Races
    <3>3. y \in watchers'
      BY <1>0, <1>1, <1>2, <1>3, <2>1, <3>1, <3>2 DEF Users
    <3> QED
      BY <3>1, <3>2, <3>3
  <2>2. ASSUME NEW z \in watchers', z.pidx # Primary PROVE racer'[z.wsi][z.pidx] # None
    <3>1. z \in watchers /\ z # x
      BY <1>3, <2>2
    <3>2. ~(z.wsi = w /\ z.pidx = p) /\ z.wsi \in Wsis /\ z.pidx \in Racers
         /\ racer[z.wsi][z.pidx] # None
      BY <1>0, <1>1, <1>6, <2>2, <3>1 DEF Races, OneSlot
    <3> QED
      BY <1>5, <3>2
  <2> QED
    BY <2>1, <2>2 DEF Races
<1>12. Primaries'
  BY <1>0, <1>1, <1>2, <1>3, <1>5, <1>6 DEF Primaries, Users
<1>13. Users'
  BY <1>0, <1>1, <1>2, <1>3, <1>4, <1>5, <1>6 DEF Users
<1>14. States'
  BY <1>0, <1>1, <1>2, <1>3, <1>4, <1>5, <1>6 DEF States
<1>15. NotDeaf'
  BY <1>0, <1>1, <1>2, <1>3, <1>5, <1>6 DEF NotDeaf, SocketsOf, Races, OnePoll, Users
<1>16. ClosedOnce'
  BY <1>0, <1>1, <1>2, <1>3, <1>4, <1>5, <1>6 DEF ClosedOnce
<1>17. Ticks'
  BY <1>0, <1>1, <1>2, <1>3, <1>4, <1>5, <1>6 DEF Ticks
<1> QED
  BY <1>7, <1>8, <1>9, <1>10, <1>11, <1>12, <1>13, <1>14, <1>15, <1>16, <1>17 DEF Sound,
     Table

\* A racer wins.
LEMMA PromoteParallelSound ==
  ASSUME Sound, NEW w \in Wsis, NEW p \in Racers, PromoteParallel(w, p)
  PROVE  Sound'
<1> USE EvLibAssumption DEF Primary
<1>0. TypeOK /\ OnePoll /\ OneSlot /\ NoDangling /\ Races /\ Primaries /\ Users /\ States
        /\ NotDeaf /\ ClosedOnce /\ Ticks
  BY DEF Sound, Table
<1>1. PICK x \in watchers : x.wsi = w /\ x.pidx = p /\ x.fd = racer[w][p]
  BY <1>0 DEF PromoteParallel, Races
<1>2. p # Primary /\ racer[w][p] \in Fds /\ racer[w][p] # desc[w]
      /\ owner[racer[w][p]] = "lws" /\ (desc[w] # None => owner[desc[w]] = "lws")
  BY <1>0 DEF PromoteParallel, Users
<1>3. PICK n : n = [x EXCEPT !.wsi = w, !.pidx = Primary]
  OBVIOUS
<1>4. n \in Watcher /\ n.wsi = w /\ n.pidx = Primary /\ n.fd = racer[w][p]
      /\ n.ref = x.ref /\ n.events = x.events
  BY <1>0, <1>1, <1>3 DEF TypeOK, Watcher, Keys
<1>5. \A y : y \in watchers' <=>
         y = n \/ (y \in watchers /\ y # x /\ y.fd # desc[w]
                    /\ ~(y.wsi = w /\ y.pidx = Primary))
  <2>1. Find(watchers, w, p) = {x}
    BY <1>0, <1>1 DEF Find, OneSlot
  <2>2. watchers' = Rekey(watchers \ FindByFd(watchers, desc[w]), x, w, Primary)
    BY <2>1 DEF PromoteParallel
  <2> QED
    BY <1>3, <2>2 DEF Rekey, Detach, Find, FindByFd
<1>6. \A f \in Fds :
        /\ closing'[f] = IF f = desc[w] /\ (\E y \in watchers : y.fd = f)
                         THEN closing[f] + 1 ELSE closing[f]
        /\ owner'[f] = IF f # desc[w] THEN owner[f]
                       ELSE IF \E y \in watchers : y.fd = f THEN "evlib" ELSE "free"
  <2> DEFINE losers == FindByFd(watchers, desc[w])
  <2>1. ASSUME NEW f \in Fds
        PROVE  Cardinality(FindByFd(losers, f)) =
                 IF f = desc[w] /\ (\E y \in watchers : y.fd = f) THEN 1 ELSE 0
    <3>1. CASE f = desc[w] /\ \E y \in watchers : y.fd = f
      <4>1. PICK y \in watchers : y.fd = f
        BY <3>1
      <4>2. FindByFd(losers, f) = {y}
        BY <1>0, <3>1, <4>1 DEF FindByFd, OnePoll
      <4> QED
        BY <3>1, <4>2, FS_Singleton
    <3>2. CASE ~(f = desc[w] /\ \E y \in watchers : y.fd = f)
      <4>1. FindByFd(losers, f) = {}
        BY <3>2 DEF FindByFd
      <4> QED
        BY <3>2, <4>1, FS_EmptySet
    <3> QED
      BY <3>1, <3>2
  <2>2. \A f \in Fds : closing'[f] = closing[f] + Cardinality(FindByFd(losers, f))
    BY DEF PromoteParallel, CloseLater
  <2>3. \A f \in Fds : closing[f] + 0 = closing[f]
    BY <1>0 DEF TypeOK
  <2>4. \A f \in Fds : owner'[f] = IF f # desc[w] THEN owner[f]
                                  ELSE IF losers = {} THEN "free" ELSE "evlib"
    BY DEF PromoteParallel
  <2>5. \A f \in Fds : f = desc[w] => (losers = {} <=> ~\E y \in watchers : y.fd = f)
    BY DEF FindByFd
  <2> HIDE DEF losers
  <2> QED
    BY <2>1, <2>2, <2>3, <2>4, <2>5
<1>7. /\ \A v \in Wsis, q \in Racers :
           racer'[v][q] = IF v = w /\ q = p THEN None ELSE racer[v][q]
      /\ \A v \in Wsis : desc'[v] = IF v = w THEN racer[w][p] ELSE desc[v]
      /\ UNCHANGED <<wsis, want, tick, pendingCloses, tickHandles>>
  BY <1>0 DEF PromoteParallel, Lws, tickVars, TypeOK
<1>8. /\ \A u \in watchers : /\ u.wsi \in Wsis /\ u.pidx \in Racers \cup {Primary}
                             /\ u.fd \in Fds
      /\ \A v \in Wsis : /\ desc[v] \in Fds \cup {None}
                         /\ \A q \in Racers : racer[v][q] \in Fds \cup {None, "spent"}
  BY <1>0 DEF TypeOK, Watcher, Keys
<1>9. TypeOK'
  <2>1. (watchers \subseteq Watcher)'
    BY <1>0, <1>4, <1>5 DEF TypeOK
  <2>2. (closing \in [Fds -> Nat])'
    <3>1. DOMAIN closing' = Fds /\ closing' = [f \in Fds |-> closing'[f]]
      BY DEF PromoteParallel, CloseLater
    <3>2. \A f \in Fds : closing[f] \in Nat
      BY <1>0 DEF TypeOK
    <3>3. \A f \in Fds : closing'[f] \in Nat
      BY <1>6, <3>2
    <3> QED
      BY <3>1, <3>3
  <2> QED
    BY <1>0, <2>1, <2>2 DEF TypeOK, PromoteParallel, Lws, tickVars
<1>10. OnePoll'
  BY <1>0, <1>1, <1>2, <1>4, <1>5, <1>6, <1>7, <1>8 DEF OnePoll
<1>11. OneSlot'
  BY <1>0, <1>1, <1>2, <1>4, <1>5, <1>6, <1>7, <1>8 DEF OneSlot
<1>12. NoDangling'
  BY <1>0, <1>1, <1>2, <1>4, <1>5, <1>6, <1>7, <1>8 DEF NoDangling
<1>13. Races'
  <2>1. ASSUME NEW u \in Wsis, NEW q \in Racers, racer'[u][q] \in Fds
        PROVE  \E y \in watchers' : y.wsi = u /\ y.pidx = q /\ y.fd = racer'[u][q]
    <3>1. ~(u = w /\ q = p) /\ racer'[u][q] = racer[u][q]
      BY <1>7, <2>1
    <3>2. PICK y \in watchers : y.wsi = u /\ y.pidx = q /\ y.fd = racer[u][q]
      BY <1>0, <2>1, <3>1 DEF Races
    <3>3. y \in watchers'
      BY <1>0, <1>1, <1>2, <1>5, <2>1, <3>1, <3>2 DEF Users
    <3> QED
      BY <3>1, <3>2, <3>3
  <2>2. ASSUME NEW z \in watchers', z.pidx # Primary PROVE racer'[z.wsi][z.pidx] # None
    <3>1. z \in watchers /\ z # x
      BY <1>5, <1>4, <2>2
    <3>2. ~(z.wsi = w /\ z.pidx = p) /\ z.wsi \in Wsis /\ z.pidx \in Racers
         /\ racer[z.wsi][z.pidx] # None
      BY <1>0, <1>1, <1>8, <2>2, <3>1 DEF Races, OneSlot
    <3> QED
      BY <1>7, <3>2
  <2> QED
    BY <2>1, <2>2 DEF Races
<1>14. Primaries'
  BY <1>0, <1>1, <1>2, <1>4, <1>5, <1>7, <1>8 DEF Primaries, Users
<1>15. Users'
  BY <1>0, <1>1, <1>2, <1>4, <1>5, <1>6, <1>7, <1>8 DEF Users
<1>16. States'
  BY <1>0, <1>1, <1>2, <1>4, <1>5, <1>6, <1>7, <1>8 DEF States
<1>17. NotDeaf'
  BY <1>0, <1>1, <1>2, <1>4, <1>5, <1>7, <1>8 DEF NotDeaf, SocketsOf, Races, OnePoll, Users
<1>18. ClosedOnce'
  BY <1>0, <1>1, <1>2, <1>4, <1>5, <1>6, <1>7, <1>8 DEF ClosedOnce
<1>19. Ticks'
  BY <1>0, <1>1, <1>2, <1>4, <1>5, <1>6, <1>7, <1>8 DEF Ticks
<1> QED
  BY <1>9, <1>10, <1>11, <1>12, <1>13, <1>14, <1>15, <1>16, <1>17, <1>18, <1>19 DEF Sound,
     Table

\* A stop for a socket without a watcher.
LEMMA IoStoppedSound ==
  ASSUME Sound, NEW w \in Wsis, NEW fd \in Fds, NEW start \in BOOLEAN,
         NEW flags \in SUBSET Events, Io(w, fd, start, flags),
         Stopped(watchers', fd, start)
  PROVE  Sound'
<1> USE EvLibAssumption DEF Primary
<1>0. TypeOK /\ OnePoll /\ OneSlot /\ NoDangling /\ Races /\ Primaries /\ Users /\ States
        /\ NotDeaf /\ ClosedOnce /\ Ticks
  BY DEF Sound, Table
<1>1. Stopped(watchers', fd, start)
  OBVIOUS
<1>2. /\ want[fd] \subseteq Events
      /\ \A f \in Fds :
           want'[f] = IF f = fd THEN Subscribe(want[f], start, flags) ELSE want[f]
      /\ UNCHANGED <<closing, wsis, desc, racer, owner>>
      /\ UNCHANGED <<tick, pendingCloses, tickHandles>>
  BY <1>0 DEF Io, Lws, tickVars, TypeOK
<1>3. /\ \A u \in watchers : /\ u.wsi \in Wsis /\ u.pidx \in Racers \cup {Primary}
                             /\ u.fd \in Fds
      /\ \A v \in Wsis : /\ desc[v] \in Fds \cup {None}
                         /\ \A q \in Racers : racer[v][q] \in Fds \cup {None, "spent"}
  BY <1>0 DEF TypeOK, Watcher, Keys
<1>4. fd \in SocketsOf(w) /\ wsis[w] # "free"
  BY <1>0 DEF Io, SocketsOf, States
<1>5. TypeOK'
  <2>1. (watchers \subseteq Watcher)'
    BY <1>0, <1>1 DEF TypeOK, Stopped
  <2>2. (want \in [Fds -> SUBSET Events])'
    BY <1>0 DEF Io, Subscribe, TypeOK
  <2> QED
    BY <1>0, <1>2, <2>1, <2>2 DEF TypeOK
<1>6. OnePoll'
  BY <1>0, <1>1, <1>2, <1>3, <1>4 DEF OnePoll, Stopped, FindByFd, Subscribe
<1>7. OneSlot'
  BY <1>0, <1>1, <1>2, <1>3, <1>4 DEF OneSlot, Stopped, FindByFd, Subscribe, Races,
     Primaries, SocketsOf, OnePoll
<1>8. NoDangling'
  BY <1>0, <1>1, <1>2, <1>3, <1>4 DEF NoDangling, Stopped, FindByFd, Subscribe
<1>9. Races'
  BY <1>0, <1>1, <1>2, <1>3, <1>4 DEF Races, Stopped, FindByFd, Subscribe, OnePoll, OneSlot,
     SocketsOf, Users
<1>10. Primaries'
  BY <1>0, <1>1, <1>2, <1>3, <1>4 DEF Primaries, Stopped, FindByFd, Subscribe, Races,
     OnePoll, Users, SocketsOf
<1>11. Users'
  BY <1>0, <1>1, <1>2, <1>3, <1>4 DEF Users, Stopped, FindByFd, Subscribe
<1>12. States'
  BY <1>0, <1>1, <1>2, <1>3, <1>4 DEF States, Stopped, FindByFd, Subscribe, Users, OnePoll
<1>13. NotDeaf'
  <2>0. \A u \in Wsis : SocketsOf(u)' = SocketsOf(u)
    BY <1>2 DEF SocketsOf
  <2> SUFFICES ASSUME NEW u \in Wsis, NEW f \in SocketsOf(u), want'[f] # {}
               PROVE  \E y \in watchers' : y.wsi = u /\ y.fd = f /\ want'[f] \subseteq y.events
    BY <2>0 DEF NotDeaf
  <2>1. f \in Fds
    BY DEF SocketsOf
  <2>2. CASE f = fd
    <3>1. u = w
      BY <1>0, <1>4, <2>1, <2>2, OneUser
    <3>2. want[fd] = {}
      BY <1>0, <1>1, <1>4 DEF NotDeaf, Stopped, FindByFd
    <3> QED
      BY <1>1, <1>2, <2>2, <3>2 DEF Stopped, Subscribe
  <2>3. CASE f # fd
    <3>1. PICK y \in watchers : y.wsi = u /\ y.fd = f /\ want'[f] \subseteq y.events
      BY <1>0, <1>2, <2>1, <2>3 DEF NotDeaf
    <3> QED
      BY <1>1, <2>3, <3>1 DEF Stopped
  <2> QED
    BY <2>2, <2>3
<1>14. ClosedOnce'
  BY <1>0, <1>1, <1>2, <1>3, <1>4 DEF ClosedOnce, Stopped, FindByFd, Subscribe
<1>15. Ticks'
  BY <1>0, <1>1, <1>2, <1>3, <1>4 DEF Ticks, Stopped, FindByFd, Subscribe
<1> QED
  BY <1>5, <1>6, <1>7, <1>8, <1>9, <1>10, <1>11, <1>12, <1>13, <1>14, <1>15 DEF Sound, Table

\* A socket gets its watcher.
LEMMA IoAdoptedSound ==
  ASSUME Sound, NEW w \in Wsis, NEW fd \in Fds, NEW start \in BOOLEAN,
         NEW flags \in SUBSET Events, Io(w, fd, start, flags),
         \E n : Adopted(watchers', n, w, fd, start, flags)
  PROVE  Sound'
<1> USE EvLibAssumption DEF Primary
<1>0. TypeOK /\ OnePoll /\ OneSlot /\ NoDangling /\ Races /\ Primaries /\ Users /\ States
        /\ NotDeaf /\ ClosedOnce /\ Ticks
  BY DEF Sound, Table
<1>1. PICK n : Adopted(watchers', n, w, fd, start, flags)
  OBVIOUS
<1>2. /\ want[fd] \subseteq Events
      /\ \A f \in Fds :
           want'[f] = IF f = fd THEN Subscribe(want[f], start, flags) ELSE want[f]
      /\ UNCHANGED <<closing, wsis, desc, racer, owner>>
      /\ UNCHANGED <<tick, pendingCloses, tickHandles>>
  BY <1>0 DEF Io, Lws, tickVars, TypeOK
<1>3. /\ \A u \in watchers : /\ u.wsi \in Wsis /\ u.pidx \in Racers \cup {Primary}
                             /\ u.fd \in Fds
      /\ \A v \in Wsis : /\ desc[v] \in Fds \cup {None}
                         /\ \A q \in Racers : racer[v][q] \in Fds \cup {None, "spent"}
  BY <1>0 DEF TypeOK, Watcher, Keys
<1>4. fd \in SocketsOf(w) /\ wsis[w] # "free"
  BY <1>0 DEF Io, SocketsOf, States
<1>5. TypeOK'
  <2>1. (watchers \subseteq Watcher)'
    BY <1>0, <1>1 DEF TypeOK, Adopted
  <2>2. (want \in [Fds -> SUBSET Events])'
    BY <1>0 DEF Io, Subscribe, TypeOK
  <2> QED
    BY <1>0, <1>2, <2>1, <2>2 DEF TypeOK
<1>6. OnePoll'
  BY <1>0, <1>1, <1>2, <1>3, <1>4 DEF OnePoll, Adopted, FindByFd, Subscribe
<1>7. OneSlot'
  BY <1>0, <1>1, <1>2, <1>3, <1>4 DEF OneSlot, Adopted, FindByFd, Subscribe, Races,
     Primaries, SocketsOf, OnePoll
<1>8. NoDangling'
  BY <1>0, <1>1, <1>2, <1>3, <1>4 DEF NoDangling, Adopted, FindByFd, Subscribe
<1>9. Races'
  BY <1>0, <1>1, <1>2, <1>3, <1>4 DEF Races, Adopted, FindByFd, Subscribe, OnePoll, OneSlot,
     SocketsOf, Users
<1>10. Primaries'
  BY <1>0, <1>1, <1>2, <1>3, <1>4 DEF Primaries, Adopted, FindByFd, Subscribe, Races,
     OnePoll, Users, SocketsOf
<1>11. Users'
  BY <1>0, <1>1, <1>2, <1>3, <1>4 DEF Users, Adopted, FindByFd, Subscribe
<1>12. States'
  BY <1>0, <1>1, <1>2, <1>3, <1>4 DEF States, Adopted, FindByFd, Subscribe, Users, OnePoll
<1>13. NotDeaf'
  <2>0. \A u \in Wsis : SocketsOf(u)' = SocketsOf(u)
    BY <1>2 DEF SocketsOf
  <2> SUFFICES ASSUME NEW u \in Wsis, NEW f \in SocketsOf(u), want'[f] # {}
               PROVE  \E y \in watchers' : y.wsi = u /\ y.fd = f /\ want'[f] \subseteq y.events
    BY <2>0 DEF NotDeaf
  <2>1. f \in Fds
    BY DEF SocketsOf
  <2>2. CASE f = fd
    <3>1. u = w
      BY <1>0, <1>4, <2>1, <2>2, OneUser
    <3>2. want[fd] = {}
      BY <1>0, <1>1, <1>4 DEF NotDeaf, Adopted, FindByFd
    <3>3. want'[fd] = {} \cup flags
      BY <1>1, <1>2, <3>2 DEF Adopted, Subscribe
    <3> QED
      BY <1>1, <2>2, <3>1, <3>3 DEF Adopted
  <2>3. CASE f # fd
    <3>1. PICK y \in watchers : y.wsi = u /\ y.fd = f /\ want'[f] \subseteq y.events
      BY <1>0, <1>2, <2>1, <2>3 DEF NotDeaf
    <3> QED
      BY <1>1, <2>3, <3>1 DEF Adopted
  <2> QED
    BY <2>2, <2>3
<1>14. ClosedOnce'
  BY <1>0, <1>1, <1>2, <1>3, <1>4 DEF ClosedOnce, Adopted, FindByFd, Subscribe
<1>15. Ticks'
  BY <1>0, <1>1, <1>2, <1>3, <1>4 DEF Ticks, Adopted, FindByFd, Subscribe
<1> QED
  BY <1>5, <1>6, <1>7, <1>8, <1>9, <1>10, <1>11, <1>12, <1>13, <1>14, <1>15 DEF Sound, Table

\* The watcher is that of the wsi.
LEMMA IoStayedSound ==
  ASSUME Sound, NEW w \in Wsis, NEW fd \in Fds, NEW start \in BOOLEAN,
         NEW flags \in SUBSET Events, Io(w, fd, start, flags),
         \E n, x : Stayed(watchers', n, x, w, fd, start, flags)
  PROVE  Sound'
<1> USE EvLibAssumption DEF Primary
<1>0. TypeOK /\ OnePoll /\ OneSlot /\ NoDangling /\ Races /\ Primaries /\ Users /\ States
        /\ NotDeaf /\ ClosedOnce /\ Ticks
  BY DEF Sound, Table
<1>1. PICK n, x : Stayed(watchers', n, x, w, fd, start, flags)
  OBVIOUS
<1>2. /\ want[fd] \subseteq Events
      /\ \A f \in Fds :
           want'[f] = IF f = fd THEN Subscribe(want[f], start, flags) ELSE want[f]
      /\ UNCHANGED <<closing, wsis, desc, racer, owner>>
      /\ UNCHANGED <<tick, pendingCloses, tickHandles>>
  BY <1>0 DEF Io, Lws, tickVars, TypeOK
<1>3. /\ \A u \in watchers : /\ u.wsi \in Wsis /\ u.pidx \in Racers \cup {Primary}
                             /\ u.fd \in Fds
      /\ \A v \in Wsis : /\ desc[v] \in Fds \cup {None}
                         /\ \A q \in Racers : racer[v][q] \in Fds \cup {None, "spent"}
  BY <1>0 DEF TypeOK, Watcher, Keys
<1>4. fd \in SocketsOf(w) /\ wsis[w] # "free"
  BY <1>0 DEF Io, SocketsOf, States
<1>5. TypeOK'
  <2>1. (watchers \subseteq Watcher)'
    BY <1>0, <1>1 DEF TypeOK, Stayed
  <2>2. (want \in [Fds -> SUBSET Events])'
    BY <1>0 DEF Io, Subscribe, TypeOK
  <2> QED
    BY <1>0, <1>2, <2>1, <2>2 DEF TypeOK
<1>6. OnePoll'
  BY <1>0, <1>1, <1>2, <1>3, <1>4 DEF OnePoll, Stayed, Subscribe
<1>7. OneSlot'
  BY <1>0, <1>1, <1>2, <1>3, <1>4 DEF OneSlot, Stayed, Subscribe, Races, Primaries,
     SocketsOf, OnePoll
<1>8. NoDangling'
  BY <1>0, <1>1, <1>2, <1>3, <1>4 DEF NoDangling, Stayed, Subscribe
<1>9. Races'
  BY <1>0, <1>1, <1>2, <1>3, <1>4 DEF Races, Stayed, Subscribe, OnePoll, OneSlot, SocketsOf,
     Users
<1>10. Primaries'
  BY <1>0, <1>1, <1>2, <1>3, <1>4 DEF Primaries, Stayed, Subscribe, Races, OnePoll, Users,
     SocketsOf
<1>11. Users'
  BY <1>0, <1>1, <1>2, <1>3, <1>4 DEF Users, Stayed, Subscribe
<1>12. States'
  BY <1>0, <1>1, <1>2, <1>3, <1>4 DEF States, Stayed, Subscribe, Users, OnePoll
<1>13. NotDeaf'
  <2>0. \A u \in Wsis : SocketsOf(u)' = SocketsOf(u)
    BY <1>2 DEF SocketsOf
  <2> SUFFICES ASSUME NEW u \in Wsis, NEW f \in SocketsOf(u), want'[f] # {}
               PROVE  \E y \in watchers' : y.wsi = u /\ y.fd = f /\ want'[f] \subseteq y.events
    BY <2>0 DEF NotDeaf
  <2>1. f \in Fds
    BY DEF SocketsOf
  <2>2. CASE f = fd
    <3>1. u = w
      BY <1>0, <1>4, <2>1, <2>2, OneUser
    <3>2. want[fd] \subseteq x.events
      BY <1>0, <1>1, <1>4 DEF NotDeaf, Stayed, OnePoll
    <3>3. want'[fd] \subseteq n.events
      BY <1>1, <1>2, <3>2 DEF Stayed, Subscribe
    <3> QED
      BY <1>1, <2>2, <3>1, <3>3 DEF Stayed
  <2>3. CASE f # fd
    <3>1. PICK y \in watchers : y.wsi = u /\ y.fd = f /\ want'[f] \subseteq y.events
      BY <1>0, <1>2, <2>1, <2>3 DEF NotDeaf
    <3> QED
      BY <1>1, <2>3, <3>1 DEF Stayed
  <2> QED
    BY <2>2, <2>3
<1>14. ClosedOnce'
  BY <1>0, <1>1, <1>2, <1>3, <1>4 DEF ClosedOnce, Stayed, Subscribe
<1>15. Ticks'
  BY <1>0, <1>1, <1>2, <1>3, <1>4 DEF Ticks, Stayed, Subscribe
<1> QED
  BY <1>5, <1>6, <1>7, <1>8, <1>9, <1>10, <1>11, <1>12, <1>13, <1>14, <1>15 DEF Sound, Table

\* The watcher is taken over.
LEMMA IoTakenSound ==
  ASSUME Sound, NEW w \in Wsis, NEW fd \in Fds, NEW start \in BOOLEAN,
         NEW flags \in SUBSET Events, Io(w, fd, start, flags),
         \E n, x : Taken(watchers', n, x, w, fd, start, flags)
  PROVE  Sound'
<1> USE EvLibAssumption DEF Primary
<1>0. TypeOK /\ OnePoll /\ OneSlot /\ NoDangling /\ Races /\ Primaries /\ Users /\ States
        /\ NotDeaf /\ ClosedOnce /\ Ticks
  BY DEF Sound, Table
<1>1. PICK n, x : Taken(watchers', n, x, w, fd, start, flags)
  OBVIOUS
<1>2. /\ want[fd] \subseteq Events
      /\ \A f \in Fds :
           want'[f] = IF f = fd THEN Subscribe(want[f], start, flags) ELSE want[f]
      /\ UNCHANGED <<closing, wsis, desc, racer, owner>>
      /\ UNCHANGED <<tick, pendingCloses, tickHandles>>
  BY <1>0 DEF Io, Lws, tickVars, TypeOK
<1>3. /\ \A u \in watchers : /\ u.wsi \in Wsis /\ u.pidx \in Racers \cup {Primary}
                             /\ u.fd \in Fds
      /\ \A v \in Wsis : /\ desc[v] \in Fds \cup {None}
                         /\ \A q \in Racers : racer[v][q] \in Fds \cup {None, "spent"}
  BY <1>0 DEF TypeOK, Watcher, Keys
<1>4. fd \in SocketsOf(w) /\ wsis[w] # "free"
  BY <1>0 DEF Io, SocketsOf, States
<1>5. TypeOK'
  <2>1. (watchers \subseteq Watcher)'
    BY <1>0, <1>1 DEF TypeOK, Taken
  <2>2. (want \in [Fds -> SUBSET Events])'
    BY <1>0 DEF Io, Subscribe, TypeOK
  <2> QED
    BY <1>0, <1>2, <2>1, <2>2 DEF TypeOK
<1>6. OnePoll'
  BY <1>0, <1>1, <1>2, <1>3, <1>4 DEF OnePoll, Taken, Subscribe
<1>7. OneSlot'
  BY <1>0, <1>1, <1>2, <1>3, <1>4 DEF OneSlot, Taken, Subscribe, Races, Primaries,
     SocketsOf, OnePoll
<1>8. NoDangling'
  BY <1>0, <1>1, <1>2, <1>3, <1>4 DEF NoDangling, Taken, Subscribe
<1>9. Races'
  BY <1>0, <1>1, <1>2, <1>3, <1>4 DEF Races, Taken, Subscribe, OnePoll, OneSlot, SocketsOf,
     Users
<1>10. Primaries'
  BY <1>0, <1>1, <1>2, <1>3, <1>4 DEF Primaries, Taken, Subscribe, Races, OnePoll, Users,
     SocketsOf
<1>11. Users'
  BY <1>0, <1>1, <1>2, <1>3, <1>4 DEF Users, Taken, Subscribe
<1>12. States'
  <2>1. ~x.ref
    <3> SUFFICES ASSUME x.ref PROVE FALSE
      OBVIOUS
    <3>1. x \in watchers /\ x.wsi \in Wsis /\ x.wsi # w /\ fd \in SocketsOf(x.wsi)
      BY <1>0, <1>1, <1>3 DEF Taken, States, SocketsOf
    <3> QED
      BY <1>0, <1>4, <3>1, OneUser
  <2>2. (\A y \in watchers : y.ref => wsis[y.wsi] = "listen" /\ desc[y.wsi] = y.fd)'
    BY <1>0, <1>1, <1>2, <2>1 DEF States, Taken
  <2> QED
    BY <1>0, <1>2, <2>2 DEF States
<1>13. NotDeaf'
  <2>0. \A u \in Wsis : SocketsOf(u)' = SocketsOf(u)
    BY <1>2 DEF SocketsOf
  <2> SUFFICES ASSUME NEW u \in Wsis, NEW f \in SocketsOf(u), want'[f] # {}
               PROVE  \E y \in watchers' : y.wsi = u /\ y.fd = f /\ want'[f] \subseteq y.events
    BY <2>0 DEF NotDeaf
  <2>1. f \in Fds
    BY DEF SocketsOf
  <2>2. CASE f = fd
    <3>1. u = w
      BY <1>0, <1>4, <2>1, <2>2, OneUser
    <3>2. want[fd] \subseteq x.events
      BY <1>0, <1>1, <1>4 DEF NotDeaf, Taken, OnePoll
    <3>3. want'[fd] \subseteq n.events
      BY <1>1, <1>2, <3>2 DEF Taken, Subscribe
    <3> QED
      BY <1>1, <2>2, <3>1, <3>3 DEF Taken
  <2>3. CASE f # fd
    <3>1. PICK y \in watchers : y.wsi = u /\ y.fd = f /\ want'[f] \subseteq y.events
      BY <1>0, <1>2, <2>1, <2>3 DEF NotDeaf
    <3>2. ~(y.wsi = w /\ y.pidx = Primary)
      <4> SUFFICES ASSUME u = w, y.pidx = Primary PROVE FALSE
        BY <3>1
      <4>1. \A p \in Racers : racer[w][p] # fd
        BY <1>0, <1>1 DEF Taken, Races, OnePoll
      <4>2. PICK p \in Racers : racer[w][p] = f
        BY <1>4, <2>3, <4>1 DEF SocketsOf
      <4>3. PICK z \in watchers : z.pidx = p /\ z.fd = f
        BY <1>0, <2>1, <4>2 DEF Races
      <4> QED
        BY <1>0, <3>1, <4>3 DEF OnePoll
    <3> QED
      BY <1>1, <2>3, <3>1, <3>2 DEF Taken
  <2> QED
    BY <2>2, <2>3
<1>14. ClosedOnce'
  BY <1>0, <1>1, <1>2, <1>3, <1>4 DEF ClosedOnce, Taken, Subscribe
<1>15. Ticks'
  BY <1>0, <1>1, <1>2, <1>3, <1>4 DEF Ticks, Taken, Subscribe
<1> QED
  BY <1>5, <1>6, <1>7, <1>8, <1>9, <1>10, <1>11, <1>12, <1>13, <1>14, <1>15 DEF Sound, Table

\* A stop for a wsi without a socket.
LEMMA IoClosedSound ==
  ASSUME Sound, NEW w \in Wsis, NEW flags \in SUBSET Events, IoClosed(w, flags)
  PROVE  Sound'
<1> USE EvLibAssumption DEF Primary
<1>0. TypeOK /\ OnePoll /\ OneSlot /\ NoDangling /\ Races /\ Primaries /\ Users /\ States
        /\ NotDeaf /\ ClosedOnce /\ Ticks
  BY DEF Sound, Table
<1> DEFINE g(x) == IF x.wsi = w /\ x.pidx = Primary THEN Apply(x, FALSE, flags) ELSE x
<1>1. \A x \in watchers :
        /\ g(x) \in Watcher /\ g(x).wsi = x.wsi /\ g(x).pidx = x.pidx
        /\ g(x).fd = x.fd /\ g(x).ref = x.ref
  BY <1>0, ApplyFields DEF TypeOK
<1>2. watchers' = {g(x) : x \in watchers}
  BY DEF IoClosed
<1>3. /\ desc[w] = None /\ UNCHANGED <<closing, wsis, desc, racer, owner, want>>
      /\ UNCHANGED <<tick, pendingCloses, tickHandles>>
  BY DEF IoClosed, Lws, tickVars, lwsVars
<1>4. /\ \A u \in watchers : /\ u.wsi \in Wsis /\ u.pidx \in Racers \cup {Primary}
                             /\ u.fd \in Fds
      /\ \A v \in Wsis : /\ desc[v] \in Fds \cup {None}
                         /\ \A q \in Racers : racer[v][q] \in Fds \cup {None, "spent"}
  BY <1>0 DEF TypeOK, Watcher, Keys
<1>5. \A x \in watchers :
        IF x.wsi = w /\ x.pidx = Primary
        THEN g(x).events = Subscribe(x.events, FALSE, flags) ELSE g(x) = x
  BY <1>0, ApplyFields DEF TypeOK
<1> HIDE DEF g
<1>6. TypeOK'
  <2>1. (watchers \subseteq Watcher)'
    BY <1>1, <1>2
  <2>2. (want \in [Fds -> SUBSET Events])'
    BY <1>0, <1>3 DEF TypeOK
  <2> QED
    BY <1>0, <1>3, <2>1, <2>2 DEF TypeOK
<1>7. OnePoll'
  BY <1>0, <1>1, <1>2, <1>3, <1>4 DEF OnePoll
<1>8. OneSlot'
  BY <1>0, <1>1, <1>2, <1>3, <1>4 DEF OneSlot
<1>9. NoDangling'
  BY <1>0, <1>1, <1>2, <1>3, <1>4 DEF NoDangling
<1>10. Races'
  BY <1>0, <1>1, <1>2, <1>3, <1>4 DEF Races
<1>11. Primaries'
  BY <1>0, <1>1, <1>2, <1>3, <1>4 DEF Primaries
<1>12. Users'
  BY <1>0, <1>1, <1>2, <1>3, <1>4 DEF Users
<1>13. States'
  <2>1. ASSUME NEW y \in watchers', y.ref PROVE wsis[y.wsi] = "listen" /\ desc[y.wsi] = y.fd
    <3>1. PICK x \in watchers : y = g(x)
      BY <1>2
    <3>2. x.ref /\ y.wsi = x.wsi /\ y.fd = x.fd
      BY <1>1, <2>1, <3>1
    <3> QED
      BY <1>0, <3>2 DEF States
  <2> QED
    BY <1>0, <1>3, <2>1 DEF States
<1>14. NotDeaf'
  <2>0. \A u \in Wsis : SocketsOf(u)' = SocketsOf(u)
    BY <1>3 DEF SocketsOf
  <2> SUFFICES ASSUME NEW u \in Wsis, NEW f \in SocketsOf(u), want'[f] # {}
               PROVE  \E y \in watchers' : y.wsi = u /\ y.fd = f /\ want'[f] \subseteq y.events
    BY <2>0 DEF NotDeaf
  <2>1. f \in Fds
    BY DEF SocketsOf
  <2>2. PICK x \in watchers : x.wsi = u /\ x.fd = f /\ want'[f] \subseteq x.events
    BY <1>0, <1>3, <2>1 DEF NotDeaf
  <2>3. ~(x.wsi = w /\ x.pidx = Primary)
    <3> SUFFICES ASSUME u = w, x.pidx = Primary PROVE FALSE
      BY <2>2
    <3>1. PICK p \in Racers : racer[w][p] = f
      BY <1>3, <2>1 DEF SocketsOf
    <3>2. PICK z \in watchers : z.pidx = p /\ z.fd = f
      BY <1>0, <2>1, <3>1 DEF Races
    <3> QED
      BY <1>0, <2>2, <3>2 DEF OnePoll
  <2> QED
    BY <1>1, <1>2, <1>5, <2>2, <2>3
<1>15. ClosedOnce'
  BY <1>0, <1>1, <1>2, <1>3, <1>4 DEF ClosedOnce
<1>16. Ticks'
  BY <1>0, <1>1, <1>2, <1>3, <1>4 DEF Ticks
<1> QED
  BY <1>6, <1>7, <1>8, <1>9, <1>10, <1>11, <1>12, <1>13, <1>14, <1>15, <1>16 DEF Sound,
     Table

\* A subscription of a racer.
LEMMA IoParallelSound ==
  ASSUME Sound, NEW w \in Wsis, NEW p \in Racers, NEW start \in BOOLEAN,
         NEW flags \in SUBSET Events, IoParallel(w, p, start, flags)
  PROVE  Sound'
<1> USE EvLibAssumption DEF Primary
<1>0. TypeOK /\ OnePoll /\ OneSlot /\ NoDangling /\ Races /\ Primaries /\ Users /\ States
        /\ NotDeaf /\ ClosedOnce /\ Ticks
  BY DEF Sound, Table
<1> DEFINE g(x) == IF x.wsi = w /\ x.pidx = p THEN Apply(x, start, flags) ELSE x
<1>1. \A x \in watchers :
        /\ g(x) \in Watcher /\ g(x).wsi = x.wsi /\ g(x).pidx = x.pidx
        /\ g(x).fd = x.fd /\ g(x).ref = x.ref
  BY <1>0, ApplyFields DEF TypeOK
<1>2. watchers' = {g(x) : x \in watchers}
  BY DEF IoParallel
<1>3. /\ racer[w][p] \in Fds
      /\ \A f \in Fds :
           want'[f] = IF f = racer[w][p] THEN Subscribe(want[f], start, flags)
                      ELSE want[f]
      /\ UNCHANGED <<closing, wsis, desc, racer, owner>>
      /\ UNCHANGED <<tick, pendingCloses, tickHandles>>
  BY <1>0 DEF IoParallel, Lws, tickVars, TypeOK
<1>4. /\ \A u \in watchers : /\ u.wsi \in Wsis /\ u.pidx \in Racers \cup {Primary}
                             /\ u.fd \in Fds
      /\ \A v \in Wsis : /\ desc[v] \in Fds \cup {None}
                         /\ \A q \in Racers : racer[v][q] \in Fds \cup {None, "spent"}
  BY <1>0 DEF TypeOK, Watcher, Keys
<1>5. \A x \in watchers :
        IF x.wsi = w /\ x.pidx = p
        THEN g(x).events = Subscribe(x.events, start, flags) ELSE g(x) = x
  BY <1>0, ApplyFields DEF TypeOK
<1> HIDE DEF g
<1>6. TypeOK'
  <2>1. (watchers \subseteq Watcher)'
    BY <1>1, <1>2
  <2>2. (want \in [Fds -> SUBSET Events])'
    BY <1>0, <1>3 DEF TypeOK, IoParallel, Subscribe
  <2> QED
    BY <1>0, <1>3, <2>1, <2>2 DEF TypeOK
<1>7. OnePoll'
  BY <1>0, <1>1, <1>2, <1>3, <1>4 DEF OnePoll
<1>8. OneSlot'
  BY <1>0, <1>1, <1>2, <1>3, <1>4 DEF OneSlot
<1>9. NoDangling'
  BY <1>0, <1>1, <1>2, <1>3, <1>4 DEF NoDangling
<1>10. Races'
  BY <1>0, <1>1, <1>2, <1>3, <1>4 DEF Races
<1>11. Primaries'
  BY <1>0, <1>1, <1>2, <1>3, <1>4 DEF Primaries
<1>12. Users'
  BY <1>0, <1>1, <1>2, <1>3, <1>4 DEF Users
<1>13. States'
  <2>1. ASSUME NEW y \in watchers', y.ref PROVE wsis[y.wsi] = "listen" /\ desc[y.wsi] = y.fd
    <3>1. PICK x \in watchers : y = g(x)
      BY <1>2
    <3>2. x.ref /\ y.wsi = x.wsi /\ y.fd = x.fd
      BY <1>1, <2>1, <3>1
    <3> QED
      BY <1>0, <3>2 DEF States
  <2> QED
    BY <1>0, <1>3, <2>1 DEF States
<1>14. NotDeaf'
  <2>0. \A u \in Wsis : SocketsOf(u)' = SocketsOf(u)
    BY <1>3 DEF SocketsOf
  <2> SUFFICES ASSUME NEW u \in Wsis, NEW f \in SocketsOf(u), want'[f] # {}
               PROVE  \E y \in watchers' : y.wsi = u /\ y.fd = f /\ want'[f] \subseteq y.events
    BY <2>0 DEF NotDeaf
  <2>1. f \in Fds
    BY DEF SocketsOf
  <2>2. PICK z \in watchers : z.wsi = w /\ z.pidx = p /\ z.fd = racer[w][p]
    BY <1>0, <1>3 DEF Races
  <2>3. CASE f = racer[w][p]
    <3>1. u = w
      BY <1>0, <1>3, <2>1, <2>3, OneUser DEF SocketsOf
    <3>2. want[f] \subseteq z.events
      BY <1>0, <2>1, <2>2, <2>3, <3>1 DEF NotDeaf, OnePoll
    <3>3. want'[f] \subseteq g(z).events
      BY <1>3, <1>5, <2>1, <2>2, <2>3, <3>2 DEF Subscribe
    <3> QED
      BY <1>1, <1>2, <2>2, <2>3, <3>1, <3>3
  <2>4. CASE f # racer[w][p]
    <3>1. PICK x \in watchers : x.wsi = u /\ x.fd = f /\ want'[f] \subseteq x.events
      BY <1>0, <1>3, <2>1, <2>4 DEF NotDeaf
    <3>2. ~(x.wsi = w /\ x.pidx = p)
      BY <1>0, <2>2, <2>4, <3>1 DEF OneSlot
    <3> QED
      BY <1>1, <1>2, <1>5, <3>1, <3>2
  <2> QED
    BY <2>3, <2>4
<1>15. ClosedOnce'
  BY <1>0, <1>1, <1>2, <1>3, <1>4 DEF ClosedOnce
<1>16. Ticks'
  BY <1>0, <1>1, <1>2, <1>3, <1>4 DEF Ticks
<1> QED
  BY <1>6, <1>7, <1>8, <1>9, <1>10, <1>11, <1>12, <1>13, <1>14, <1>15, <1>16 DEF Sound,
     Table

\* A wsi is closed and freed.
LEMMA CloseWsiSound ==
  ASSUME Sound, NEW w \in Wsis, CloseWsi(w)
  PROVE  Sound'
<1> USE EvLibAssumption DEF Primary
<1>0. TypeOK /\ OnePoll /\ OneSlot /\ NoDangling /\ Races /\ Primaries /\ Users /\ States
        /\ NotDeaf /\ ClosedOnce /\ Ticks
  BY DEF Sound, Table
<1>1. \A x : x \in watchers' <=> x \in watchers /\ x.wsi # w
  BY DEF CloseWsi, DetachAll
<1>2. /\ \A v \in Wsis : desc'[v] = IF v = w THEN None ELSE desc[v]
      /\ \A v \in Wsis : wsis'[v] = IF v = w THEN "free" ELSE wsis[v]
      /\ \A v \in Wsis, q \in Racers : racer'[v][q] = IF v = w THEN None ELSE racer[v][q]
      /\ \A f \in Fds : owner'[f] = IF f = desc[w] THEN "free" ELSE owner[f]
      /\ \A q \in Racers : racer[w][q] \notin Fds
      /\ UNCHANGED <<closing, want, tick, pendingCloses, tickHandles>>
  BY <1>0 DEF CloseWsi, Lws, tickVars, TypeOK
<1>3. /\ \A u \in watchers : /\ u.wsi \in Wsis /\ u.pidx \in Racers \cup {Primary}
                             /\ u.fd \in Fds
      /\ \A v \in Wsis : /\ desc[v] \in Fds \cup {None}
                         /\ \A q \in Racers : racer[v][q] \in Fds \cup {None, "spent"}
  BY <1>0 DEF TypeOK, Watcher, Keys
<1>4. TypeOK'
  BY <1>0, <1>1 DEF CloseWsi, Lws, tickVars, TypeOK
<1>5. OnePoll'
  BY <1>0, <1>1, <1>2, <1>3 DEF OnePoll
<1>6. OneSlot'
  BY <1>0, <1>1, <1>2, <1>3 DEF OneSlot
<1>7. NoDangling'
  BY <1>0, <1>1, <1>2, <1>3 DEF NoDangling
<1>8. Races'
  <2>1. ASSUME NEW u \in Wsis, NEW q \in Racers, racer'[u][q] \in Fds
        PROVE  \E x \in watchers' : x.wsi = u /\ x.pidx = q /\ x.fd = racer'[u][q]
    <3>1. u # w /\ racer'[u][q] = racer[u][q]
      BY <1>2, <2>1
    <3> QED
      BY <1>0, <1>1, <2>1, <3>1 DEF Races
  <2>2. ASSUME NEW x \in watchers', x.pidx # Primary PROVE racer'[x.wsi][x.pidx] # None
    <3>1. x \in watchers /\ x.wsi # w
      BY <1>1
    <3>2. x.wsi \in Wsis /\ x.pidx \in Racers /\ racer[x.wsi][x.pidx] # None
      BY <1>0, <1>3, <2>2, <3>1 DEF Races
    <3> QED
      BY <1>2, <3>1, <3>2
  <2> QED
    BY <2>1, <2>2 DEF Races
<1>9. Primaries'
  BY <1>0, <1>1, <1>2, <1>3 DEF Primaries
<1>10. Users'
  BY <1>0, <1>1, <1>2, <1>3 DEF Users
<1>11. States'
  <2>1. (\A u \in Wsis : wsis[u] = "free" => desc[u] = None)'
    BY <1>0, <1>2 DEF States
  <2>2. (\A u \in Wsis, q \in Racers : wsis[u] # "client" => racer[u][q] = None)'
    BY <1>0, <1>2 DEF States
  <2>3. (\A x \in watchers : x.ref => wsis[x.wsi] = "listen" /\ desc[x.wsi] = x.fd)'
    BY <1>0, <1>1, <1>2, <1>3 DEF States
  <2> QED
    BY <2>1, <2>2, <2>3 DEF States
<1>12. NotDeaf'
  BY <1>0, <1>1, <1>2, <1>3 DEF NotDeaf, SocketsOf, Races, OnePoll
<1>13. ClosedOnce'
  BY <1>0, <1>1, <1>2, <1>3 DEF ClosedOnce, Users
<1>14. Ticks'
  BY <1>0, <1>1, <1>2, <1>3 DEF Ticks
<1> QED
  BY <1>4, <1>5, <1>6, <1>7, <1>8, <1>9, <1>10, <1>11, <1>12, <1>13, <1>14 DEF Sound, Table

\* A server on a descriptor without a watcher.
LEMMA ListenNewSound ==
  ASSUME Sound, NEW w \in Wsis, NEW fd \in Fds, Listen(w, fd), FindByFd(watchers, fd) = {}
  PROVE  Sound'
<1> USE EvLibAssumption DEF Primary
<1>0. TypeOK /\ OnePoll /\ OneSlot /\ NoDangling /\ Races /\ Primaries /\ Users /\ States
        /\ NotDeaf /\ ClosedOnce /\ Ticks
  BY DEF Sound, Table
<1>1. /\ \A v \in Wsis : desc'[v] = IF v = w THEN fd ELSE desc[v]
      /\ \A v \in Wsis : wsis'[v] = IF v = w THEN "listen" ELSE wsis[v]
      /\ \A f \in Fds : owner'[f] = IF f = fd THEN "lws" ELSE owner[f]
      /\ \A f \in Fds : want'[f] = IF f = fd THEN {} ELSE want[f]
      /\ UNCHANGED <<closing, racer, tick, pendingCloses, tickHandles>>
  BY <1>0 DEF Listen, Opened, Lws, tickVars, TypeOK
<1>2. /\ \A u \in watchers : /\ u.wsi \in Wsis /\ u.pidx \in Racers \cup {Primary}
                             /\ u.fd \in Fds
      /\ \A v \in Wsis : /\ desc[v] \in Fds \cup {None}
                         /\ \A q \in Racers : racer[v][q] \in Fds \cup {None, "spent"}
  BY <1>0 DEF TypeOK, Watcher, Keys
<1>3. wsis[w] = "free" /\ desc[w] = None /\ \A y \in watchers : y.wsi # w
  BY <1>0 DEF Listen, States, NoDangling
<1>4. owner[fd] = "free" /\ \A v \in Wsis : desc[v] # fd /\ \A p \in Racers : racer[v][p] # fd
  BY <1>0 DEF Listen, Opened, Users, TypeOK
<1>5. PICK n : n = Created(w, Primary, fd, {Readable}, TRUE)
  OBVIOUS
<1>6. n \in Watcher /\ n.wsi = w /\ n.pidx = Primary /\ n.fd = fd
  BY <1>5 DEF Created, Watcher, Keys
<1>7. \A y : y \in watchers' <=> y = n \/ y \in watchers
  BY <1>5 DEF Listen
<1>8. \A y \in watchers : y.fd # fd
  BY DEF FindByFd
<1>9. TypeOK'
  <2>1. (watchers \subseteq Watcher)'
    BY <1>0, <1>6, <1>7 DEF TypeOK
  <2> QED
    BY <1>0, <2>1 DEF TypeOK, Listen, Opened, Lws, tickVars
<1>10. OnePoll'
  BY <1>0, <1>1, <1>2, <1>3, <1>4, <1>6, <1>7, <1>8 DEF OnePoll
<1>11. OneSlot'
  BY <1>0, <1>1, <1>2, <1>3, <1>4, <1>6, <1>7, <1>8 DEF OneSlot
<1>12. NoDangling'
  BY <1>0, <1>1, <1>2, <1>3, <1>4, <1>6, <1>7, <1>8 DEF NoDangling
<1>13. Races'
  BY <1>0, <1>1, <1>2, <1>3, <1>4, <1>6, <1>7, <1>8 DEF Races
<1>14. Primaries'
  BY <1>0, <1>1, <1>2, <1>3, <1>4, <1>6, <1>7, <1>8 DEF Primaries
<1>15. Users'
  BY <1>0, <1>1, <1>2, <1>3, <1>4, <1>6, <1>7, <1>8 DEF Users
<1>16. States'
  BY <1>0, <1>1, <1>2, <1>3, <1>4, <1>6, <1>7, <1>8 DEF States
<1>17. NotDeaf'
  BY <1>0, <1>1, <1>2, <1>3, <1>4, <1>6, <1>7, <1>8 DEF NotDeaf, SocketsOf, Races, OnePoll
<1>18. ClosedOnce'
  BY <1>0, <1>1, <1>2, <1>3, <1>4, <1>6, <1>7, <1>8 DEF ClosedOnce
<1>19. Ticks'
  BY <1>0, <1>1, <1>2, <1>3, <1>4, <1>6, <1>7, <1>8 DEF Ticks
<1> QED
  BY <1>9, <1>10, <1>11, <1>12, <1>13, <1>14, <1>15, <1>16, <1>17, <1>18, <1>19 DEF Sound,
     Table

\* A server on a descriptor with the leftover of another.
LEMMA ListenOverSound ==
  ASSUME Sound, NEW w \in Wsis, NEW fd \in Fds, Listen(w, fd), NEW n, NEW x,
         Taken(watchers', n, x, w, fd, TRUE, {Readable})
  PROVE  Sound'
<1> USE EvLibAssumption DEF Primary
<1>0. TypeOK /\ OnePoll /\ OneSlot /\ NoDangling /\ Races /\ Primaries /\ Users /\ States
        /\ NotDeaf /\ ClosedOnce /\ Ticks
  BY DEF Sound, Table
<1>1. /\ \A v \in Wsis : desc'[v] = IF v = w THEN fd ELSE desc[v]
      /\ \A v \in Wsis : wsis'[v] = IF v = w THEN "listen" ELSE wsis[v]
      /\ \A f \in Fds : owner'[f] = IF f = fd THEN "lws" ELSE owner[f]
      /\ \A f \in Fds : want'[f] = IF f = fd THEN {} ELSE want[f]
      /\ UNCHANGED <<closing, racer, tick, pendingCloses, tickHandles>>
  BY <1>0 DEF Listen, Opened, Lws, tickVars, TypeOK
<1>2. /\ \A u \in watchers : /\ u.wsi \in Wsis /\ u.pidx \in Racers \cup {Primary}
                             /\ u.fd \in Fds
      /\ \A v \in Wsis : /\ desc[v] \in Fds \cup {None}
                         /\ \A q \in Racers : racer[v][q] \in Fds \cup {None, "spent"}
  BY <1>0 DEF TypeOK, Watcher, Keys
<1>3. wsis[w] = "free" /\ desc[w] = None /\ \A y \in watchers : y.wsi # w
  BY <1>0 DEF Listen, States, NoDangling
<1>4. owner[fd] = "free" /\ \A v \in Wsis : desc[v] # fd /\ \A p \in Racers : racer[v][p] # fd
  BY <1>0 DEF Listen, Opened, Users, TypeOK
<1>5. /\ x \in watchers /\ x.fd = fd /\ n \in Watcher
      /\ n.wsi = w /\ n.pidx = Primary /\ n.fd = fd /\ n.ref = x.ref
  BY DEF Taken
<1>6. \A y : y \in watchers' <=> y = n \/ (y \in watchers /\ y # x)
  BY <1>3 DEF Taken
<1>7. TypeOK'
  <2>1. (watchers \subseteq Watcher)'
    BY <1>0, <1>5, <1>6 DEF TypeOK
  <2> QED
    BY <1>0, <2>1 DEF TypeOK, Listen, Opened, Lws, tickVars
<1>8. OnePoll'
  BY <1>0, <1>1, <1>2, <1>3, <1>4, <1>5, <1>6 DEF OnePoll, OnePoll
<1>9. OneSlot'
  BY <1>0, <1>1, <1>2, <1>3, <1>4, <1>5, <1>6 DEF OneSlot
<1>10. NoDangling'
  BY <1>0, <1>1, <1>2, <1>3, <1>4, <1>5, <1>6 DEF NoDangling
<1>11. Races'
  BY <1>0, <1>1, <1>2, <1>3, <1>4, <1>5, <1>6 DEF Races
<1>12. Primaries'
  BY <1>0, <1>1, <1>2, <1>3, <1>4, <1>5, <1>6 DEF Primaries
<1>13. Users'
  BY <1>0, <1>1, <1>2, <1>3, <1>4, <1>5, <1>6 DEF Users
<1>14. States'
  <2>1. ~x.ref
    BY <1>0, <1>2, <1>4, <1>5 DEF States
  <2>2. (\A y \in watchers : y.ref => wsis[y.wsi] = "listen" /\ desc[y.wsi] = y.fd)'
    BY <1>0, <1>1, <1>2, <1>3, <1>5, <1>6, <2>1 DEF States
  <2> QED
    BY <1>0, <1>1, <1>3, <2>2 DEF States
<1>15. NotDeaf'
  BY <1>0, <1>1, <1>2, <1>3, <1>4, <1>5, <1>6 DEF NotDeaf, SocketsOf, Races, OnePoll
<1>16. ClosedOnce'
  BY <1>0, <1>1, <1>2, <1>3, <1>4, <1>5, <1>6 DEF ClosedOnce
<1>17. Ticks'
  BY <1>0, <1>1, <1>2, <1>3, <1>4, <1>5, <1>6 DEF Ticks
<1> QED
  BY <1>7, <1>8, <1>9, <1>10, <1>11, <1>12, <1>13, <1>14, <1>15, <1>16, <1>17 DEF Sound,
     Table

----------------------------------------------------------------------------
\* A call of tjs__evlib_io.
LEMMA IoSound ==
  ASSUME Sound, NEW w \in Wsis, NEW fd \in Fds, NEW start \in BOOLEAN,
         NEW flags \in SUBSET Events, Io(w, fd, start, flags)
  PROVE  Sound'
<1>1. TypeOK /\ OnePoll /\ watchers' = IoByFd(watchers, w, fd, start, flags)
  BY DEF Sound, Table, Io
<1>2. \/ Stopped(watchers', fd, start)
      \/ \E n : Adopted(watchers', n, w, fd, start, flags)
      \/ \E n, x : Stayed(watchers', n, x, w, fd, start, flags)
      \/ \E n, x : Taken(watchers', n, x, w, fd, start, flags)
  BY <1>1, IoTable
<1> QED
  BY <1>2, IoStoppedSound, IoAdoptedSound, IoStayedSound, IoTakenSound

\* A server socket, whether or not a watcher was left on its descriptor.
LEMMA ListenSound ==
  ASSUME Sound, NEW w \in Wsis, NEW fd \in Fds, Listen(w, fd)
  PROVE  Sound'
<1>1. CASE FindByFd(watchers, fd) = {}
  BY <1>1, ListenNewSound
<1>2. CASE FindByFd(watchers, fd) # {}
  <2>1. TypeOK /\ OnePoll /\ watchers' = IoByFd(watchers, w, fd, TRUE, {Readable})
    BY <1>2 DEF Sound, Table, Listen
  <2>2. {Readable} \in SUBSET Events /\ \A y \in watchers : y.wsi # w
    BY EvLibAssumption DEF Sound, Table, NoDangling, Listen
  <2>3. \E n, x : Taken(watchers', n, x, w, fd, TRUE, {Readable})
    <3>1. \/ Stopped(watchers', fd, TRUE)
          \/ \E n : Adopted(watchers', n, w, fd, TRUE, {Readable})
          \/ \E n, x : Stayed(watchers', n, x, w, fd, TRUE, {Readable})
          \/ \E n, x : Taken(watchers', n, x, w, fd, TRUE, {Readable})
      BY <2>1, <2>2, IoTable
    <3> QED
      BY <1>2, <2>2, <3>1 DEF Stopped, Adopted, Stayed
  <2> QED
    BY <2>3, ListenOverSound
<1> QED
  BY <1>1, <1>2

\* Every step keeps the invariant.
LEMMA NextSound == Sound /\ [Next]_vars => Sound'
<1> SUFFICES ASSUME Sound, [Next]_vars
             PROVE  Sound'
  OBVIOUS
<1>1. CASE UNCHANGED vars
  BY <1>1 DEF vars, tickVars, lwsVars, Sound, Table, TypeOK, OnePoll, OneSlot, NoDangling,
     Races, Primaries, Users, States, NotDeaf, SocketsOf, ClosedOnce, Ticks
<1>2. CASE DestroyPt \/ TickClosed \/ \E fd \in Fds : WatcherClosed(fd)
  BY <1>2, DestroyPtSound, TickClosedSound, WatcherClosedSound
<1>3. ASSUME NEW w \in Wsis,
             \/ NewClient(w) \/ CloseBehind(w) \/ CloseWsi(w)
             \/ \E v \in Wsis : Migrate(w, v)
             \/ \E fd \in Fds : SockAccept(w, fd) \/ Listen(w, fd)
      PROVE  Sound'
  BY <1>3, NewClientSound, CloseBehindSound, CloseWsiSound, MigrateSound, SockAcceptSound,
     ListenSound
<1>4. ASSUME NEW w \in Wsis, NEW flags \in SUBSET Events,
             \/ IoClosed(w, flags)
             \/ \E start \in BOOLEAN :
                  \/ \E fd \in Fds : Io(w, fd, start, flags)
                  \/ \E p \in Racers : IoParallel(w, p, start, flags)
      PROVE  Sound'
  BY <1>4, IoClosedSound, IoSound, IoParallelSound
<1>5. ASSUME NEW w \in Wsis, NEW p \in Racers,
             \/ CloseRacer(w, p) \/ PromoteParallel(w, p) \/ PromoteSilently(w, p)
             \/ \E fd \in Fds : SockAcceptParallel(w, p, fd)
      PROVE  Sound'
  BY <1>5, CloseRacerSound, PromoteParallelSound, PromoteSilentlySound,
     SockAcceptParallelSound
<1> QED
  BY <1>1, <1>2, <1>3, <1>4, <1>5 DEF Next

----------------------------------------------------------------------------
\* The table of watchers is sound whatever lws does.
LEMMA Invariance == Spec => []Sound
BY InitSound, NextSound, PTL DEF Spec

\* Whatever lws opens, closes, promotes and moves without telling: a descriptor has one
\* uv_poll, a key one watcher, no watcher outlives its wsi, and a descriptor that lws gave
\* up is closed once (lws-evlib.c:134-298, 510-547).
THEOREM TableAlwaysSound == Spec => []TableSound
<1>1. Sound => TableSound
  BY DEF Sound, Table, TableSound
<1> QED
  BY <1>1, Invariance, PTL

\* A socket is polled for what lws subscribed it to, through races, promotions and moves
\* (lws-evlib.c:410-462).
THEOREM NeverDeaf == Spec => []NotDeaf
<1>1. Sound => NotDeaf
  BY DEF Sound, Table
<1> QED
  BY <1>1, Invariance, PTL

\* Only the sockets of servers keep the loop alive (lws-evlib.c:31, 549-568).
THEOREM ServersHold == Spec => []OnlyServersHold
<1>1. Sound => OnlyServersHold
  BY DEF Sound, Table, States, OnlyServersHold
<1> QED
  BY <1>1, Invariance, PTL

----------------------------------------------------------------------------
(***************************************************************************)
(* The inductive invariant.                                                *)
(***************************************************************************)
HopSet ==
  [handlers : {"deliver", "follow", "fail"}, location : BOOLEAN,
   status : {"none", "info", "ok", "redirect"},
   pinned : BOOLEAN, completed : BOOLEAN, torndown : BOOLEAN,
   conn : {"none", "connecting", "body", "idle", "closed"},
   killed : BOOLEAN, body : BOOLEAN, served : 0..MaxData,
   sendBuf : Seq(Nat), bodyDone : BOOLEAN, writable : BOOLEAN, blocked : BOOLEAN,
   wire : Seq(Nat)]
FetchSet ==
  [phase : {"idle", "queued", "sent"}, signal : {"none", "early", "intime", "late"},
   promise : {"pending", "resolved", "rejected"}, timers : Seq({"resolved", "rejected"}),
   resolved : BOOLEAN, status : {"none", "info", "ok", "redirect"}, controller : BOOLEAN,
   stream : {"readable", "closed", "errored", "cancelled"}, completes : 0..1,
   stopped : {"no", "stream", "connect"}]

Shapes ==
  /\ mode \in {"follow", "error", "manual"} /\ streaming \in BOOLEAN
  /\ fetch \in FetchSet
  /\ client \in [redirects : Nat, current : 0..(MaxRedirects + 1)]
  /\ hop \in [Hops -> HopSet]
  /\ refs \in Int
  /\ event = NoEvent \/ event \in Hops \X {"status", "header", "end"}
  /\ upload \in [source : 0..MaxChunks, reads : Nat]
  /\ delivered \in Seq(Hops)

Used(h) == hop[h].conn # "none"
Waits(h) == Up(h) /\ ~hop[h].completed

\* The stages of a native client and of its connection.
Staged(h) ==
  /\ hop[h].conn = "none" => hop[h] = NewHop
  /\ Up(h) <=> hop[h].conn \in {"connecting", "body"}
  /\ hop[h].torndown <=> hop[h].conn \in {"idle", "closed"}
  /\ hop[h].torndown => hop[h].completed
  /\ Up(h) => (hop[h].killed <=> hop[h].completed)
  /\ hop[h].conn \in {"none", "connecting"} => hop[h].served = 0
  /\ hop[h].handlers # "deliver" => hop[h].status = "redirect"
  /\ hop[h].conn = "connecting" /\ event \notin {<<h, "header">>, <<h, "end">>} =>
       hop[h].status \in {"none", "info"}

\* An event is that of a connection that waits for its headers.
EventOK ==
  event # NoEvent =>
    /\ hop[event[1]].conn = "connecting"
    /\ event[2] # "status" /\ hop[event[1]].handlers = "deliver" =>
         hop[event[1]].status = fetch.status

\* Hops come one after the other, each but the last one is over and was a redirect.
Chained ==
  \A g, h \in Hops : g < h /\ Used(h) =>
    hop[g].conn \in {"idle", "closed"} /\ hop[g].handlers = "follow"
Counted(h) ==
  hop[h].handlers = "follow" =>
    mode = "follow" /\ h <= client.redirects /\ h <= MaxRedirects

\* HttpClient knows the hop that waits for its response, and fetch that there is one.
Known(h) == Waits(h) => client.current = h /\ fetch.completes = 0
Awaited ==
  fetch.stopped = "no" /\ fetch.completes = 0 /\ (\E h \in Hops : Used(h)) =>
    \E h \in Hops : Waits(h)
Named ==
  fetch.stopped = "no" /\ client.current # 0 =>
    client.current \in Hops /\ (Used(client.current) \/ \A h \in Hops : ~Used(h))
Unsent ==
  /\ fetch.phase # "sent" =>
       /\ \A h \in Hops : ~Used(h)
       /\ fetch.promise = "pending"
  /\ (\A h \in Hops : ~Used(h)) =>
       /\ upload.reads = 0 /\ fetch.completes = 0 /\ ~fetch.resolved
       /\ fetch.phase = "sent" => fetch.promise = "rejected"

\* The promise: at most one timer for the response and one for its failure.
Settling ==
  /\ Len(fetch.timers) <= fetch.completes + (IF fetch.resolved THEN 1 ELSE 0)
  /\ "resolved" \in {fetch.timers[i] : i \in DOMAIN fetch.timers} \/ fetch.promise = "resolved"
       => fetch.resolved
  /\ fetch.resolved => \E h \in Hops : /\ hop[h].handlers = "deliver"
                                       /\ hop[h].conn \in {"body", "idle", "closed"}
  /\ fetch.signal = "intime" =>
       \/ fetch.promise = "rejected"
       \/ fetch.promise = "pending" /\ fetch.timers # <<>> /\ Head(fetch.timers) = "rejected"

\* The body.
Streamed ==
  /\ fetch.controller <=> fetch.completes = 0
  /\ fetch.controller => fetch.stream = "readable"
  /\ fetch.stopped # "stream"
  /\ \A i \in DOMAIN delivered :
       /\ hop[delivered[i]].handlers = "deliver"
       /\ hop[delivered[i]].conn \in {"body", "idle", "closed"}
  /\ fetch.stream = "closed" => Len(delivered) = MaxData
Served(h) ==
  fetch.completes = 0 /\ Used(h) /\ hop[h].handlers = "deliver" => Len(delivered) = hop[h].served

\* The request body: what is written and what is buffered rises.
Rising(s) == \A i, j \in DOMAIN s : i < j => s[i] < s[j]
Under(s, n) == \A i \in DOMAIN s : s[i] <= n
Behind(s, t) == \A i \in DOMAIN s, j \in DOMAIN t : s[i] < t[j]
Sent(x) == End \in {x.wire[i] : i \in DOMAIN x.wire}
Given == MaxChunks - upload.source
Framed(h) ==
  LET x == hop[h] IN
  /\ Rising(x.wire) /\ Rising(x.sendBuf) /\ Behind(x.wire, x.sendBuf)
  /\ Under(x.wire, End) /\ Under(x.sendBuf, MaxChunks)
  /\ Sent(x) => x.sendBuf = <<>> /\ x.bodyDone /\ ~x.writable /\ ~x.blocked
  /\ x.body => ~streaming /\ x.bodyDone /\ MaxChunks > 0
  /\ x.blocked => x.body
  /\ x.body /\ x.sendBuf = <<>> => Sent(x)
Chunked(h) ==
  LET x == hop[h] IN
  /\ streaming => /\ \A i \in DOMAIN x.wire : x.wire[i] # End => x.wire[i] <= Given
                  /\ Under(x.sendBuf, Given)
                  /\ x.bodyDone => upload.source = 0
  /\ upload.reads > 0 => streaming

FetchSound ==
  /\ Shapes /\ RefsExact /\ EventOK /\ Chained /\ Awaited /\ Named /\ Unsent
  /\ Settling /\ Streamed /\ UploadMoves
  /\ \A h \in Hops : Staged(h) /\ Counted(h) /\ Known(h) /\ Served(h) /\ Framed(h) /\ Chunked(h)

----------------------------------------------------------------------------
(* Shapes.                                                                 *)

\* A record with the fields of a hop is a hop; the fields that lemmas on steps change.
LEMMA HopType ==
  ASSUME NEW y \in HopSet, NEW x, DOMAIN x = DOMAIN y, x = [a \in DOMAIN y |-> x[a]],
         x.handlers \in {"deliver", "follow", "fail"}, x.location \in BOOLEAN,
         x.status \in {"none", "info", "ok", "redirect"},
         x.pinned \in BOOLEAN, x.completed \in BOOLEAN, x.torndown \in BOOLEAN,
         x.conn \in {"none", "connecting", "body", "idle", "closed"},
         x.killed \in BOOLEAN, x.body \in BOOLEAN, x.served \in 0..MaxData,
         x.sendBuf \in Seq(Nat), x.bodyDone \in BOOLEAN, x.writable \in BOOLEAN,
         x.blocked \in BOOLEAN, x.wire \in Seq(Nat)
  PROVE  x \in HopSet
BY DEF HopSet

\* The fields of a hop.
LEMMA HopParts ==
  ASSUME NEW y \in HopSet
  PROVE  /\ y.handlers \in {"deliver", "follow", "fail"} /\ y.location \in BOOLEAN
         /\ y.status \in {"none", "info", "ok", "redirect"}
         /\ y.pinned \in BOOLEAN /\ y.completed \in BOOLEAN /\ y.torndown \in BOOLEAN
         /\ y.conn \in {"none", "connecting", "body", "idle", "closed"}
         /\ y.killed \in BOOLEAN /\ y.body \in BOOLEAN /\ y.served \in 0..MaxData
         /\ y.sendBuf \in Seq(Nat) /\ y.bodyDone \in BOOLEAN /\ y.writable \in BOOLEAN
         /\ y.blocked \in BOOLEAN /\ y.wire \in Seq(Nat)
BY DEF HopSet

\* A record with the fields of what fetch.js keeps is one.
LEMMA FetchType ==
  ASSUME NEW f \in FetchSet, NEW g, DOMAIN g = DOMAIN f, g = [a \in DOMAIN f |-> g[a]],
         g.phase \in {"idle", "queued", "sent"},
         g.signal \in {"none", "early", "intime", "late"},
         g.promise \in {"pending", "resolved", "rejected"},
         g.timers \in Seq({"resolved", "rejected"}), g.resolved \in BOOLEAN,
         g.status \in {"none", "info", "ok", "redirect"}, g.controller \in BOOLEAN,
         g.stream \in {"readable", "closed", "errored", "cancelled"}, g.completes \in 0..1,
         g.stopped \in {"no", "stream", "connect"}
  PROVE  g \in FetchSet
BY DEF FetchSet

\* The fields of what fetch.js keeps.
LEMMA FetchParts ==
  ASSUME NEW g \in FetchSet
  PROVE  /\ g.phase \in {"idle", "queued", "sent"}
         /\ g.signal \in {"none", "early", "intime", "late"}
         /\ g.promise \in {"pending", "resolved", "rejected"}
         /\ g.timers \in Seq({"resolved", "rejected"}) /\ g.resolved \in BOOLEAN
         /\ g.status \in {"none", "info", "ok", "redirect"} /\ g.controller \in BOOLEAN
         /\ g.stream \in {"readable", "closed", "errored", "cancelled"}
         /\ g.completes \in 0..1 /\ g.stopped \in {"no", "stream", "connect"}
BY DEF FetchSet

\* A hop that was not opened.
LEMMA NewHopShape == NewHop \in HopSet
<1>1. 0 \in 0..MaxData /\ <<>> \in Seq(Nat)
  BY FetchAssumption
<1> QED
  BY <1>1 DEF NewHop, HopSet

\* The chunks of a request body, one after the other.
LEMMA AllChunks ==
  /\ [i \in 1..MaxChunks |-> i] \in Seq(Nat)
  /\ Len([i \in 1..MaxChunks |-> i]) = MaxChunks
  /\ DOMAIN [i \in 1..MaxChunks |-> i] = 1..MaxChunks
<1>1. MaxChunks \in Nat
  BY FetchAssumption
<1> QED
  BY <1>1

\* A hop that was opened, with a whole body or without.
LEMMA OpenedShape ==
  ASSUME NEW body \in BOOLEAN, streaming \in BOOLEAN
  PROVE  /\ Connecting(body) \in HopSet
         /\ Connecting(body).handlers = "deliver" /\ Connecting(body).status = "none"
         /\ Connecting(body).pinned = TRUE /\ Connecting(body).completed = FALSE
         /\ Connecting(body).torndown = FALSE /\ Connecting(body).conn = "connecting"
         /\ Connecting(body).killed = FALSE /\ Connecting(body).body = body
         /\ Connecting(body).served = 0 /\ Connecting(body).bodyDone = body
         /\ Connecting(body).writable = (body \/ streaming) /\ Connecting(body).blocked = FALSE
         /\ Connecting(body).wire = <<>>
         /\ Connecting(body).sendBuf = (IF body THEN [i \in 1..MaxChunks |-> i] ELSE <<>>)
<1> DEFINE b == IF body THEN [i \in 1..MaxChunks |-> i] ELSE <<>>
           w == body \/ streaming
           x == [NewHop EXCEPT !.pinned = TRUE, !.conn = "connecting", !.body = body,
                   !.writable = w, !.sendBuf = b, !.bodyDone = body]
<1>1. 0 \in 0..MaxData /\ <<>> \in Seq(Nat) /\ b \in Seq(Nat) /\ w \in BOOLEAN
  BY AllChunks, FetchAssumption
<1>2. Connecting(body) = x
  BY DEF Connecting
<1> HIDE DEF b, w
<1>3. DOMAIN x = DOMAIN NewHop /\ x = [a \in DOMAIN NewHop |-> x[a]]
  OBVIOUS
<1>4. /\ x.handlers = "deliver" /\ x.status = "none" /\ x.location = FALSE
      /\ x.pinned = TRUE /\ x.completed = FALSE
      /\ x.torndown = FALSE /\ x.conn = "connecting"
      /\ x.killed = FALSE /\ x.body = body
  BY DEF NewHop
<1>5. /\ x.served = 0 /\ x.bodyDone = body
      /\ x.writable = w /\ x.blocked = FALSE
      /\ x.wire = <<>> /\ x.sendBuf = b
  BY DEF NewHop
<1> HIDE DEF x
<1>6. x \in HopSet
  BY <1>1, <1>3, <1>4, <1>5, NewHopShape, HopType
<1> QED
  BY <1>2, <1>4, <1>5, <1>6 DEF b, w

\* client.oncomplete, when the stream is readable if there is a controller and all is well.
LEMMA CompleteShape ==
  ASSUME NEW f \in FetchSet, f.completes = 0, NEW ok \in BOOLEAN,
         ok /\ f.controller => f.stream = "readable"
  PROVE  LET g == FetchComplete(f, ok) IN
         /\ g \in FetchSet
         /\ g.phase = f.phase /\ g.signal = f.signal /\ g.promise = f.promise
         /\ g.resolved = f.resolved /\ g.status = f.status
         /\ g.completes = 1 /\ g.controller = FALSE /\ g.stopped = f.stopped
         /\ g.stream = (IF ~f.controller \/ f.stream # "readable" THEN f.stream
                       ELSE IF ok THEN "closed" ELSE "errored")
         /\ g.timers = (IF ok \/ f.resolved THEN f.timers ELSE Append(f.timers, "rejected"))
<1> DEFINE g == FetchComplete(f, ok)
           s == IF ~f.controller \/ f.stream # "readable" THEN f.stream
                ELSE IF ok THEN "closed" ELSE "errored"
           t == IF ok \/ f.resolved THEN f.timers ELSE Append(f.timers, "rejected")
<1>1. /\ g.phase = f.phase /\ g.signal = f.signal /\ g.promise = f.promise
      /\ g.resolved = f.resolved /\ g.status = f.status
  BY DEF FetchComplete, FetchSet
<1>2. g.completes = 1 /\ g.controller = FALSE
  BY DEF FetchComplete, FetchSet
<1>3. g.stopped = f.stopped
  BY DEF FetchComplete, FetchSet
<1>4. g.stream = s
  BY DEF FetchComplete, FetchSet
<1>5. g.timers = t
  BY DEF FetchComplete, FetchSet
<1>6. DOMAIN g = DOMAIN f /\ g = [a \in DOMAIN f |-> g[a]]
  BY DEF FetchComplete
<1>7. t \in Seq({"resolved", "rejected"})
      /\ s \in {"readable", "closed", "errored", "cancelled"}
  BY DEF FetchSet
<1> HIDE DEF g, s, t
<1>8. g \in FetchSet
  <2>3. g.completes \in 0..1
    BY <1>2
  <2>4. g.controller \in BOOLEAN
    BY <1>2, Zenon
  <2>5. /\ g.timers \in Seq({"resolved", "rejected"})
        /\ g.stream \in {"readable", "closed", "errored", "cancelled"}
    BY <1>4, <1>5, <1>7, Zenon
  <2>2. /\ g.phase \in {"idle", "queued", "sent"}
        /\ g.signal \in {"none", "early", "intime", "late"}
        /\ g.promise \in {"pending", "resolved", "rejected"} /\ g.resolved \in BOOLEAN
        /\ g.status \in {"none", "info", "ok", "redirect"}
        /\ g.stopped \in {"no", "stream", "connect"}
    BY <1>1, <1>3, FetchParts
  <2> QED
    BY <1>6, <2>2, <2>3, <2>4, <2>5, FetchType
<1> QED
  BY <1>1, <1>2, <1>3, <1>4, <1>5, <1>8 DEF g, s, t

----------------------------------------------------------------------------
(* What the steps do to the hops.                                          *)

Others(h) == \A g \in Hops : g # h => hop'[g] = hop[g]
SameStage(h) ==
  /\ hop'[h].handlers = hop[h].handlers /\ hop'[h].status = hop[h].status
  /\ hop'[h].pinned = hop[h].pinned /\ hop'[h].completed = hop[h].completed
  /\ hop'[h].torndown = hop[h].torndown /\ hop'[h].conn = hop[h].conn
  /\ hop'[h].killed = hop[h].killed /\ hop'[h].served = hop[h].served
SameUpload(h) ==
  /\ hop'[h].body = hop[h].body /\ hop'[h].sendBuf = hop[h].sendBuf
  /\ hop'[h].bodyDone = hop[h].bodyDone /\ hop'[h].writable = hop[h].writable
  /\ hop'[h].blocked = hop[h].blocked /\ hop'[h].wire = hop[h].wire

\* One hop changes.
LEMMA HopUpdated ==
  ASSUME hop \in [Hops -> HopSet], NEW h \in Hops, NEW x \in HopSet,
         hop' = [hop EXCEPT ![h] = x]
  PROVE  hop' \in [Hops -> HopSet] /\ Others(h) /\ hop'[h] = x
BY DEF Others

\* onstatus.
LEMMA OnStatusHops ==
  ASSUME Shapes, NEW h \in Hops, OnStatus(h)
  PROVE  /\ hop' \in [Hops -> HopSet] /\ Others(h) /\ SameUpload(h)
         /\ hop'[h].pinned = hop[h].pinned /\ hop'[h].completed = hop[h].completed
         /\ hop'[h].torndown = hop[h].torndown /\ hop'[h].conn = hop[h].conn
         /\ hop'[h].killed = hop[h].killed /\ hop'[h].served = hop[h].served
         /\ hop'[h].status \in {"info", "ok", "redirect"}
         /\ hop'[h].status = "info" => hop[h].status = "none"
         /\ LET redirected == hop'[h].status = "redirect" /\ mode # "manual"
                count == client.redirects + 1 IN
            /\ hop'[h].handlers = (IF ~redirected THEN hop[h].handlers
                                   ELSE IF mode = "error" \/ TooMany(count)
                                        THEN "fail" ELSE "follow")
            /\ client' = [client EXCEPT !.redirects = IF redirected /\ mode = "follow"
                                                      THEN count ELSE @]
            /\ fetch' = IF redirected THEN fetch ELSE [fetch EXCEPT !.status = hop'[h].status]
<1>1. PICK status \in {"info", "ok", "redirect"} :
       /\ status = "info" => hop[h].status = "none"
       /\ LET redirected == status = "redirect" /\ mode # "manual"
              count == client.redirects + 1 IN
          /\ hop' = [hop EXCEPT ![h].status = status,
                                ![h].handlers = IF ~redirected THEN @
                                                ELSE IF mode = "error" \/ TooMany(count)
                                                THEN "fail" ELSE "follow"]
          /\ client' = [client EXCEPT !.redirects = IF redirected /\ mode = "follow"
                                                    THEN count ELSE @]
          /\ fetch' = IF redirected THEN fetch ELSE [fetch EXCEPT !.status = status]
  BY DEF OnStatus
<1> DEFINE k == IF ~(status = "redirect" /\ mode # "manual") THEN hop[h].handlers
                ELSE IF mode = "error" \/ TooMany(client.redirects + 1) THEN "fail" ELSE "follow"
           x == [hop[h] EXCEPT !.status = status, !.handlers = k]
<1>2. hop[h] \in HopSet /\ hop \in [Hops -> HopSet]
  BY DEF Shapes
<1>3. k \in {"deliver", "follow", "fail"}
  BY <1>2, HopParts
<1>4. hop' = [hop EXCEPT ![h] = x]
  BY <1>1, <1>2
<1> HIDE DEF k
<1>5. x \in HopSet
  BY <1>2, <1>3 DEF HopSet
<1>6. /\ x.body = hop[h].body /\ x.sendBuf = hop[h].sendBuf
      /\ x.bodyDone = hop[h].bodyDone /\ x.writable = hop[h].writable
      /\ x.blocked = hop[h].blocked /\ x.wire = hop[h].wire
      /\ x.pinned = hop[h].pinned /\ x.completed = hop[h].completed
      /\ x.torndown = hop[h].torndown /\ x.conn = hop[h].conn
      /\ x.killed = hop[h].killed /\ x.served = hop[h].served
      /\ x.status = status /\ x.handlers = k
  BY <1>2 DEF HopSet
<1> HIDE DEF x
<1>7. hop' \in [Hops -> HopSet] /\ Others(h) /\ hop'[h] = x
  BY <1>2, <1>4, <1>5, HopUpdated
<1> QED
  BY <1>1, <1>6, <1>7 DEF k, SameUpload

\* onheader, of which only the Location matters.
LEMMA OnHeaderHops ==
  ASSUME Shapes, NEW h \in Hops, OnHeader(h)
  PROVE  /\ hop' \in [Hops -> HopSet] /\ Others(h) /\ SameUpload(h) /\ SameStage(h)
<1>1. PICK l \in BOOLEAN : hop' = [hop EXCEPT ![h].location = l /\ hop[h].handlers = "follow"]
  BY DEF OnHeader
<1> DEFINE k == l /\ hop[h].handlers = "follow"
           x == [hop[h] EXCEPT !.location = k]
<1>2. hop[h] \in HopSet /\ hop \in [Hops -> HopSet]
  BY DEF Shapes
<1>3. k \in BOOLEAN
  OBVIOUS
<1>4. hop' = [hop EXCEPT ![h] = x]
  BY <1>1, <1>2
<1> HIDE DEF k
<1>5. x \in HopSet
  BY <1>2, <1>3 DEF HopSet
<1>6. /\ x.body = hop[h].body /\ x.sendBuf = hop[h].sendBuf
      /\ x.bodyDone = hop[h].bodyDone /\ x.writable = hop[h].writable
      /\ x.blocked = hop[h].blocked /\ x.wire = hop[h].wire
      /\ x.pinned = hop[h].pinned /\ x.completed = hop[h].completed
      /\ x.torndown = hop[h].torndown /\ x.conn = hop[h].conn
      /\ x.killed = hop[h].killed /\ x.served = hop[h].served
      /\ x.status = hop[h].status /\ x.handlers = hop[h].handlers
  BY <1>2 DEF HopSet
<1> HIDE DEF x
<1>7. hop' \in [Hops -> HopSet] /\ Others(h) /\ hop'[h] = x
  BY <1>2, <1>4, <1>5, HopUpdated
<1> QED
  BY <1>6, <1>7 DEF SameUpload, SameStage

\* onheadersend: the body follows, or another response.
LEMMA OnHeadersEndHops ==
  ASSUME Shapes, NEW h \in Hops, OnHeadersEnd(h)
  PROVE  /\ hop' \in [Hops -> HopSet] /\ Others(h) /\ SameUpload(h)
         /\ hop'[h].pinned = hop[h].pinned /\ hop'[h].completed = hop[h].completed
         /\ hop'[h].torndown = hop[h].torndown
         /\ hop'[h].killed = hop[h].killed /\ hop'[h].served = hop[h].served
         /\ hop'[h].status = hop[h].status /\ hop'[h].handlers = hop[h].handlers
         /\ hop'[h].conn = (IF hop[h].status = "info" THEN "connecting" ELSE "body")
<1> DEFINE k == IF hop[h].status = "info" THEN "connecting" ELSE "body"
           x == [hop[h] EXCEPT !.conn = k]
<1>2. hop[h] \in HopSet /\ hop \in [Hops -> HopSet]
  BY DEF Shapes
<1>3. k \in {"connecting", "body"}
  OBVIOUS
<1>4. hop' = [hop EXCEPT ![h] = x]
  BY <1>2 DEF OnHeadersEnd
<1> HIDE DEF k
<1>5. x \in HopSet
  BY <1>2, <1>3 DEF HopSet
<1>6. /\ x.body = hop[h].body /\ x.sendBuf = hop[h].sendBuf
      /\ x.bodyDone = hop[h].bodyDone /\ x.writable = hop[h].writable
      /\ x.blocked = hop[h].blocked /\ x.wire = hop[h].wire
      /\ x.pinned = hop[h].pinned /\ x.completed = hop[h].completed
      /\ x.torndown = hop[h].torndown /\ x.conn = k
      /\ x.killed = hop[h].killed /\ x.served = hop[h].served
      /\ x.status = hop[h].status /\ x.handlers = hop[h].handlers
  BY <1>2 DEF HopSet
<1> HIDE DEF x
<1>7. hop' \in [Hops -> HopSet] /\ Others(h) /\ hop'[h] = x
  BY <1>2, <1>4, <1>5, HopUpdated
<1> QED
  BY <1>6, <1>7 DEF SameUpload, k

\* A chunk of a response.
LEMMA ReadHops ==
  ASSUME Shapes, NEW h \in Hops, Read(h)
  PROVE  /\ hop' \in [Hops -> HopSet] /\ Others(h) /\ SameUpload(h)
         /\ hop'[h].pinned = hop[h].pinned /\ hop'[h].completed = hop[h].completed
         /\ hop'[h].torndown = hop[h].torndown /\ hop'[h].conn = hop[h].conn
         /\ hop'[h].killed = hop[h].killed /\ hop'[h].served = hop[h].served + 1
         /\ hop'[h].status = hop[h].status /\ hop'[h].handlers = hop[h].handlers
<1> DEFINE k == hop[h].served + 1
           x == [hop[h] EXCEPT !.served = k]
<1>2. hop[h] \in HopSet /\ hop \in [Hops -> HopSet]
  BY DEF Shapes
<1>3. k \in 0..MaxData
  BY <1>2, HopParts, FetchAssumption DEF Read
<1>4. hop' = [hop EXCEPT ![h] = x]
  BY <1>2 DEF Read
<1> HIDE DEF k
<1>5. x \in HopSet
  BY <1>2, <1>3 DEF HopSet
<1>6. /\ x.body = hop[h].body /\ x.sendBuf = hop[h].sendBuf
      /\ x.bodyDone = hop[h].bodyDone /\ x.writable = hop[h].writable
      /\ x.blocked = hop[h].blocked /\ x.wire = hop[h].wire
      /\ x.pinned = hop[h].pinned /\ x.completed = hop[h].completed
      /\ x.torndown = hop[h].torndown /\ x.conn = hop[h].conn
      /\ x.killed = hop[h].killed /\ x.served = k
      /\ x.status = hop[h].status /\ x.handlers = hop[h].handlers
  BY <1>2 DEF HopSet
<1> HIDE DEF x
<1>7. hop' \in [Hops -> HopSet] /\ Others(h) /\ hop'[h] = x
  BY <1>2, <1>4, <1>5, HopUpdated
<1> QED
  BY <1>6, <1>7 DEF SameUpload, k

\* The streams's body is written, or its end.
LEMMA WriteStreamHops ==
  ASSUME Shapes, NEW h \in Hops, WriteStream(h)
  PROVE  /\ hop' \in [Hops -> HopSet] /\ Others(h) /\ SameStage(h)
         /\ hop'[h].body = hop[h].body /\ hop'[h].sendBuf = <<>>
         /\ hop'[h].bodyDone = hop[h].bodyDone /\ hop'[h].writable = AskAgain(h)
         /\ hop'[h].blocked = hop[h].blocked
         /\ hop'[h].wire = (IF hop[h].sendBuf # <<>> THEN hop[h].wire \o hop[h].sendBuf
                            ELSE IF hop[h].bodyDone THEN Append(hop[h].wire, End)
                            ELSE hop[h].wire)
<1> DEFINE w == IF hop[h].sendBuf # <<>> THEN hop[h].wire \o hop[h].sendBuf
                ELSE IF hop[h].bodyDone THEN Append(hop[h].wire, End) ELSE hop[h].wire
           a == AskAgain(h)
           x == [hop[h] EXCEPT !.writable = a, !.sendBuf = <<>>, !.wire = w]
<1>1. hop[h] \in HopSet /\ hop \in [Hops -> HopSet]
  BY DEF Shapes
<1>2. w \in Seq(Nat) /\ a \in BOOLEAN /\ <<>> \in Seq(Nat)
      /\ hop[h].bodyDone \in BOOLEAN /\ hop[h].blocked \in BOOLEAN
  BY <1>1, HopParts, FetchAssumption DEF End, AskAgain
<1>3. hop' = [hop EXCEPT ![h] = x]
  BY <1>1 DEF WriteStream
<1> HIDE DEF w, a
<1>4. /\ x.handlers = hop[h].handlers /\ x.status = hop[h].status
      /\ x.pinned = hop[h].pinned /\ x.completed = hop[h].completed
      /\ x.torndown = hop[h].torndown /\ x.conn = hop[h].conn
      /\ x.killed = hop[h].killed /\ x.served = hop[h].served
      /\ x.location = hop[h].location /\ x.body = hop[h].body
      /\ x.sendBuf = <<>> /\ x.bodyDone = hop[h].bodyDone /\ x.writable = a
      /\ x.blocked = hop[h].blocked /\ x.wire = w
  BY <1>1 DEF HopSet
<1>5. DOMAIN x = DOMAIN hop[h] /\ x = [a0 \in DOMAIN hop[h] |-> x[a0]]
  OBVIOUS
<1> HIDE DEF x
<1>6. x \in HopSet
  <2>1. x.sendBuf \in Seq(Nat) /\ x.wire \in Seq(Nat) /\ x.bodyDone \in BOOLEAN
        /\ x.writable \in BOOLEAN /\ x.blocked \in BOOLEAN
    BY <1>2, <1>4, Zenon
  <2> QED
    BY <1>1, <1>4, <1>5, <2>1, HopParts, HopType
<1>7. hop' \in [Hops -> HopSet] /\ Others(h) /\ hop'[h] = x
  BY <1>1, <1>3, <1>6, HopUpdated
<1> QED
  BY <1>4, <1>7 DEF w, a, SameStage

\* A whole body is written, as much as the peer takes.
LEMMA WriteBodyHops ==
  ASSUME Shapes, NEW h \in Hops, WriteBody(h)
  PROVE  /\ hop' \in [Hops -> HopSet] /\ Others(h) /\ SameStage(h)
         /\ hop'[h].body = hop[h].body /\ hop'[h].bodyDone = hop[h].bodyDone
         /\ \E n \in 0..Len(hop[h].sendBuf) :
              /\ hop'[h].sendBuf = SubSeq(hop[h].sendBuf, n + 1, Len(hop[h].sendBuf))
              /\ hop'[h].writable = (n > 0 /\ n < Len(hop[h].sendBuf))
              /\ hop'[h].blocked = (n = 0 /\ hop[h].sendBuf # <<>>)
              /\ hop'[h].wire = hop[h].wire \o SubSeq(hop[h].sendBuf, 1, n)
                                  \o (IF n > 0 /\ n = Len(hop[h].sendBuf) THEN <<End>> ELSE <<>>)
<1> DEFINE left == hop[h].sendBuf
<1>0. PICK n \in 0..Len(left) :
       hop' = [hop EXCEPT ![h].wire = @ \o SubSeq(left, 1, n)
                                        \o (IF n > 0 /\ n = Len(left) THEN <<End>> ELSE <<>>),
                          ![h].sendBuf = SubSeq(left, n + 1, Len(left)),
                          ![h].writable = n > 0 /\ n < Len(left),
                          ![h].blocked = n = 0 /\ left # <<>>]
  BY DEF WriteBody
<1> DEFINE w == hop[h].wire \o SubSeq(left, 1, n)
                            \o (IF n > 0 /\ n = Len(left) THEN <<End>> ELSE <<>>)
           s == SubSeq(left, n + 1, Len(left))
           a == n > 0 /\ n < Len(left)
           b == n = 0 /\ left # <<>>
           x == [hop[h] EXCEPT !.wire = w, !.sendBuf = s, !.writable = a, !.blocked = b]
<1>1. hop[h] \in HopSet /\ hop \in [Hops -> HopSet] /\ left \in Seq(Nat)
  BY HopParts DEF Shapes
<1>3. hop' = [hop EXCEPT ![h] = x]
  BY <1>0, <1>1
<1>4. s \in Seq(Nat) /\ a \in BOOLEAN /\ b \in BOOLEAN /\ hop[h].bodyDone \in BOOLEAN
  BY <1>1, HopParts
<1>5. w \in Seq(Nat)
  <2>1. hop[h].wire \in Seq(Nat) /\ SubSeq(left, 1, n) \in Seq(Nat)
    BY <1>1, HopParts
  <2>2. (IF n > 0 /\ n = Len(left) THEN <<End>> ELSE <<>>) \in Seq(Nat)
    BY FetchAssumption DEF End
  <2> HIDE DEF left
  <2> QED
    BY <2>1, <2>2
<1> HIDE DEF w, s, a, b
<1>6. /\ x.handlers = hop[h].handlers /\ x.status = hop[h].status
      /\ x.pinned = hop[h].pinned /\ x.completed = hop[h].completed
      /\ x.torndown = hop[h].torndown /\ x.conn = hop[h].conn
      /\ x.killed = hop[h].killed /\ x.served = hop[h].served
      /\ x.location = hop[h].location /\ x.body = hop[h].body
      /\ x.sendBuf = s /\ x.bodyDone = hop[h].bodyDone /\ x.writable = a
      /\ x.blocked = b /\ x.wire = w
  BY <1>1 DEF HopSet
<1>7. DOMAIN x = DOMAIN hop[h] /\ x = [a0 \in DOMAIN hop[h] |-> x[a0]]
  OBVIOUS
<1> HIDE DEF x
<1>8. x \in HopSet
  <2>1. x.sendBuf \in Seq(Nat) /\ x.wire \in Seq(Nat) /\ x.bodyDone \in BOOLEAN
        /\ x.writable \in BOOLEAN /\ x.blocked \in BOOLEAN
    BY <1>4, <1>5, <1>6, Zenon
  <2> QED
    BY <1>1, <1>6, <1>7, <2>1, HopParts, HopType
<1>9. hop' \in [Hops -> HopSet] /\ Others(h) /\ hop'[h] = x
  BY <1>1, <1>3, <1>8, HopUpdated
<1> QED
  BY <1>6, <1>9, Zenon DEF w, s, a, b, SameStage

\* A window update asks for a write again.
LEMMA WindowUpdateHops ==
  ASSUME Shapes, NEW h \in Hops, WindowUpdate(h)
  PROVE  /\ hop' \in [Hops -> HopSet] /\ Others(h) /\ SameStage(h)
         /\ hop'[h].body = hop[h].body /\ hop'[h].sendBuf = hop[h].sendBuf
         /\ hop'[h].bodyDone = hop[h].bodyDone /\ hop'[h].writable = TRUE
         /\ hop'[h].blocked = FALSE /\ hop'[h].wire = hop[h].wire
<1> DEFINE x == [hop[h] EXCEPT !.blocked = FALSE, !.writable = TRUE]
<1>1. hop[h] \in HopSet /\ hop \in [Hops -> HopSet]
  BY DEF Shapes
<1>2. hop[h].sendBuf \in Seq(Nat) /\ hop[h].wire \in Seq(Nat) /\ hop[h].bodyDone \in BOOLEAN
  BY <1>1, HopParts
<1>3. hop' = [hop EXCEPT ![h] = x]
  BY <1>1 DEF WindowUpdate
<1>4. /\ x.handlers = hop[h].handlers /\ x.status = hop[h].status
      /\ x.pinned = hop[h].pinned /\ x.completed = hop[h].completed
      /\ x.torndown = hop[h].torndown /\ x.conn = hop[h].conn
      /\ x.killed = hop[h].killed /\ x.served = hop[h].served
      /\ x.location = hop[h].location /\ x.body = hop[h].body
      /\ x.sendBuf = hop[h].sendBuf /\ x.bodyDone = hop[h].bodyDone /\ x.writable = TRUE
      /\ x.blocked = FALSE /\ x.wire = hop[h].wire
  BY <1>1 DEF HopSet
<1>5. DOMAIN x = DOMAIN hop[h] /\ x = [a0 \in DOMAIN hop[h] |-> x[a0]]
  OBVIOUS
<1> HIDE DEF x
<1>6. x \in HopSet
  <2>1. x.sendBuf \in Seq(Nat) /\ x.wire \in Seq(Nat) /\ x.bodyDone \in BOOLEAN
        /\ x.writable \in BOOLEAN /\ x.blocked \in BOOLEAN
    BY <1>2, <1>4, Zenon
  <2> QED
    BY <1>1, <1>4, <1>5, <2>1, HopParts, HopType
<1>7. hop' \in [Hops -> HopSet] /\ Others(h) /\ hop'[h] = x
  BY <1>1, <1>3, <1>6, HopUpdated
<1> QED
  BY <1>4, <1>7 DEF SameStage

\* A chunk of the stream, or its end, goes to the client of the time.
LEMMA ReadSettlesHops ==
  ASSUME Shapes, ReadSettles, NEW h \in Hops, h = client.current
  PROVE  /\ hop' \in [Hops -> HopSet] /\ Others(h) /\ SameStage(h)
         /\ hop'[h].body = hop[h].body
         /\ hop'[h].sendBuf = (IF upload.source = 0 THEN hop[h].sendBuf
                               ELSE Append(hop[h].sendBuf, MaxChunks - upload.source + 1))
         /\ hop'[h].bodyDone = (hop[h].bodyDone \/ upload.source = 0)
         /\ hop'[h].writable = (hop[h].writable \/ (Up(h) /\ (upload.source > 0 \/ ~hop[h].bodyDone)))
         /\ hop'[h].blocked = hop[h].blocked /\ hop'[h].wire = hop[h].wire
<1> DEFINE s == IF upload.source = 0 THEN hop[h].sendBuf
                ELSE Append(hop[h].sendBuf, MaxChunks - upload.source + 1)
           d == hop[h].bodyDone \/ upload.source = 0
           a == hop[h].writable \/ (Up(h) /\ (upload.source > 0 \/ ~hop[h].bodyDone))
           x == [hop[h] EXCEPT !.sendBuf = s, !.writable = a, !.bodyDone = d]
<1>1. hop[h] \in HopSet /\ hop \in [Hops -> HopSet] /\ h # 0 /\ upload.source \in 0..MaxChunks
  BY DEF Shapes, Hops
<1>2. s \in Seq(Nat) /\ a \in BOOLEAN /\ d \in BOOLEAN
      /\ hop[h].wire \in Seq(Nat) /\ hop[h].blocked \in BOOLEAN
  BY <1>1, HopParts, FetchAssumption DEF Up
<1>3. hop' = [hop EXCEPT ![h] = x]
  BY <1>1 DEF ReadSettles, AskWrite
<1> HIDE DEF s, d, a
<1>4. /\ x.handlers = hop[h].handlers /\ x.status = hop[h].status
      /\ x.pinned = hop[h].pinned /\ x.completed = hop[h].completed
      /\ x.torndown = hop[h].torndown /\ x.conn = hop[h].conn
      /\ x.killed = hop[h].killed /\ x.served = hop[h].served
      /\ x.location = hop[h].location /\ x.body = hop[h].body
      /\ x.sendBuf = s /\ x.bodyDone = d /\ x.writable = a
      /\ x.blocked = hop[h].blocked /\ x.wire = hop[h].wire
  BY <1>1 DEF HopSet
<1>5. DOMAIN x = DOMAIN hop[h] /\ x = [a0 \in DOMAIN hop[h] |-> x[a0]]
  OBVIOUS
<1> HIDE DEF x
<1>6. x \in HopSet
  <2>1. x.sendBuf \in Seq(Nat) /\ x.wire \in Seq(Nat) /\ x.bodyDone \in BOOLEAN
        /\ x.writable \in BOOLEAN /\ x.blocked \in BOOLEAN
    BY <1>2, <1>4, Zenon
  <2> QED
    BY <1>1, <1>4, <1>5, <2>1, HopParts, HopType
<1>7. hop' \in [Hops -> HopSet] /\ Others(h) /\ hop'[h] = x
  BY <1>1, <1>3, <1>6, HopUpdated
<1> QED
  BY <1>4, <1>7 DEF s, d, a, SameStage

----------------------------------------------------------------------------
(* What a step keeps that leaves these parts alone.                        *)

\* Steps that change no stage of a client.
Still == \A h \in Hops : SameStage(h) /\ (hop[h].conn = "none" => hop'[h] = hop[h])

\* Steps that open and end no client keep what is known about all of them.
LEMMA LifeKept ==
  ASSUME FetchSound, Still, mode' = mode, refs' = refs, client'.redirects = client.redirects,
         \/ client'.current = client.current
         \/ client'.current = 0 /\ \A h \in Hops : ~Waits(h)
         \/ client'.current \in Hops /\ \A h \in Hops : ~Used(h),
         fetch'.completes = fetch.completes, fetch'.stopped = fetch.stopped
  PROVE  /\ RefsExact' /\ Chained' /\ Awaited' /\ Named'
         /\ \A h \in Hops : Counted(h)' /\ Known(h)' /\ (Used(h)' <=> Used(h))
<1>1. \A h \in Hops : /\ hop'[h].handlers = hop[h].handlers
                      /\ hop'[h].pinned = hop[h].pinned /\ hop'[h].completed = hop[h].completed
                      /\ hop'[h].conn = hop[h].conn
  BY DEF Still, SameStage
<1>2. RefsExact'
  <2>1. {h \in Hops : Up(h)'} = {h \in Hops : Up(h)}
    BY <1>1 DEF Up
  <2> QED
    BY <2>1 DEF FetchSound, RefsExact
<1>3. Chained'
  BY <1>1 DEF FetchSound, Chained, Used
<1>4. \A h \in Hops : Used(h)' <=> Used(h)
  BY <1>1 DEF Used
<1>5. \A h \in Hops : Waits(h)' <=> Waits(h)
  BY <1>1 DEF Waits, Up
<1>6. Awaited'
  BY <1>4, <1>5 DEF FetchSound, Awaited
<1>7. Named'
  BY <1>4 DEF FetchSound, Named
<1>8. ASSUME NEW h \in Hops
      PROVE  Counted(h)' /\ Known(h)'
  <2>1. Waits(h) => Used(h)
    BY DEF FetchSound, Staged, Waits, Used
  <2> QED
    BY <1>1, <1>5, <1>8, <2>1 DEF FetchSound, Counted, Known
<1> QED
  BY <1>2, <1>3, <1>4, <1>6, <1>7, <1>8

\* The same of the stage of each client and of the event that is delivered.
LEMMA StagesKept ==
  ASSUME FetchSound, Still, event' = event, fetch'.status = fetch.status
  PROVE  EventOK' /\ \A h \in Hops : Staged(h)'
<1>1. EventOK'
  <2> SUFFICES ASSUME event # NoEvent
               PROVE  EventOK'
    BY DEF EventOK
  <2>1. event[1] \in Hops
    BY DEF FetchSound, Shapes
  <2> QED
    BY <2>1 DEF FetchSound, Still, SameStage, EventOK
<1>2. ASSUME NEW h \in Hops
      PROVE  Staged(h)'
  BY DEF FetchSound, Still, SameStage, Staged, Up
<1> QED
  BY <1>1, <1>2

Late(h) == hop[h].conn \in {"body", "idle", "closed"}

\* Steps that change nothing of the promise or of the body.
LEMMA BodyKept ==
  ASSUME FetchSound, delivered' = delivered,
         fetch'.timers = fetch.timers, fetch'.completes = fetch.completes,
         fetch'.resolved = fetch.resolved, fetch'.promise = fetch.promise,
         fetch'.signal = fetch.signal, fetch'.controller = fetch.controller,
         fetch'.stream = fetch.stream, fetch'.stopped = fetch.stopped,
         \A h \in Hops : Late(h) => Late(h)' /\ hop'[h].handlers = hop[h].handlers,
         \A h \in Hops : Used(h)' /\ hop'[h].handlers = "deliver" =>
           Used(h) /\ hop[h].handlers = "deliver" /\ hop'[h].served = hop[h].served
  PROVE  Settling' /\ Streamed' /\ \A h \in Hops : Served(h)'
<1>1. Settling'
  BY DEF FetchSound, Settling, Late
<1>2. Streamed'
  BY DEF FetchSound, Streamed, Late, Shapes
<1>3. \A h \in Hops : Served(h)'
  BY DEF FetchSound, Served
<1> QED
  BY <1>1, <1>2, <1>3

\* Steps that write nothing; a hop that is opened has its own body.
LEMMA UploadKept ==
  ASSUME FetchSound, upload' = upload, streaming' = streaming,
         \A h \in Hops :
           \/ /\ SameUpload(h)
              /\ Up(h)' /\ ~hop'[h].killed => Up(h) /\ ~hop[h].killed
           \/ \E body \in BOOLEAN :
                /\ body => ~streaming /\ MaxChunks > 0
                /\ hop'[h] = Connecting(body)
  PROVE  UploadMoves' /\ \A h \in Hops : Framed(h)' /\ Chunked(h)'
<1> SUFFICES ASSUME NEW h \in Hops
             PROVE  /\ Framed(h)' /\ Chunked(h)'
                    /\ LET x == hop[h] IN
                       (Up(h) /\ ~x.killed /\ End \notin {x.wire[i] : i \in DOMAIN x.wire} =>
                          /\ streaming => \/ x.writable
                                          \/ x.sendBuf = <<>> /\ ~x.bodyDone /\ upload.reads > 0
                          /\ x.body => x.writable \/ x.blocked)'
  BY DEF UploadMoves
<1>1. CASE SameUpload(h) /\ (Up(h)' /\ ~hop'[h].killed => Up(h) /\ ~hop[h].killed)
  <2>1. Framed(h)'
    BY <1>1 DEF FetchSound, SameUpload, Framed, Rising, Under, Behind, Sent
  <2>2. Chunked(h)'
    BY <1>1 DEF FetchSound, SameUpload, Chunked, Under, Given
  <2> QED
    BY <1>1, <2>1, <2>2 DEF FetchSound, SameUpload, UploadMoves
<1>2. ASSUME NEW body \in BOOLEAN, body => ~streaming /\ MaxChunks > 0, hop'[h] = Connecting(body)
      PROVE  /\ Framed(h)' /\ Chunked(h)'
             /\ hop'[h].writable = (body \/ streaming) /\ hop'[h].body = body
  <2>1. /\ hop'[h].wire = <<>> /\ hop'[h].bodyDone = body /\ hop'[h].body = body
        /\ hop'[h].writable = (body \/ streaming) /\ hop'[h].blocked = FALSE
        /\ hop'[h].sendBuf = (IF body THEN [i \in 1..MaxChunks |-> i] ELSE <<>>)
    <3>1. streaming \in BOOLEAN
      BY DEF FetchSound, Shapes
    <3> DEFINE o == Connecting(body)
    <3>2. /\ o.wire = <<>> /\ o.bodyDone = body /\ o.body = body
          /\ o.writable = (body \/ streaming) /\ o.blocked = FALSE
          /\ o.sendBuf = (IF body THEN [i \in 1..MaxChunks |-> i] ELSE <<>>)
      BY <3>1, OpenedShape
    <3>3. hop'[h] = o
      BY <1>2
    <3> HIDE DEF o
    <3> QED
      BY <3>2, <3>3
  <2>2. Framed(h)'
    BY <1>2, <2>1, AllChunks, FetchAssumption DEF Framed, Rising, Under, Behind, Sent
  <2>3. Chunked(h)'
    BY <1>2, <2>1 DEF FetchSound, Chunked, Under
  <2> QED
    BY <2>1, <2>2, <2>3
<1> QED
  BY <1>1, <1>2

----------------------------------------------------------------------------
(* The steps of the request body.                                          *)

\* An element of a concatenation is one of its parts.
LEMMA ConcatParts ==
  ASSUME NEW s \in Seq(Nat), NEW t \in Seq(Nat), NEW i \in DOMAIN (s \o t)
  PROVE  \/ i \in DOMAIN s /\ (s \o t)[i] = s[i]
         \/ i - Len(s) \in DOMAIN t /\ i \notin DOMAIN s /\ (s \o t)[i] = t[i - Len(s)]
OBVIOUS

\* What follows a rising sequence and is behind it makes another one.
LEMMA RisingConcat ==
  ASSUME NEW s \in Seq(Nat), NEW t \in Seq(Nat), Rising(s), Rising(t), Behind(s, t)
  PROVE  /\ s \o t \in Seq(Nat) /\ Rising(s \o t)
         /\ \A n \in Nat : Under(s, n) /\ Under(t, n) => Under(s \o t, n)
<1>1. s \o t \in Seq(Nat)
  OBVIOUS
<1>2. ASSUME NEW i \in DOMAIN (s \o t), NEW j \in DOMAIN (s \o t), i < j
      PROVE  (s \o t)[i] < (s \o t)[j]
  <2>1. i \in Nat /\ j \in Nat /\ Len(s) \in Nat /\ DOMAIN s = 1..Len(s) /\ DOMAIN t = 1..Len(t)
        /\ Len(t) \in Nat
    OBVIOUS
  <2>2. CASE i \in DOMAIN s /\ j \in DOMAIN s
    BY <1>2, <2>2, ConcatParts DEF Rising
  <2>3. CASE i \in DOMAIN s /\ j \notin DOMAIN s
    BY <2>3, ConcatParts DEF Behind
  <2>4. CASE i \notin DOMAIN s
    <3>1. j \notin DOMAIN s
      BY <1>2, <2>1, <2>4
    <3> DEFINE a == i - Len(s)
               b == j - Len(s)
    <3>2. a \in DOMAIN t /\ (s \o t)[i] = t[a]
      BY <2>4, ConcatParts
    <3>3. b \in DOMAIN t /\ (s \o t)[j] = t[b]
      BY <3>1, ConcatParts
    <3>4. a < b
      BY <1>2, <2>1
    <3> HIDE DEF a, b
    <3> QED
      BY <3>2, <3>3, <3>4 DEF Rising
  <2> QED
    BY <2>2, <2>3, <2>4
<1>3. ASSUME NEW n \in Nat, Under(s, n), Under(t, n)
      PROVE  Under(s \o t, n)
  BY <1>3, ConcatParts DEF Under
<1> QED
  BY <1>1, <1>2, <1>3 DEF Rising

\* What such a sequence has is in one of the two.
LEMMA ConcatHas ==
  ASSUME NEW s \in Seq(Nat), NEW t \in Seq(Nat)
  PROVE  {(s \o t)[i] : i \in DOMAIN (s \o t)} =
           {s[i] : i \in DOMAIN s} \cup {t[i] : i \in DOMAIN t}
<1>1. ASSUME NEW i \in DOMAIN (s \o t)
      PROVE  (s \o t)[i] \in {s[j] : j \in DOMAIN s} \cup {t[j] : j \in DOMAIN t}
  BY ConcatParts
<1>2. ASSUME NEW i \in DOMAIN s
      PROVE  i \in DOMAIN (s \o t) /\ (s \o t)[i] = s[i]
  OBVIOUS
<1>3. ASSUME NEW i \in DOMAIN t
      PROVE  Len(s) + i \in DOMAIN (s \o t) /\ (s \o t)[Len(s) + i] = t[i]
  OBVIOUS
<1>4. {(s \o t)[i] : i \in DOMAIN (s \o t)} \subseteq
        {s[i] : i \in DOMAIN s} \cup {t[i] : i \in DOMAIN t}
  BY <1>1
<1>5. {s[i] : i \in DOMAIN s} \subseteq {(s \o t)[i] : i \in DOMAIN (s \o t)}
  BY <1>2
<1>6. {t[i] : i \in DOMAIN t} \subseteq {(s \o t)[i] : i \in DOMAIN (s \o t)}
  BY <1>3
<1> QED
  BY <1>4, <1>5, <1>6

\* A step that only touches the request body.
LEMMA UploadStep ==
  ASSUME FetchSound, Still, UNCHANGED <<mode, streaming, fetch, client, refs, event, delivered>>,
         hop' \in [Hops -> HopSet], upload' \in [source : 0..MaxChunks, reads : Nat],
         upload'.reads = 0 \/ \E h \in Hops : Used(h),
         UploadMoves', \A h \in Hops : Framed(h)' /\ Chunked(h)'
  PROVE  FetchSound'
<1>1. Shapes'
  BY DEF FetchSound, Shapes
<1>2. /\ RefsExact' /\ Chained' /\ Awaited' /\ Named'
      /\ \A h \in Hops : Counted(h)' /\ Known(h)' /\ (Used(h)' <=> Used(h))
  BY LifeKept
<1>3. EventOK' /\ \A h \in Hops : Staged(h)'
  BY StagesKept
<1>4. Settling' /\ Streamed' /\ \A h \in Hops : Served(h)'
  BY BodyKept DEF Still, SameStage, Late, Used
<1>5. Unsent'
  BY <1>2 DEF FetchSound, Unsent
<1> QED
  BY <1>1, <1>2, <1>3, <1>4, <1>5 DEF FetchSound

\* A step on the upload of hop h, which keeps the other hops.
LEMMA OneStill ==
  ASSUME FetchSound, NEW h \in Hops, Used(h), Others(h), SameStage(h)
  PROVE  Still
BY DEF Others, Still, SameStage, Used

\* What the upload of another hop needs: its read is still to come.
LEMMA OtherUploads ==
  ASSUME FetchSound, streaming' = streaming, NEW g \in Hops, SameUpload(g),
         upload'.source \in 0..upload.source, upload.source \in 0..MaxChunks,
         upload'.reads > 0 => streaming
  PROVE  Framed(g)' /\ Chunked(g)'
<1>1. Framed(g)'
  BY DEF FetchSound, SameUpload, Framed, Rising, Under, Behind, Sent
<1>2. /\ upload'.source \in Nat /\ upload.source \in Nat /\ MaxChunks \in Nat
      /\ upload.source = 0 => upload'.source = 0
      /\ MaxChunks - upload.source <= MaxChunks - upload'.source
  BY FetchAssumption
<1>3. /\ hop[g].wire \in Seq(Nat) /\ hop[g].sendBuf \in Seq(Nat)
  BY HopParts DEF FetchSound, Shapes
<1>4. \A i \in DOMAIN hop[g].wire : hop[g].wire[i] \in Nat
  BY <1>3
<1>5. \A i \in DOMAIN hop[g].sendBuf : hop[g].sendBuf[i] \in Nat
  BY <1>3
<1>6. Chunked(g)
  BY DEF FetchSound
<1> QED
  BY <1>1, <1>2, <1>4, <1>5, <1>6 DEF SameUpload, Chunked, Under, Given

\* The client that has to write is that of the last hop.
LEMMA OneWrites ==
  ASSUME FetchSound, NEW h \in Hops, Up(h), ~hop[h].killed
  PROVE  Waits(h) /\ client.current = h
BY DEF FetchSound, Staged, Known, Waits

\* CLIENT_HTTP_WRITEABLE of a stream.
LEMMA WriteStreamSound ==
  ASSUME FetchSound, NEW h \in Hops, WriteStream(h)
  PROVE  FetchSound'
<1>1. /\ hop' \in [Hops -> HopSet] /\ Others(h) /\ SameStage(h)
      /\ hop'[h].body = hop[h].body /\ hop'[h].sendBuf = <<>>
      /\ hop'[h].bodyDone = hop[h].bodyDone /\ hop'[h].writable = AskAgain(h)
      /\ hop'[h].blocked = hop[h].blocked
      /\ hop'[h].wire = (IF hop[h].sendBuf # <<>> THEN hop[h].wire \o hop[h].sendBuf
                         ELSE IF hop[h].bodyDone THEN Append(hop[h].wire, End)
                         ELSE hop[h].wire)
  BY WriteStreamHops DEF FetchSound
<1>2. Used(h) /\ streaming /\ hop[h].writable
  BY DEF WriteStream, Used
<1>3. Still
  BY <1>1, <1>2, OneStill
<1>4. /\ UNCHANGED <<mode, streaming, fetch, client, refs, event, delivered>>
      /\ upload \in [source : 0..MaxChunks, reads : Nat]
      /\ upload' \in [source : 0..MaxChunks, reads : Nat] /\ upload'.source = upload.source
      /\ upload'.reads = (IF hop[h].bodyDone THEN upload.reads ELSE upload.reads + 1)
  BY DEF WriteStream, Callback, Drained, FetchSound, Shapes
<1>5. /\ hop[h].wire \in Seq(Nat) /\ hop[h].sendBuf \in Seq(Nat) /\ hop[h].bodyDone \in BOOLEAN
      /\ MaxChunks \in Nat /\ End = MaxChunks + 1 /\ upload.source \in 0..MaxChunks
      /\ upload.reads \in Nat
  BY <1>4, HopParts, FetchAssumption DEF FetchSound, Shapes, End
<1>6. /\ Framed(h) /\ Chunked(h) /\ ~Sent(hop[h]) /\ ~hop[h].body /\ ~hop[h].blocked
  BY <1>2 DEF FetchSound, Framed
<1>7. \A i \in DOMAIN hop[h].wire : hop[h].wire[i] \in Nat /\ hop[h].wire[i] <= MaxChunks
  <2> TAKE i \in DOMAIN hop[h].wire
  <2>1. hop[h].wire[i] \in Nat /\ hop[h].wire[i] <= End /\ hop[h].wire[i] # End
    BY <1>5, <1>6 DEF Framed, Under, Sent
  <2> QED
    BY <1>5, <2>1
<1>8. /\ Rising(hop'[h].wire) /\ Under(hop'[h].wire, End)
      /\ Sent(hop'[h]) <=> hop[h].bodyDone /\ hop[h].sendBuf = <<>>
      /\ \A i \in DOMAIN hop'[h].wire : hop'[h].wire[i] # End => hop'[h].wire[i] <= Given
  <2>1. CASE hop[h].sendBuf # <<>>
    <3> DEFINE s == hop[h].wire
               t == hop[h].sendBuf
    <3>1. hop'[h].wire = s \o t /\ Rising(s) /\ Rising(t) /\ Behind(s, t)
          /\ Under(s, MaxChunks) /\ Under(t, MaxChunks) /\ s \in Seq(Nat) /\ t \in Seq(Nat)
      BY <1>1, <1>5, <1>6, <1>7, <2>1 DEF Framed, Under
    <3>2. Under(s, Given) /\ Under(t, Given)
      BY <1>2, <1>5, <1>6, <1>7 DEF Chunked, Under
    <3> HIDE DEF s, t
    <3>3. Given \in Nat
      BY <1>5 DEF Given
    <3>4. /\ Rising(s \o t) /\ Under(s \o t, MaxChunks) /\ Under(s \o t, Given)
          /\ s \o t \in Seq(Nat)
      BY <1>5, <3>1, <3>2, <3>3, RisingConcat
    <3>5. \A i \in DOMAIN (s \o t) : (s \o t)[i] \in Nat
      BY <3>4
    <3>6. \A i \in DOMAIN (s \o t) :
            (s \o t)[i] <= MaxChunks /\ (s \o t)[i] <= Given /\ (s \o t)[i] # End
            /\ (s \o t)[i] <= End
      <4> TAKE i \in DOMAIN (s \o t)
      <4>1. (s \o t)[i] <= MaxChunks /\ (s \o t)[i] <= Given /\ (s \o t)[i] \in Nat
        BY <3>4, <3>5 DEF Under
      <4> QED
        BY <1>5, <4>1
    <3> QED
      BY <2>1, <3>1, <3>4, <3>6 DEF Under, Sent
  <2>2. CASE hop[h].sendBuf = <<>> /\ hop[h].bodyDone
    <3> DEFINE s == hop[h].wire
    <3>1. hop'[h].wire = Append(s, End)
      BY <1>1, <2>2
    <3>2. /\ s \in Seq(Nat) /\ Rising(s) /\ \A i \in DOMAIN s : s[i] \in Nat /\ s[i] <= MaxChunks
          /\ \A i \in DOMAIN s : s[i] <= Given
      <4>1. \A i \in DOMAIN s : s[i] # End
        BY <1>5, <1>7
      <4> QED
        BY <1>2, <1>5, <1>6, <1>7, <4>1 DEF Framed, Chunked
    <3> HIDE DEF s
    <3>3. /\ DOMAIN Append(s, End) = DOMAIN s \cup {Len(s) + 1} /\ DOMAIN s = 1..Len(s)
          /\ Len(s) \in Nat
          /\ Append(s, End)[Len(s) + 1] = End /\ \A i \in DOMAIN s : Append(s, End)[i] = s[i]
      BY <1>5, <3>2
    <3>4. Rising(Append(s, End))
      BY <1>5, <3>2, <3>3 DEF Rising
    <3>5. Under(Append(s, End), End)
      BY <1>5, <3>2, <3>3 DEF Under
    <3>6. End \in {Append(s, End)[i] : i \in DOMAIN Append(s, End)}
      BY <3>3
    <3>7. \A i \in DOMAIN Append(s, End) : Append(s, End)[i] # End => Append(s, End)[i] <= Given
      BY <3>2, <3>3
    <3> QED
      BY <2>2, <3>1, <3>4, <3>5, <3>6, <3>7 DEF Sent
  <2>3. CASE hop[h].sendBuf = <<>> /\ ~hop[h].bodyDone
    <3>1. hop'[h].wire = hop[h].wire
      BY <1>1, <2>3
    <3> QED
      BY <1>2, <1>6, <2>3, <3>1 DEF Framed, Chunked, Sent
  <2> QED
    BY <1>5, <2>1, <2>2, <2>3
<1>9. Framed(h)' /\ Chunked(h)'
  <2>1. /\ Rising(hop'[h].sendBuf) /\ Behind(hop'[h].wire, hop'[h].sendBuf)
        /\ \A n \in Int : Under(hop'[h].sendBuf, n)
    BY <1>1 DEF Rising, Behind, Under
  <2>2. Sent(hop'[h]) => ~hop'[h].writable
    BY <1>1, <1>8 DEF AskAgain
  <2>3. MaxChunks \in Int /\ Given' = Given /\ Given \in Int
    BY <1>4, <1>5 DEF Given
  <2>4. Framed(h)'
    BY <1>1, <1>6, <1>8, <2>1, <2>2, <2>3 DEF Framed, Sent
  <2>5. Chunked(h)'
    BY <1>1, <1>2, <1>4, <1>6, <1>8, <2>1, <2>3 DEF Chunked
  <2> QED
    BY <2>4, <2>5
<1>10. \A g \in Hops : Framed(g)' /\ Chunked(g)'
  <2> TAKE g \in Hops
  <2>1. CASE g # h
    <3>1. SameUpload(g)
      BY <1>1, <2>1 DEF Others, SameUpload
    <3> QED
      BY <1>2, <1>4, <1>5, <3>1, OtherUploads
  <2> QED
    BY <1>9, <2>1
<1>11. UploadMoves'
  <2> SUFFICES ASSUME NEW g \in Hops, Up(g)', ~hop'[g].killed, ~Sent(hop'[g])
               PROVE  /\ streaming => \/ hop'[g].writable
                                      \/ hop'[g].sendBuf = <<>> /\ ~hop'[g].bodyDone /\ upload'.reads > 0
                      /\ hop'[g].body => hop'[g].writable \/ hop'[g].blocked
    BY <1>4 DEF UploadMoves, Sent
  <2>1. CASE g = h
    BY <1>1, <1>4, <1>5, <1>6, <1>8, <2>1 DEF AskAgain
  <2>2. CASE g # h
    <3>1. hop'[g] = hop[g] /\ upload'.reads >= upload.reads
      BY <1>1, <1>4, <1>5, <2>2 DEF Others
    <3> QED
      BY <1>4, <1>5, <3>1 DEF FetchSound, UploadMoves, Up, Sent
  <2> QED
    BY <2>1, <2>2
<1> QED
  BY <1>1, <1>2, <1>3, <1>4, <1>10, <1>11, UploadStep

\* CLIENT_HTTP_WRITEABLE of a whole body.
LEMMA WriteBodySound ==
  ASSUME FetchSound, NEW h \in Hops, WriteBody(h)
  PROVE  FetchSound'
<1>1. /\ hop' \in [Hops -> HopSet] /\ Others(h) /\ SameStage(h)
      /\ hop'[h].body = hop[h].body /\ hop'[h].bodyDone = hop[h].bodyDone
      /\ \E n \in 0..Len(hop[h].sendBuf) :
           /\ hop'[h].sendBuf = SubSeq(hop[h].sendBuf, n + 1, Len(hop[h].sendBuf))
           /\ hop'[h].writable = (n > 0 /\ n < Len(hop[h].sendBuf))
           /\ hop'[h].blocked = (n = 0 /\ hop[h].sendBuf # <<>>)
           /\ hop'[h].wire = hop[h].wire \o SubSeq(hop[h].sendBuf, 1, n)
                               \o (IF n > 0 /\ n = Len(hop[h].sendBuf) THEN <<End>> ELSE <<>>)
  BY WriteBodyHops DEF FetchSound
<1>2. Used(h) /\ hop[h].body /\ hop[h].writable /\ ~streaming
  BY DEF WriteBody, Used, FetchSound, Framed
<1>3. Still
  BY <1>1, <1>2, OneStill
<1>4. /\ UNCHANGED <<mode, streaming, fetch, client, refs, event, delivered, upload>>
      /\ upload \in [source : 0..MaxChunks, reads : Nat]
      /\ upload.source \in 0..MaxChunks /\ upload.reads = 0 /\ upload.source \in 0..upload.source
  BY <1>2 DEF WriteBody, Callback, FetchSound, Shapes, Chunked
<1> DEFINE left == hop[h].sendBuf
           wire == hop[h].wire
<1>5. /\ wire \in Seq(Nat) /\ left \in Seq(Nat)
      /\ MaxChunks \in Nat /\ End = MaxChunks + 1 /\ Len(left) \in Nat
  BY HopParts, FetchAssumption DEF FetchSound, Shapes, End
<1>6. /\ Framed(h) /\ ~Sent(hop[h]) /\ left # <<>> /\ hop[h].bodyDone
  BY <1>2 DEF FetchSound, Framed
<1>7. PICK n \in 0..Len(left) :
           /\ hop'[h].sendBuf = SubSeq(left, n + 1, Len(left))
           /\ hop'[h].writable = (n > 0 /\ n < Len(left))
           /\ hop'[h].blocked = (n = 0 /\ left # <<>>)
           /\ hop'[h].wire = wire \o SubSeq(left, 1, n)
                               \o (IF n > 0 /\ n = Len(left) THEN <<End>> ELSE <<>>)
  BY <1>1
<1> DEFINE a == SubSeq(left, 1, n)
           b == SubSeq(left, n + 1, Len(left))
           e == IF n > 0 /\ n = Len(left) THEN <<End>> ELSE <<>>
<1>8. /\ Rising(wire) /\ Rising(left) /\ Behind(wire, left) /\ Under(wire, MaxChunks)
      /\ Under(left, MaxChunks)
  <2>1. \A i \in DOMAIN wire : wire[i] \in Nat /\ wire[i] <= End /\ wire[i] # End
    BY <1>5, <1>6 DEF Framed, Under, Sent
  <2> QED
    BY <1>5, <1>6, <2>1 DEF Framed, Under
<1>9. /\ a \in Seq(Nat) /\ b \in Seq(Nat) /\ e \in Seq(Nat)
      /\ Len(a) = n /\ Len(b) = Len(left) - n
      /\ \A i \in DOMAIN a : i \in DOMAIN left /\ i <= n /\ a[i] = left[i]
      /\ \A i \in DOMAIN b : n + i \in DOMAIN left /\ i > 0 /\ i \in Int /\ b[i] = left[n + i]
      /\ n \in Nat
  <2>1. a \in Seq(Nat) /\ Len(a) = n
        /\ \A i \in DOMAIN a : i \in DOMAIN left /\ i <= n /\ a[i] = left[i]
    BY <1>5
  <2>2. b \in Seq(Nat) /\ Len(b) = Len(left) - n
        /\ \A i \in DOMAIN b : n + i \in DOMAIN left /\ i > 0 /\ i \in Int /\ b[i] = left[n + i]
    <3>1. \A i \in n + 1..Len(left) : left[i] \in Nat
      BY <1>5
    <3>2. n \in Nat /\ n <= Len(left) /\ DOMAIN left = 1..Len(left)
      BY <1>5
    <3>3. b \in Seq(Nat)
      BY <1>5, <3>1, <3>2, SubSeqProperties
    <3>7. Len(b) = (IF n + 1 <= Len(left) THEN Len(left) - (n + 1) + 1 ELSE 0)
      BY <1>5, <3>1, <3>2, SubSeqProperties
    <3>8. \A i \in 1..Len(left) - (n + 1) + 1 : b[i] = left[n + 1 + i - 1]
      BY <1>5, <3>1, <3>2, SubSeqProperties
    <3> DEFINE k == Len(left)
    <3>9. k \in Nat /\ n \in Nat /\ n <= k /\ DOMAIN left = 1..k
      BY <1>5, <3>2
    <3>10. DOMAIN b = 1..Len(b) /\ Len(b) \in Nat
      BY <3>3
    <3>11. Len(b) = (IF n + 1 <= k THEN k - (n + 1) + 1 ELSE 0)
      BY <3>7
    <3>12. \A i \in 1..k - (n + 1) + 1 : b[i] = left[n + 1 + i - 1]
      BY <3>8
    <3> HIDE DEF b, left, wire, k
    <3>4. Len(b) = k - n
      BY <3>9, <3>11
    <3>6. ASSUME NEW i \in DOMAIN b
          PROVE  n + i \in DOMAIN left /\ i > 0 /\ i \in Int /\ b[i] = left[n + i]
      <4>1. i \in 1..k - (n + 1) + 1 /\ i \in Nat /\ i > 0 /\ i <= k - n
        BY <3>4, <3>9, <3>10
      <4>2. n + 1 + i - 1 = n + i /\ n + i \in 1..k
        BY <3>9, <4>1
      <4> QED
        BY <3>9, <3>12, <4>1, <4>2
    <3> QED
      BY <3>3, <3>4, <3>6 DEF k
  <2>3. e \in Seq(Nat)
    BY <1>5
  <2> QED
    BY <2>1, <2>2, <2>3
<1>10. /\ hop'[h].sendBuf = b /\ hop'[h].wire = wire \o a \o e
  BY <1>7
<1>11. e = <<>> \/ (e = <<End>> /\ n = Len(left) /\ n > 0)
  OBVIOUS
<1> HIDE DEF left, wire, a, b, e
<1>12. b = <<>> => n = Len(left)
  BY <1>5, <1>9
<1>13. Rising(a) /\ Rising(b) /\ Behind(a, b) /\ Behind(wire, a) /\ Behind(wire, b)
       /\ Under(a, MaxChunks) /\ Under(b, MaxChunks)
  <2>1. Rising(a)
    BY <1>8, <1>9 DEF Rising
  <2>2. Rising(b)
    <3> SUFFICES ASSUME NEW i \in DOMAIN b, NEW j \in DOMAIN b, i < j
                 PROVE  b[i] < b[j]
      BY DEF Rising
    <3>1. n + i < n + j
      BY <1>9
    <3> QED
      BY <1>8, <1>9, <3>1 DEF Rising
  <2>3. Behind(a, b)
    <3> SUFFICES ASSUME NEW i \in DOMAIN a, NEW j \in DOMAIN b
                 PROVE  a[i] < b[j]
      BY DEF Behind
    <3>1. i < n + j
      BY <1>5, <1>9
    <3> QED
      BY <1>8, <1>9, <3>1 DEF Rising
  <2>4. Behind(wire, a) /\ Behind(wire, b)
    BY <1>8, <1>9 DEF Behind
  <2>5. Under(a, MaxChunks) /\ Under(b, MaxChunks)
    BY <1>8, <1>9 DEF Under
  <2> QED
    BY <2>1, <2>2, <2>3, <2>4, <2>5
<1> DEFINE w == wire \o a
<1>14. /\ w \in Seq(Nat) /\ Rising(w) /\ Under(w, MaxChunks)
  BY <1>5, <1>8, <1>9, <1>13, RisingConcat
<1>15. Behind(w, b)
  <2> SUFFICES ASSUME NEW i \in DOMAIN w, NEW j \in DOMAIN b
               PROVE  w[i] < b[j]
    BY DEF Behind
  <2>1. \/ i \in DOMAIN wire /\ w[i] = wire[i]
        \/ i - Len(wire) \in DOMAIN a /\ w[i] = a[i - Len(wire)]
    BY <1>5, <1>9, ConcatParts
  <2> HIDE DEF w
  <2> QED
    BY <1>13, <2>1 DEF Behind
<1>16. hop'[h].wire = w \o e
  BY <1>10
<1> HIDE DEF w
<1>17. \A i \in DOMAIN w : w[i] \in Nat /\ w[i] <= MaxChunks /\ w[i] # End /\ w[i] <= End
  <2>1. \A i \in DOMAIN w : w[i] \in Nat
    BY <1>14
  <2> QED
    BY <1>5, <1>14, <2>1 DEF Under
<1>18. /\ Rising(hop'[h].wire) /\ Under(hop'[h].wire, End) /\ Behind(hop'[h].wire, b)
       /\ Sent(hop'[h]) <=> e # <<>>
  <2>1. CASE e = <<>>
    <3>1. hop'[h].wire = w
      BY <1>14, <1>16, <2>1
    <3> QED
      BY <1>14, <1>15, <1>17, <2>1, <3>1 DEF Under, Sent
  <2>2. CASE e = <<End>> /\ n = Len(left)
    <3>1. w \o e = Append(w, End)
      BY <1>5, <1>14, <2>2
    <3>2. /\ DOMAIN Append(w, End) = DOMAIN w \cup {Len(w) + 1} /\ DOMAIN w = 1..Len(w)
          /\ Len(w) \in Nat
          /\ Append(w, End)[Len(w) + 1] = End /\ \A i \in DOMAIN w : Append(w, End)[i] = w[i]
      BY <1>5, <1>14
    <3>3. Rising(Append(w, End))
      BY <1>5, <1>14, <1>17, <3>2 DEF Rising
    <3>4. Under(Append(w, End), End)
      BY <1>5, <1>17, <3>2 DEF Under
    <3>5. End \in {Append(w, End)[i] : i \in DOMAIN Append(w, End)}
      BY <3>2
    <3>6. DOMAIN b = {}
      BY <1>9, <2>2
    <3>7. Behind(Append(w, End), b)
      BY <3>6 DEF Behind
    <3>8. e # <<>>
      BY <2>2
    <3> QED
      BY <1>16, <3>1, <3>3, <3>4, <3>5, <3>7, <3>8 DEF Sent
  <2> QED
    BY <1>11, <2>1, <2>2
<1>19. e # <<>> => b = <<>> /\ ~hop'[h].writable /\ ~hop'[h].blocked
  <2> SUFFICES ASSUME n = Len(left), n > 0
               PROVE  b = <<>> /\ ~hop'[h].writable /\ ~hop'[h].blocked
    BY <1>11
  <2>1. b = <<>>
    BY <1>9
  <2>2. ~(n > 0 /\ n < Len(left)) /\ ~(n = 0 /\ left # <<>>)
    BY <1>5
  <2> QED
    BY <1>7, <2>1, <2>2 DEF left
<1>20. b = <<>> => e # <<>>
  <2> SUFFICES ASSUME b = <<>>
               PROVE  e # <<>>
    OBVIOUS
  <2>1. n = Len(left) /\ Len(left) > 0
    BY <1>5, <1>6, <1>12
  <2> QED
    BY <2>1 DEF e
<1>21. n = 0 => hop'[h].blocked
  BY <1>6, <1>7 DEF left
<1>22. n > 0 /\ e = <<>> => hop'[h].writable
  <2> SUFFICES ASSUME n > 0, e = <<>>
               PROVE  hop'[h].writable
    OBVIOUS
  <2>1. n # Len(left)
    <3> SUFFICES ASSUME n = Len(left)
                 PROVE  FALSE
      OBVIOUS
    <3>1. e = <<End>>
      BY DEF e
    <3> QED
      BY <3>1
  <2>2. n > 0 /\ n < Len(left)
    BY <1>5, <2>1
  <2> QED
    BY <1>7, <2>2 DEF left
<1>23. Framed(h)' /\ Chunked(h)'
  <2>1. Framed(h)'
    BY <1>1, <1>2, <1>4, <1>6, <1>10, <1>13, <1>18, <1>19, <1>20 DEF Framed, Sent
  <2>2. Chunked(h)'
    BY <1>2, <1>4 DEF Chunked
  <2> QED
    BY <2>1, <2>2
<1>24. \A g \in Hops : Framed(g)' /\ Chunked(g)'
  <2> TAKE g \in Hops
  <2>1. CASE g # h
    <3>1. SameUpload(g)
      BY <1>1, <2>1 DEF Others, SameUpload
    <3> QED
      BY <1>2, <1>4, <1>5, <3>1, OtherUploads
  <2> QED
    BY <1>23, <2>1
<1>25. UploadMoves'
  <2> SUFFICES ASSUME NEW g \in Hops, Up(g)', ~hop'[g].killed, ~Sent(hop'[g])
               PROVE  hop'[g].body => hop'[g].writable \/ hop'[g].blocked
    BY <1>2, <1>4 DEF UploadMoves, Sent
  <2>1. CASE g = h
    BY <1>5, <1>9, <1>18, <1>21, <1>22, <2>1
  <2>2. CASE g # h
    <3>1. hop'[g] = hop[g]
      BY <1>1, <2>2 DEF Others
    <3> QED
      BY <1>2, <3>1 DEF FetchSound, UploadMoves, Up, Sent
  <2> QED
    BY <2>1, <2>2
<1> QED
  BY <1>1, <1>2, <1>3, <1>4, <1>24, <1>25, UploadStep

\* The window of the peer.
LEMMA WindowUpdateSound ==
  ASSUME FetchSound, NEW h \in Hops, WindowUpdate(h)
  PROVE  FetchSound'
<1>1. /\ hop' \in [Hops -> HopSet] /\ Others(h) /\ SameStage(h)
      /\ hop'[h].body = hop[h].body /\ hop'[h].sendBuf = hop[h].sendBuf
      /\ hop'[h].bodyDone = hop[h].bodyDone /\ hop'[h].writable = TRUE
      /\ hop'[h].blocked = FALSE /\ hop'[h].wire = hop[h].wire
  BY WindowUpdateHops DEF FetchSound
<1>2. Used(h) /\ hop[h].body /\ ~streaming /\ ~Sent(hop[h])
  BY DEF WindowUpdate, FetchSound, Framed, Staged, Used, NewHop
<1>3. Still
  BY <1>1, <1>2, OneStill
<1>4. /\ UNCHANGED <<mode, streaming, fetch, client, refs, event, delivered, upload>>
      /\ upload \in [source : 0..MaxChunks, reads : Nat]
      /\ upload.source \in 0..MaxChunks /\ upload.reads = 0 /\ upload.source \in 0..upload.source
  BY <1>2 DEF WindowUpdate, Callback, FetchSound, Shapes, Chunked
<1>5. Framed(h)' /\ Chunked(h)'
  <2>1. Framed(h)'
    BY <1>1, <1>2, <1>4 DEF FetchSound, Framed, Sent
  <2>2. Chunked(h)'
    BY <1>2, <1>4 DEF Chunked
  <2> QED
    BY <2>1, <2>2
<1>6. \A g \in Hops : Framed(g)' /\ Chunked(g)'
  <2> TAKE g \in Hops
  <2>1. CASE g # h
    <3>1. SameUpload(g)
      BY <1>1, <2>1 DEF Others, SameUpload
    <3> QED
      BY <1>2, <1>4, <3>1, OtherUploads
  <2> QED
    BY <1>5, <2>1
<1>7. UploadMoves'
  <2> SUFFICES ASSUME NEW g \in Hops, Up(g)', ~hop'[g].killed, ~Sent(hop'[g])
               PROVE  hop'[g].body => hop'[g].writable \/ hop'[g].blocked
    BY <1>2, <1>4 DEF UploadMoves, Sent
  <2>1. CASE g = h
    BY <1>1, <2>1
  <2>2. CASE g # h
    <3>1. hop'[g] = hop[g]
      BY <1>1, <2>2 DEF Others
    <3> QED
      BY <1>2, <3>1 DEF FetchSound, UploadMoves, Up, Sent
  <2> QED
    BY <2>1, <2>2
<1> QED
  BY <1>1, <1>2, <1>3, <1>4, <1>6, <1>7, UploadStep

\* A chunk, or the end, of the body stream.
LEMMA ReadSettlesSound ==
  ASSUME FetchSound, fetch.stopped = "no", ReadSettles
  PROVE  FetchSound'
<1>1. /\ UNCHANGED <<mode, streaming, fetch, client, refs, event, delivered>>
      /\ upload.reads > 0 /\ upload.source \in 0..MaxChunks /\ upload.reads \in Nat
      /\ upload'.source = (IF upload.source > 0 THEN upload.source - 1 ELSE 0)
      /\ upload'.reads = upload.reads - 1
      /\ upload' \in [source : 0..MaxChunks, reads : Nat]
      /\ upload'.source \in 0..upload.source
  <2>1. upload.source \in 0..MaxChunks /\ upload.reads \in Nat /\ upload.reads > 0
    BY DEF ReadSettles, FetchSound, Shapes
  <2>2. upload' = [source |-> IF upload.source > 0 THEN upload.source - 1 ELSE 0,
                   reads |-> upload.reads - 1]
    BY DEF ReadSettles
  <2>3. (IF upload.source > 0 THEN upload.source - 1 ELSE 0) \in 0..upload.source
        /\ (IF upload.source > 0 THEN upload.source - 1 ELSE 0) \in 0..MaxChunks
        /\ upload.reads - 1 \in Nat
    BY <2>1, FetchAssumption
  <2> QED
    BY <2>1, <2>2, <2>3 DEF ReadSettles
<1>2. \E g \in Hops : Used(g)
  BY <1>1 DEF FetchSound, Unsent
<1>3. streaming
  <2>1. PICK g \in Hops : Used(g)
    BY <1>2
  <2> QED
    BY <1>1 DEF FetchSound, Chunked
<1>4. CASE client.current = 0
  <2>1. hop' = hop
    BY <1>4 DEF ReadSettles
  <2>2. Still
    BY <2>1 DEF Still, SameStage
  <2>3. \A g \in Hops : Framed(g)' /\ Chunked(g)'
    BY <1>1, <1>3, <2>1, OtherUploads DEF SameUpload
  <2>4. \A g \in Hops : ~(Up(g) /\ ~hop[g].killed)
    BY <1>4, OneWrites DEF Hops
  <2>5. UploadMoves'
    BY <2>1, <2>4 DEF UploadMoves, Up
  <2>6. hop' \in [Hops -> HopSet]
    BY <2>1 DEF FetchSound, Shapes
  <2> QED
    BY <1>1, <1>2, <2>2, <2>3, <2>5, <2>6, UploadStep
<1>5. CASE client.current # 0
  <2>0. /\ streaming' = streaming /\ upload.reads > 0 /\ upload.reads \in Nat
        /\ upload.source \in Nat /\ upload.source <= MaxChunks /\ upload'.source \in Nat
        /\ upload.source > 0 => upload'.source = upload.source - 1
        /\ upload.source = 0 => upload'.source = 0
    BY <1>1, FetchAssumption
  <2> PICK h \in Hops : h = client.current
    BY <1>2, <1>5 DEF FetchSound, Named
  <2>1. Used(h)
    BY <1>2, <1>5 DEF FetchSound, Named
  <2>2. /\ hop' \in [Hops -> HopSet] /\ Others(h) /\ SameStage(h)
        /\ hop'[h].body = hop[h].body
        /\ hop'[h].sendBuf = (IF upload.source = 0 THEN hop[h].sendBuf
                              ELSE Append(hop[h].sendBuf, MaxChunks - upload.source + 1))
        /\ hop'[h].bodyDone = (hop[h].bodyDone \/ upload.source = 0)
        /\ hop'[h].writable = (hop[h].writable \/ (Up(h) /\ (upload.source > 0 \/ ~hop[h].bodyDone)))
        /\ hop'[h].blocked = hop[h].blocked /\ hop'[h].wire = hop[h].wire
    BY <2>1, ReadSettlesHops DEF FetchSound
  <2>3. Still
    BY <2>1, <2>2, OneStill
  <2>4. /\ hop[h].wire \in Seq(Nat) /\ hop[h].sendBuf \in Seq(Nat)
        /\ MaxChunks \in Nat /\ End = MaxChunks + 1
    BY <2>1, HopParts, FetchAssumption DEF FetchSound, Shapes, End
  <2>5. Framed(h) /\ Chunked(h) /\ ~hop[h].body /\ ~hop[h].blocked
    BY <1>3, <2>1 DEF FetchSound, Framed
  <2>6. /\ \A i \in DOMAIN hop[h].wire : hop[h].wire[i] \in Nat
        /\ \A i \in DOMAIN hop[h].sendBuf : hop[h].sendBuf[i] \in Nat
    <3>1. \A i \in DOMAIN hop[h].wire : hop[h].wire[i] \in Nat
      BY <2>4
    <3>2. \A i \in DOMAIN hop[h].sendBuf : hop[h].sendBuf[i] \in Nat
      BY <2>4
    <3> QED
      BY <3>1, <3>2
  <2>12. /\ hop'[h].writable <=> (hop[h].writable \/ (Up(h) /\ (upload.source > 0 \/ ~hop[h].bodyDone)))
         /\ hop'[h].bodyDone <=> (hop[h].bodyDone \/ upload.source = 0)
    BY <2>2, Zenon
  <2>13. upload.source = 0 => hop'[h].sendBuf = hop[h].sendBuf
    BY <2>2
  <2>14. upload.source # 0 => hop'[h].sendBuf = Append(hop[h].sendBuf, MaxChunks - upload.source + 1)
    BY <2>2
  <2>7. /\ Rising(hop'[h].sendBuf) /\ Behind(hop[h].wire, hop'[h].sendBuf)
        /\ Under(hop'[h].sendBuf, MaxChunks) /\ Under(hop'[h].sendBuf, MaxChunks - upload'.source)
    <3>1. CASE upload.source = 0
      BY <2>0, <1>3, <2>2, <2>5, <3>1 DEF Framed, Chunked, Given
    <3>2. CASE upload.source # 0
      <4> DEFINE s == hop[h].sendBuf
                 x == MaxChunks - upload.source + 1
      <4>1. /\ s \in Seq(Nat) /\ x \in Nat /\ x <= MaxChunks /\ x = MaxChunks - upload'.source
            /\ hop'[h].sendBuf = Append(s, x) /\ Given < x /\ Given \in Nat
        <5>1. MaxChunks \in Nat /\ upload.source \in Nat /\ upload.source <= MaxChunks
              /\ upload.source > 0 /\ upload'.source = upload.source - 1
          BY <2>0, <2>4, <3>2
        <5>2. /\ x \in Nat /\ x <= MaxChunks /\ x = MaxChunks - upload'.source
              /\ Given < x /\ Given \in Nat
          BY <5>1 DEF Given
        <5> QED
          BY <2>4, <2>14, <3>2, <5>2
      <4>2. \A i \in DOMAIN s : s[i] \in Nat /\ s[i] < x /\ s[i] <= MaxChunks
        <5> TAKE i \in DOMAIN s
        <5>1. s[i] \in Nat /\ s[i] <= Given
          BY <1>3, <2>5, <2>6 DEF Chunked, Under
        <5> QED
          BY <2>4, <4>1, <5>1
      <4>3. \A i \in DOMAIN hop[h].wire : hop[h].wire[i] \in Nat /\ hop[h].wire[i] < x
        <5> TAKE i \in DOMAIN hop[h].wire
        <5>1. hop[h].wire[i] # End
          BY <2>0, <1>3, <2>5, <3>2 DEF Framed, Chunked, Sent
        <5>2. hop[h].wire[i] \in Nat /\ hop[h].wire[i] <= Given
          BY <1>3, <2>5, <2>6, <5>1 DEF Chunked
        <5> QED
          BY <4>1, <5>2
      <4>4. /\ Rising(s) /\ Behind(hop[h].wire, s)
        BY <2>5 DEF Framed
      <4> HIDE DEF s, x
      <4>5. /\ DOMAIN Append(s, x) = DOMAIN s \cup {Len(s) + 1} /\ DOMAIN s = 1..Len(s)
            /\ Len(s) \in Nat
            /\ Append(s, x)[Len(s) + 1] = x /\ \A i \in DOMAIN s : Append(s, x)[i] = s[i]
        BY <4>1
      <4>6. Rising(Append(s, x))
        BY <4>1, <4>2, <4>4, <4>5 DEF Rising
      <4>7. Behind(hop[h].wire, Append(s, x))
        BY <4>1, <4>3, <4>4, <4>5 DEF Behind
      <4>8. Under(Append(s, x), MaxChunks) /\ Under(Append(s, x), x)
        BY <2>4, <4>1, <4>2, <4>5 DEF Under
      <4> QED
        BY <4>1, <4>6, <4>7, <4>8
    <3> QED
      BY <3>1, <3>2
  <2>8. Sent(hop[h]) => upload.source = 0 /\ hop[h].bodyDone
    BY <1>3, <2>5 DEF Framed, Chunked
  <2>9. Framed(h)' /\ Chunked(h)'
    <3>1. Framed(h)'
      <4>1. /\ Rising(hop'[h].wire) /\ Under(hop'[h].wire, End)
            /\ Behind(hop'[h].wire, hop'[h].sendBuf) /\ (Sent(hop'[h]) <=> Sent(hop[h]))
            /\ ~hop'[h].body /\ ~hop'[h].blocked
        BY <2>2, <2>5, <2>7 DEF Framed, Sent
      <4>2. Sent(hop[h]) => hop'[h].sendBuf = <<>> /\ hop'[h].bodyDone /\ ~hop'[h].writable
        BY <2>0, <2>5, <2>8, <2>12, <2>13 DEF Framed
      <4> QED
        BY <2>7, <4>1, <4>2 DEF Framed, Sent
    <3>2. \A i \in DOMAIN hop[h].wire : hop[h].wire[i] # End => hop[h].wire[i] <= Given'
      <4> TAKE i \in DOMAIN hop[h].wire
      <4> HAVE hop[h].wire[i] # End
      <4>1. hop[h].wire[i] \in Nat /\ hop[h].wire[i] <= Given
        BY <1>3, <2>5, <2>6 DEF Chunked
      <4>2. Given \in Nat /\ Given' \in Nat /\ Given <= Given'
        BY <2>0, <2>4 DEF Given
      <4> QED
        BY <4>1, <4>2
    <3>3. Under(hop'[h].sendBuf, Given')
      BY <2>7 DEF Given
    <3>4. hop'[h].bodyDone => upload'.source = 0
      BY <2>0, <1>3, <2>2, <2>5 DEF Chunked
    <3> QED
      BY <2>0, <1>3, <2>2, <3>1, <3>2, <3>3, <3>4 DEF Chunked
  <2>10. \A g \in Hops : Framed(g)' /\ Chunked(g)'
    <3> TAKE g \in Hops
    <3>1. CASE g # h
      <4>1. hop'[g] = hop[g]
        BY <2>2, <3>1 DEF Others
      <4>2. streaming' = streaming /\ upload.source \in 0..MaxChunks
            /\ upload'.source \in 0..upload.source
        BY <1>1
      <4> QED
        BY <1>3, <4>1, <4>2, OtherUploads DEF SameUpload
    <3> QED
      BY <2>9, <3>1
  <2>11. UploadMoves'
    <3> SUFFICES ASSUME NEW g \in Hops, Up(g)', ~hop'[g].killed, ~Sent(hop'[g])
                 PROVE  /\ \/ hop'[g].writable
                           \/ hop'[g].sendBuf = <<>> /\ ~hop'[g].bodyDone /\ upload'.reads > 0
                        /\ hop'[g].body => hop'[g].writable \/ hop'[g].blocked
      BY DEF UploadMoves, Sent
    <3>1. Up(g) /\ ~hop[g].killed
      BY <2>3 DEF Still, SameStage, Up
    <3>2. g = h
      BY <3>1, OneWrites
    <3>3. ~Sent(hop[h])
      BY <2>2, <3>2 DEF Sent
    <3>4. upload.source = 0 /\ hop[h].bodyDone => hop[h].writable
      BY <1>3, <2>1, <3>1, <3>2, <3>3 DEF FetchSound, UploadMoves, Sent
    <3>5. hop'[h].writable
      BY <2>0, <2>12, <3>1, <3>2, <3>4
    <3> QED
      BY <3>2, <3>5
  <2> QED
    BY <1>1, <1>2, <2>2, <2>3, <2>10, <2>11, UploadStep
<1> QED
  BY <1>4, <1>5

----------------------------------------------------------------------------
(* The steps of the promise.                                               *)

\* The read of the body that fails is the last one that has a chunk.
LastRead ==
  upload' \in [source : 0..upload.source, reads : Nat] /\ (upload'.reads > 0 => streaming)

\* Once no client waits, nothing is left to write.
LEMMA UploadStops ==
  ASSUME FetchSound, streaming' = streaming, LastRead,
         \A h \in Hops : SameUpload(h) /\ ~(Up(h)' /\ ~hop'[h].killed)
  PROVE  UploadMoves' /\ \A h \in Hops : Framed(h)' /\ Chunked(h)'
<1>1. upload.source \in 0..MaxChunks /\ upload'.source \in 0..upload.source
  BY DEF FetchSound, Shapes, LastRead
<1>2. UploadMoves'
  BY DEF UploadMoves
<1> QED
  BY <1>1, <1>2, OtherUploads DEF LastRead

\* A step that only touches the promise and what the client counts.
LEMMA PromiseStep ==
  ASSUME FetchSound, UNCHANGED <<mode, streaming, hop, refs, event, delivered>>,
         upload' = upload \/ (LastRead /\ \A h \in Hops : ~Waits(h)),
         client' \in [redirects : Nat, current : 0..(MaxRedirects + 1)],
         client'.redirects = client.redirects,
         \/ client'.current = client.current
         \/ client'.current = 0 /\ \A h \in Hops : ~Waits(h)
         \/ client'.current \in Hops /\ \A h \in Hops : ~Used(h),
         fetch' \in FetchSet, fetch'.completes = fetch.completes,
         fetch'.stopped = fetch.stopped, fetch'.status = fetch.status,
         Settling', Streamed', Unsent'
  PROVE  FetchSound'
<1>1. Shapes'
  <2>1. upload' \in [source : 0..MaxChunks, reads : Nat]
    BY FetchAssumption DEF FetchSound, Shapes, LastRead
  <2> QED
    BY <2>1 DEF FetchSound, Shapes
<1>2. Still
  BY DEF Still, SameStage
<1>3. /\ RefsExact' /\ Chained' /\ Awaited' /\ Named'
      /\ \A h \in Hops : Counted(h)' /\ Known(h)'
  BY <1>2, LifeKept
<1>4. EventOK' /\ \A h \in Hops : Staged(h)'
  BY <1>2, StagesKept
<1>5. \A h \in Hops : Served(h)'
  BY DEF FetchSound, Served, Used
<1>6. UploadMoves' /\ \A h \in Hops : Framed(h)' /\ Chunked(h)'
  <2>1. CASE upload' = upload
    BY <2>1, UploadKept DEF SameUpload, Up
  <2>2. CASE LastRead /\ \A h \in Hops : ~Waits(h)
    <3>1. \A h \in Hops : SameUpload(h) /\ ~(Up(h)' /\ ~hop'[h].killed)
      BY <2>2, OneWrites DEF SameUpload, Up
    <3> QED
      BY <2>2, <3>1, UploadStops
  <2> QED
    BY <2>1, <2>2
<1> QED
  BY <1>1, <1>3, <1>4, <1>5, <1>6 DEF FetchSound

\* fetch().
LEMMA CallSound ==
  ASSUME FetchSound, Call
  PROVE  FetchSound'
<1>1. /\ UNCHANGED <<mode, streaming, hop, refs, event, upload, delivered, client>>
      /\ client' \in [redirects : Nat, current : 0..(MaxRedirects + 1)]
  BY DEF Call, Script, FetchSound, Shapes
<1>2. fetch \in FetchSet /\ fetch.phase = "idle"
  BY DEF Call, FetchSound, Shapes
<1>3. /\ \A h \in Hops : ~Used(h)
      /\ fetch.promise = "pending" /\ upload.reads = 0 /\ fetch.completes = 0 /\ ~fetch.resolved
  BY <1>2 DEF FetchSound, Unsent
<1>4. /\ fetch' \in FetchSet /\ fetch'.completes = fetch.completes
      /\ fetch'.stopped = fetch.stopped /\ fetch'.status = fetch.status
      /\ fetch'.timers = fetch.timers /\ fetch'.signal = fetch.signal
      /\ fetch'.stream = fetch.stream /\ fetch'.resolved = fetch.resolved
      /\ fetch'.controller = fetch.controller
      /\ \/ fetch.signal = "none" /\ fetch'.phase = "queued" /\ fetch'.promise = fetch.promise
         \/ fetch'.phase = "sent" /\ fetch'.promise = "rejected"
  BY <1>2 DEF Call, FetchSet
<1>5. Settling'
  BY <1>1, <1>3, <1>4 DEF FetchSound, Settling
<1>6. Streamed'
  BY <1>1, <1>4 DEF FetchSound, Streamed
<1>7. Unsent'
  BY <1>1, <1>3, <1>4 DEF Unsent, Used
<1> QED
  BY <1>1, <1>4, <1>5, <1>6, <1>7, PromiseStep

\* The zero timer that settles the promise.
LEMMA TimerFiresSound ==
  ASSUME FetchSound, TimerFires
  PROVE  FetchSound'
<1>1. /\ UNCHANGED <<mode, streaming, hop, refs, event, upload, delivered, client>>
      /\ client' \in [redirects : Nat, current : 0..(MaxRedirects + 1)]
  BY DEF TimerFires, Script, FetchSound, Shapes
<1>2. fetch \in FetchSet /\ fetch.timers # <<>> /\ fetch.timers \in Seq({"resolved", "rejected"})
      /\ fetch.completes \in 0..1
  BY FetchParts DEF TimerFires, FetchSound, Shapes
<1> DEFINE p == IF fetch.promise = "pending" THEN Head(fetch.timers) ELSE fetch.promise
           t == Tail(fetch.timers)
<1>3. /\ Head(fetch.timers) \in {"resolved", "rejected"} /\ t \in Seq({"resolved", "rejected"})
      /\ Len(t) = Len(fetch.timers) - 1 /\ Len(fetch.timers) \in Nat
      /\ DOMAIN t = 1..Len(t) /\ \A i \in DOMAIN t : t[i] = fetch.timers[i + 1]
      /\ Head(fetch.timers) = fetch.timers[1] /\ 1 \in DOMAIN fetch.timers
      /\ DOMAIN fetch.timers = 1..Len(fetch.timers) /\ Len(fetch.timers) > 0
  BY <1>2
<1>4. fetch' = [fetch EXCEPT !.timers = t, !.promise = p]
  BY <1>2 DEF TimerFires, FetchSet
<1>5. p \in {"pending", "resolved", "rejected"}
  BY <1>2, <1>3, FetchParts
<1> HIDE DEF p, t
<1>6. fetch' \in FetchSet
  BY <1>2, <1>3, <1>4, <1>5 DEF FetchSet
<1>7. /\ fetch'.completes = fetch.completes
      /\ fetch'.stopped = fetch.stopped /\ fetch'.status = fetch.status
      /\ fetch'.timers = t /\ fetch'.promise = p /\ fetch'.phase = fetch.phase
      /\ fetch'.signal = fetch.signal
      /\ fetch'.stream = fetch.stream /\ fetch'.resolved = fetch.resolved
      /\ fetch'.controller = fetch.controller
  BY <1>2, <1>4 DEF FetchSet
<1>8. {t[i] : i \in DOMAIN t} \subseteq {fetch.timers[i] : i \in DOMAIN fetch.timers}
  BY <1>3
<1>9. Settling'
  <2>1. Settling
    BY DEF FetchSound
  <2>2. Len(t) <= fetch.completes + (IF fetch.resolved THEN 1 ELSE 0)
    BY <1>2, <1>3, <2>1 DEF Settling
  <2>3. "resolved" \in {t[i] : i \in DOMAIN t} \/ p = "resolved" => fetch.resolved
    <3>1. p = "resolved" => fetch.promise = "resolved"
                            \/ "resolved" \in {fetch.timers[i] : i \in DOMAIN fetch.timers}
      BY <1>3 DEF p
    <3> QED
      BY <1>8, <2>1, <3>1 DEF Settling
  <2>4. fetch.signal = "intime" => p = "rejected"
    BY <2>1 DEF Settling, p
  <2> QED
    BY <1>1, <1>7, <2>1, <2>2, <2>3, <2>4 DEF Settling
<1>10. Streamed'
  BY <1>1, <1>7 DEF FetchSound, Streamed
<1>11. Unsent'
  <2>1. Unsent /\ Settling
    BY DEF FetchSound
  <2>2. \E h \in Hops : Used(h)
    <3> SUFFICES ASSUME \A h \in Hops : ~Used(h)
                 PROVE  FALSE
      OBVIOUS
    <3>1. fetch.completes = 0 /\ ~fetch.resolved
      BY <2>1 DEF Unsent
    <3> QED
      BY <1>3, <2>1, <3>1 DEF Settling
  <2>3. fetch.phase = "sent"
    BY <2>1, <2>2 DEF Unsent
  <2> QED
    BY <1>1, <1>7, <2>2, <2>3 DEF Unsent, Used
<1> QED
  BY <1>1, <1>6, <1>7, <1>9, <1>10, <1>11, PromiseStep

----------------------------------------------------------------------------
(* The callbacks of a response.                                            *)

\* No hop comes after one that has its connection, and those before are redirects.
LEMMA LastHop ==
  ASSUME FetchSound, NEW h \in Hops, hop[h].conn \in {"connecting", "body"},
         NEW g \in Hops, g # h, Used(g)
  PROVE  hop[g].conn \in {"idle", "closed"} /\ hop[g].handlers = "follow"
<1>1. g \in Nat /\ h \in Nat
  BY FetchAssumption DEF Hops
<1>2. CASE g < h
  BY <1>2 DEF FetchSound, Chained, Used
<1>3. CASE h < g
  BY <1>3 DEF FetchSound, Chained, Used
<1> QED
  BY <1>1, <1>2, <1>3

\* Until its response begins nothing was resolved and nothing delivered.
LEMMA NothingYet ==
  ASSUME FetchSound, NEW h \in Hops, hop[h].conn = "connecting"
  PROVE  ~fetch.resolved /\ delivered = <<>>
<1>1. \A g \in Hops : hop[g].handlers = "deliver" => ~Late(g)
  <2> TAKE g \in Hops
  <2>1. CASE g = h
    BY <2>1 DEF Late
  <2>2. CASE g # h
    BY <2>2, LastHop DEF Late, Used
  <2> QED
    BY <2>1, <2>2
<1>2. ~fetch.resolved
  BY <1>1 DEF FetchSound, Settling, Late
<1>3. delivered = <<>>
  <2>1. delivered \in Seq(Hops)
    BY DEF FetchSound, Shapes
  <2>2. \A i \in DOMAIN delivered : delivered[i] \in Hops
    BY <2>1
  <2>3. DOMAIN delivered = {}
    BY <1>1, <2>2 DEF FetchSound, Streamed, Late
  <2> QED
    BY <2>1, <2>3
<1> QED
  BY <1>2, <1>3

\* ESTABLISHED_CLIENT_HTTP.
LEMMA EstablishedSound ==
  ASSUME FetchSound, NEW h \in Hops, Established(h)
  PROVE  FetchSound'
<1>1. /\ UNCHANGED <<mode, streaming, fetch, client, hop, refs, upload, delivered>>
      /\ event = NoEvent /\ event' = <<h, "status">> /\ hop[h].conn = "connecting"
  BY DEF Established, Callback
<1>2. Still
  BY <1>1 DEF Still, SameStage
<1>3. Shapes'
  BY <1>1 DEF FetchSound, Shapes
<1>4. /\ RefsExact' /\ Chained' /\ Awaited' /\ Named'
      /\ \A g \in Hops : Counted(g)' /\ Known(g)'
  BY <1>1, <1>2, LifeKept
<1>5. EventOK'
  BY <1>1 DEF EventOK
<1>6. \A g \in Hops : Staged(g)'
  <2> TAKE g \in Hops
  <2>1. Staged(g)
    BY DEF FetchSound
  <2>2. hop[g].conn = "connecting" => hop[g].status \in {"none", "info"}
    BY <1>1, <2>1 DEF Staged, NoEvent
  <2> QED
    BY <1>1, <2>1, <2>2 DEF Staged, Up
<1>7. Settling' /\ Streamed' /\ \A g \in Hops : Served(g)'
  BY <1>1, BodyKept DEF Late, Used
<1>8. UploadMoves' /\ \A g \in Hops : Framed(g)' /\ Chunked(g)'
  BY <1>1, UploadKept DEF SameUpload, Up
<1>9. Unsent'
  BY <1>1 DEF FetchSound, Unsent, Used
<1> QED
  BY <1>3, <1>4, <1>5, <1>6, <1>7, <1>8, <1>9 DEF FetchSound

\* onheader.
LEMMA OnHeaderSound ==
  ASSUME FetchSound, NEW h \in Hops, OnHeader(h)
  PROVE  FetchSound'
<1>1. /\ UNCHANGED <<mode, streaming, fetch, client, refs, upload, delivered>>
      /\ event = <<h, "header">> /\ event' = <<h, "end">>
  BY DEF OnHeader
<1>2. hop' \in [Hops -> HopSet] /\ Others(h) /\ SameUpload(h) /\ SameStage(h)
  BY OnHeaderHops DEF FetchSound
<1>3. /\ hop[h].conn = "connecting"
      /\ hop[h].handlers = "deliver" => hop[h].status = fetch.status
  BY <1>1 DEF FetchSound, EventOK, NoEvent
<1>4. Still
  BY <1>2, <1>3, OneStill DEF Used
<1>5. Shapes'
  BY <1>1, <1>2 DEF FetchSound, Shapes
<1>6. /\ RefsExact' /\ Chained' /\ Awaited' /\ Named'
      /\ \A g \in Hops : Counted(g)' /\ Known(g)' /\ (Used(g)' <=> Used(g))
  BY <1>1, <1>4, LifeKept
<1>7. EventOK'
  BY <1>1, <1>2, <1>3 DEF EventOK, SameStage
<1>8. \A g \in Hops : Staged(g)'
  <2> TAKE g \in Hops
  <2>1. Staged(g)
    BY DEF FetchSound
  <2>2. event' \notin {<<g, "header">>, <<g, "end">>} => event \notin {<<g, "header">>, <<g, "end">>}
    BY <1>1
  <2> QED
    BY <1>4, <2>1, <2>2 DEF Staged, Up, Still, SameStage
<1>9. Settling' /\ Streamed' /\ \A g \in Hops : Served(g)'
  BY <1>1, <1>4, BodyKept DEF Still, SameStage, Late, Used
<1>10. UploadMoves' /\ \A g \in Hops : Framed(g)' /\ Chunked(g)'
  <2>1. \A g \in Hops : SameUpload(g) /\ (Up(g)' /\ ~hop'[g].killed => Up(g) /\ ~hop[g].killed)
    BY <1>2 DEF Others, SameUpload, SameStage, Up
  <2> QED
    BY <1>1, <2>1, UploadKept
<1>11. Unsent'
  BY <1>1, <1>6 DEF FetchSound, Unsent
<1> QED
  BY <1>5, <1>6, <1>7, <1>8, <1>9, <1>10, <1>11 DEF FetchSound

\* onstatus.
LEMMA OnStatusSound ==
  ASSUME FetchSound, NEW h \in Hops, OnStatus(h)
  PROVE  FetchSound'
<1> DEFINE status == hop'[h].status
           redirected == hop'[h].status = "redirect" /\ mode # "manual"
           count == client.redirects + 1
<1>1. /\ UNCHANGED <<mode, streaming, refs, upload, delivered>>
      /\ event = <<h, "status">> /\ event' = <<h, "header">>
  BY DEF OnStatus
<1>2. /\ hop' \in [Hops -> HopSet] /\ Others(h) /\ SameUpload(h)
      /\ hop'[h].pinned = hop[h].pinned /\ hop'[h].completed = hop[h].completed
      /\ hop'[h].torndown = hop[h].torndown /\ hop'[h].conn = hop[h].conn
      /\ hop'[h].killed = hop[h].killed /\ hop'[h].served = hop[h].served
      /\ hop'[h].status \in {"info", "ok", "redirect"}
      /\ hop'[h].handlers = (IF ~redirected THEN hop[h].handlers
                             ELSE IF mode = "error" \/ TooMany(count) THEN "fail" ELSE "follow")
      /\ client' = [client EXCEPT !.redirects = IF redirected /\ mode = "follow"
                                                THEN count ELSE @]
      /\ fetch' = IF redirected THEN fetch ELSE [fetch EXCEPT !.status = hop'[h].status]
  BY OnStatusHops DEF FetchSound
<1>3. /\ mode \in {"follow", "error", "manual"} /\ fetch \in FetchSet
      /\ client \in [redirects : Nat, current : 0..(MaxRedirects + 1)]
      /\ h \in Nat /\ MaxRedirects \in Nat
  BY FetchAssumption DEF FetchSound, Shapes, Hops
<1>4. /\ hop[h].conn = "connecting" /\ hop[h].status \in {"none", "info"}
      /\ hop[h].handlers = "deliver"
  <2>1. hop[h].conn = "connecting"
    BY <1>1 DEF FetchSound, EventOK, NoEvent
  <2> QED
    BY <1>1, <2>1 DEF FetchSound, Staged
<1>5. /\ fetch' \in FetchSet
      /\ fetch'.timers = fetch.timers /\ fetch'.completes = fetch.completes
      /\ fetch'.resolved = fetch.resolved /\ fetch'.promise = fetch.promise
      /\ fetch'.signal = fetch.signal /\ fetch'.controller = fetch.controller
      /\ fetch'.stream = fetch.stream /\ fetch'.stopped = fetch.stopped
      /\ fetch'.phase = fetch.phase
      /\ ~redirected => fetch'.status = hop'[h].status
  <2>1. CASE redirected
    BY <1>2, <1>3, <2>1
  <2>2. CASE ~redirected
    BY <1>2, <1>3, <2>2 DEF FetchSet
  <2> QED
    BY <2>1, <2>2
<1>6. /\ client' \in [redirects : Nat, current : 0..(MaxRedirects + 1)]
      /\ client'.current = client.current
      /\ client'.redirects \in Nat /\ client'.redirects >= client.redirects
      /\ redirected /\ mode = "follow" => client'.redirects = client.redirects + 1
  BY <1>2, <1>3
<1>7. Shapes'
  BY <1>1, <1>2, <1>5, <1>6 DEF FetchSound, Shapes
<1>8. \A g \in Hops : /\ Used(g)' <=> Used(g)
                      /\ Up(g)' <=> Up(g)
                      /\ Waits(g)' <=> Waits(g)
  BY <1>2 DEF Others, Used, Up, Waits
<1>9. RefsExact'
  <2>1. {g \in Hops : Up(g)'} = {g \in Hops : Up(g)}
    BY <1>8
  <2> QED
    BY <1>1, <2>1 DEF FetchSound, RefsExact
<1>10. EventOK'
  BY <1>1, <1>2, <1>4, <1>5 DEF EventOK
<1>11. Chained'
  <2> SUFFICES ASSUME NEW g \in Hops, NEW k \in Hops, g < k, Used(k)'
               PROVE  hop'[g].conn \in {"idle", "closed"} /\ hop'[g].handlers = "follow"
    BY DEF Chained
  <2>1. hop[g].conn \in {"idle", "closed"} /\ hop[g].handlers = "follow"
    BY <1>8 DEF FetchSound, Chained
  <2>2. g # h
    BY <1>4, <2>1
  <2> QED
    BY <1>2, <2>1, <2>2 DEF Others
<1>12. Awaited' /\ Named'
  BY <1>5, <1>6, <1>8 DEF FetchSound, Awaited, Named
<1>13. \A g \in Hops : Known(g)'
  BY <1>5, <1>6, <1>8 DEF FetchSound, Known
<1>14. Unsent'
  BY <1>1, <1>5, <1>8 DEF FetchSound, Unsent
<1>15. \A g \in Hops : Staged(g)'
  <2> TAKE g \in Hops
  <2>1. Staged(g)
    BY DEF FetchSound
  <2>2. CASE g = h
    BY <1>1, <1>2, <1>4, <2>1, <2>2 DEF Staged, Up
  <2>3. CASE g # h
    <3>1. hop'[g] = hop[g]
      BY <1>2, <2>3 DEF Others
    <3>2. event \notin {<<g, "header">>, <<g, "end">>}
      BY <1>1
    <3> QED
      BY <2>1, <3>1, <3>2 DEF Staged, Up
  <2> QED
    BY <2>2, <2>3
<1>16. \A g \in Hops : Counted(g)'
  <2> TAKE g \in Hops
  <2>1. CASE g = h
    <3> SUFFICES ASSUME hop'[h].handlers = "follow"
                 PROVE  mode = "follow" /\ h <= client'.redirects /\ h <= MaxRedirects
      BY <1>1, <2>1 DEF Counted
    <3>1. redirected /\ mode = "follow" /\ ~TooMany(count)
      BY <1>2, <1>3, <1>4
    <3>2. client'.redirects = client.redirects + 1 /\ client.redirects + 1 <= MaxRedirects
      BY <1>3, <1>6, <3>1 DEF TooMany
    <3>3. h - 1 <= client.redirects
      <4>1. CASE h = 1
        BY <1>3, <4>1
      <4>2. CASE h # 1
        <5>1. h - 1 \in Hops /\ h - 1 < h
          BY <1>3, <4>2 DEF Hops
        <5>2. hop[h - 1].handlers = "follow"
          BY <1>4, <5>1 DEF FetchSound, Chained, Used
        <5> QED
          BY <5>1, <5>2 DEF FetchSound, Counted
      <4> QED
        BY <4>1, <4>2
    <3> QED
      BY <1>3, <3>1, <3>2, <3>3
  <2>2. CASE g # h
    <3>1. Counted(g) /\ hop'[g] = hop[g] /\ g \in Nat
      BY <1>2, <2>2 DEF FetchSound, Others, Hops
    <3> QED
      BY <1>1, <1>3, <1>6, <3>1 DEF Counted
  <2> QED
    BY <2>1, <2>2
<1>17. Settling' /\ Streamed' /\ \A g \in Hops : Served(g)'
  <2>1. \A g \in Hops : Late(g) => Late(g)' /\ hop'[g].handlers = hop[g].handlers
    BY <1>2, <1>4 DEF Others, Late
  <2>2. \A g \in Hops : Used(g)' /\ hop'[g].handlers = "deliver" =>
          Used(g) /\ hop[g].handlers = "deliver" /\ hop'[g].served = hop[g].served
    BY <1>2, <1>4 DEF Others, Used
  <2> QED
    BY <1>1, <1>5, <2>1, <2>2, BodyKept
<1>18. UploadMoves' /\ \A g \in Hops : Framed(g)' /\ Chunked(g)'
  <2>1. \A g \in Hops : SameUpload(g) /\ (Up(g)' /\ ~hop'[g].killed => Up(g) /\ ~hop[g].killed)
    BY <1>2 DEF Others, SameUpload, Up
  <2> QED
    BY <1>1, <2>1, UploadKept
<1> QED
  BY <1>7, <1>9, <1>10, <1>11, <1>12, <1>13, <1>14, <1>15, <1>16, <1>17, <1>18 DEF FetchSound

\* onheadersend.
LEMMA OnHeadersEndSound ==
  ASSUME FetchSound, NEW h \in Hops, OnHeadersEnd(h)
  PROVE  FetchSound'
<1>1. /\ UNCHANGED <<mode, streaming, client, refs, upload, delivered>>
      /\ event = <<h, "end">> /\ event' = NoEvent
      /\ fetch' = IF hop[h].handlers # "deliver" \/ fetch.status = "info" THEN fetch
                  ELSE [fetch EXCEPT !.resolved = TRUE, !.timers = Append(@, "resolved")]
  BY DEF OnHeadersEnd
<1>2. /\ hop' \in [Hops -> HopSet] /\ Others(h) /\ SameUpload(h)
      /\ hop'[h].pinned = hop[h].pinned /\ hop'[h].completed = hop[h].completed
      /\ hop'[h].torndown = hop[h].torndown
      /\ hop'[h].killed = hop[h].killed /\ hop'[h].served = hop[h].served
      /\ hop'[h].status = hop[h].status /\ hop'[h].handlers = hop[h].handlers
      /\ hop'[h].conn = (IF hop[h].status = "info" THEN "connecting" ELSE "body")
  BY OnHeadersEndHops DEF FetchSound
<1>3. /\ hop[h].conn = "connecting"
      /\ hop[h].handlers = "deliver" => hop[h].status = fetch.status
  BY <1>1 DEF FetchSound, EventOK, NoEvent
<1>4. /\ fetch \in FetchSet /\ fetch.timers \in Seq({"resolved", "rejected"})
      /\ fetch.completes \in 0..1
  BY FetchParts DEF FetchSound, Shapes
<1>5. ~fetch.resolved /\ delivered = <<>>
  BY <1>3, NothingYet
<1>6. /\ fetch' \in FetchSet
      /\ fetch'.completes = fetch.completes /\ fetch'.promise = fetch.promise
      /\ fetch'.signal = fetch.signal /\ fetch'.controller = fetch.controller
      /\ fetch'.stream = fetch.stream /\ fetch'.stopped = fetch.stopped
      /\ fetch'.phase = fetch.phase
  <2> DEFINE t == Append(fetch.timers, "resolved")
  <2>1. t \in Seq({"resolved", "rejected"})
    BY <1>4
  <2>2. CASE fetch' = fetch
    BY <1>4, <2>2
  <2>3. CASE fetch' = [fetch EXCEPT !.resolved = TRUE, !.timers = t]
    <3> HIDE DEF t
    <3> QED
      BY <1>4, <2>1, <2>3 DEF FetchSet
  <2> QED
    BY <1>1, <1>4, <2>2, <2>3
<1>7. Shapes'
  BY <1>1, <1>2, <1>6 DEF FetchSound, Shapes
<1>8. \A g \in Hops : /\ Used(g)' <=> Used(g)
                      /\ Up(g)' <=> Up(g)
                      /\ Waits(g)' <=> Waits(g)
  BY <1>2, <1>3 DEF Others, Used, Up, Waits
<1>9. RefsExact'
  <2>1. {g \in Hops : Up(g)'} = {g \in Hops : Up(g)}
    BY <1>8
  <2> QED
    BY <1>1, <2>1 DEF FetchSound, RefsExact
<1>10. EventOK'
  BY <1>1 DEF EventOK
<1>11. Chained'
  <2> SUFFICES ASSUME NEW g \in Hops, NEW k \in Hops, g < k, Used(k)'
               PROVE  hop'[g].conn \in {"idle", "closed"} /\ hop'[g].handlers = "follow"
    BY DEF Chained
  <2>1. hop[g].conn \in {"idle", "closed"} /\ hop[g].handlers = "follow"
    BY <1>8 DEF FetchSound, Chained
  <2>2. g # h
    BY <1>3, <2>1
  <2> QED
    BY <1>2, <2>1, <2>2 DEF Others
<1>12. Awaited' /\ Named'
  BY <1>1, <1>6, <1>8 DEF FetchSound, Awaited, Named
<1>13. \A g \in Hops : Known(g)' /\ Counted(g)'
  <2> TAKE g \in Hops
  <2>1. hop'[g].handlers = hop[g].handlers
    BY <1>2 DEF Others
  <2> QED
    BY <1>1, <1>6, <1>8, <2>1 DEF FetchSound, Known, Counted
<1>14. Unsent'
  <2>1. Used(h)
    BY <1>3 DEF Used
  <2> QED
    BY <1>1, <1>6, <1>8, <2>1 DEF FetchSound, Unsent
<1>15. \A g \in Hops : Staged(g)'
  <2> TAKE g \in Hops
  <2>1. Staged(g)
    BY DEF FetchSound
  <2>2. CASE g = h
    BY <1>1, <1>2, <1>3, <2>1, <2>2 DEF Staged, Up
  <2>3. CASE g # h
    <3>1. hop'[g] = hop[g]
      BY <1>2, <2>3 DEF Others
    <3>2. event \notin {<<g, "header">>, <<g, "end">>}
      BY <1>1, <2>3
    <3> QED
      BY <2>1, <3>1, <3>2 DEF Staged, Up
  <2> QED
    BY <2>2, <2>3
<1>16. Settling'
  <2> DEFINE late(g) == hop[g].handlers = "deliver" /\ Late(g)
  <2>1. CASE fetch' = fetch
    <3>1. Settling /\ ~fetch'.resolved
      BY <1>5, <2>1 DEF FetchSound
    <3> QED
      BY <2>1, <3>1 DEF Settling
  <2>2. CASE fetch' # fetch
    <3>1. /\ hop[h].handlers = "deliver" /\ fetch.status # "info"
          /\ fetch' = [fetch EXCEPT !.resolved = TRUE, !.timers = Append(@, "resolved")]
      BY <1>1, <2>2
    <3> DEFINE s == fetch.timers
               t == Append(s, "resolved")
    <3>2. fetch'.resolved = TRUE /\ fetch'.timers = t
      BY <1>4, <3>1 DEF FetchSet
    <3>3. Settling
      BY DEF FetchSound
    <3>4. hop'[h].handlers = "deliver" /\ hop'[h].conn = "body"
      BY <1>2, <1>3, <3>1
    <3>5. Len(s) <= fetch.completes /\ Len(t) = Len(s) + 1 /\ Len(s) \in Nat
      BY <1>4, <1>5, <3>3 DEF Settling
    <3>6. s # <<>> => t # <<>> /\ Head(t) = Head(s)
      BY <1>4
    <3> HIDE DEF t
    <3>7. fetch'.signal = "intime" =>
            \/ fetch'.promise = "rejected"
            \/ fetch'.promise = "pending" /\ t # <<>> /\ Head(t) = "rejected"
      BY <1>6, <3>3, <3>6 DEF Settling
    <3>8. Len(t) <= fetch'.completes + 1
      BY <1>4, <1>6, <3>5
    <3> QED
      BY <3>2, <3>4, <3>7, <3>8 DEF Settling
  <2> QED
    BY <2>1, <2>2
<1>17. Streamed'
  <2>1. Streamed
    BY DEF FetchSound
  <2>2. DOMAIN delivered' = {} /\ Len(delivered') = Len(delivered)
    BY <1>1, <1>5
  <2> QED
    BY <1>6, <2>1, <2>2 DEF Streamed
<1>18. \A g \in Hops : Served(g)'
  <2> TAKE g \in Hops
  <2>1. hop'[g].handlers = hop[g].handlers /\ hop'[g].served = hop[g].served
    BY <1>2 DEF Others
  <2> QED
    BY <1>1, <1>6, <1>8, <2>1 DEF FetchSound, Served
<1>19. UploadMoves' /\ \A g \in Hops : Framed(g)' /\ Chunked(g)'
  <2>1. \A g \in Hops : SameUpload(g) /\ (Up(g)' /\ ~hop'[g].killed => Up(g) /\ ~hop[g].killed)
    BY <1>2 DEF Others, SameUpload, Up
  <2> QED
    BY <1>1, <2>1, UploadKept
<1> QED
  BY <1>7, <1>9, <1>10, <1>11, <1>12, <1>13, <1>14, <1>15, <1>16, <1>17, <1>18, <1>19 DEF FetchSound

\* RECEIVE_CLIENT_HTTP_READ and ondata.
LEMMA ReadSound ==
  ASSUME FetchSound, NEW h \in Hops, Read(h)
  PROVE  FetchSound'
<1> DEFINE used == hop[h].handlers = "deliver" /\ fetch.controller
<1>1. /\ UNCHANGED <<mode, streaming, client, refs, event, upload>>
      /\ event = NoEvent /\ hop[h].conn = "body"
      /\ delivered' = IF used /\ fetch.stream = "readable" THEN Append(delivered, h) ELSE delivered
      /\ fetch' = [fetch EXCEPT !.stopped = IF used /\ fetch.stream # "readable"
                                            THEN "stream" ELSE @]
  BY DEF Read, Callback
<1>2. /\ hop' \in [Hops -> HopSet] /\ Others(h) /\ SameUpload(h)
      /\ hop'[h].pinned = hop[h].pinned /\ hop'[h].completed = hop[h].completed
      /\ hop'[h].torndown = hop[h].torndown /\ hop'[h].conn = hop[h].conn
      /\ hop'[h].killed = hop[h].killed /\ hop'[h].served = hop[h].served + 1
      /\ hop'[h].status = hop[h].status /\ hop'[h].handlers = hop[h].handlers
  BY ReadHops DEF FetchSound
<1>3. /\ fetch \in FetchSet /\ fetch.controller \in BOOLEAN /\ delivered \in Seq(Hops)
      /\ fetch.completes \in 0..1 /\ hop[h].served \in Nat
  BY FetchParts, HopParts, FetchAssumption DEF FetchSound, Shapes
<1>4. fetch.controller => fetch.stream = "readable"
  BY DEF FetchSound, Streamed
<1>5. fetch' = fetch
  <2>1. fetch' = [fetch EXCEPT !.stopped = fetch.stopped]
    BY <1>1, <1>3, <1>4 DEF FetchSet
  <2> QED
    BY <1>3, <2>1 DEF FetchSet
<1>6. delivered' = (IF used THEN Append(delivered, h) ELSE delivered)
  BY <1>1, <1>4
<1> HIDE DEF used
<1>7. Shapes'
  <2>1. delivered' \in Seq(Hops)
    BY <1>3, <1>6
  <2> QED
    BY <1>1, <1>2, <1>5, <2>1 DEF FetchSound, Shapes
<1>8. \A g \in Hops : /\ Used(g)' <=> Used(g)
                      /\ Up(g)' <=> Up(g)
                      /\ Waits(g)' <=> Waits(g)
                      /\ Late(g)' <=> Late(g)
                      /\ hop'[g].handlers = hop[g].handlers
                      /\ hop'[g].conn = hop[g].conn
  BY <1>2 DEF Others, Used, Up, Waits, Late
<1>9. RefsExact'
  <2>1. {g \in Hops : Up(g)'} = {g \in Hops : Up(g)}
    BY <1>8
  <2> QED
    BY <1>1, <2>1 DEF FetchSound, RefsExact
<1>10. EventOK'
  BY <1>1 DEF EventOK
<1>11. Chained'
  BY <1>8 DEF FetchSound, Chained
<1>12. Awaited' /\ Named' /\ Unsent'
  BY <1>1, <1>5, <1>8 DEF FetchSound, Awaited, Named, Unsent
<1>13. \A g \in Hops : Known(g)' /\ Counted(g)'
  BY <1>1, <1>5, <1>8 DEF FetchSound, Known, Counted
<1>14. \A g \in Hops : Staged(g)'
  <2> TAKE g \in Hops
  <2>1. Staged(g)
    BY DEF FetchSound
  <2>2. CASE g = h
    BY <1>1, <1>2, <2>1, <2>2 DEF Staged, Up
  <2>3. CASE g # h
    BY <1>1, <1>2, <2>1, <2>3 DEF Staged, Up, Others
  <2> QED
    BY <2>2, <2>3
<1>15. Settling'
  BY <1>5, <1>8 DEF FetchSound, Settling, Late
<1>16. Streamed'
  <2>1. Streamed
    BY DEF FetchSound
  <2>2. CASE ~used
    BY <1>3, <1>5, <1>6, <1>8, <2>1, <2>2 DEF Streamed
  <2>3. CASE used
    <3>1. hop[h].handlers = "deliver" /\ fetch.controller
      BY <2>3 DEF used
    <3>2. delivered' = Append(delivered, h)
      BY <1>6, <2>3
    <3>3. \A i \in DOMAIN delivered' : \/ delivered'[i] = h
                                       \/ i \in DOMAIN delivered /\ delivered'[i] = delivered[i]
      BY <1>3, <3>2
    <3>4. \A i \in DOMAIN delivered : delivered[i] \in Hops
      BY <1>3
    <3>5. \A i \in DOMAIN delivered' : /\ hop'[delivered'[i]].handlers = "deliver"
                                       /\ hop'[delivered'[i]].conn \in {"body", "idle", "closed"}
      <4> TAKE i \in DOMAIN delivered'
      <4>1. CASE delivered'[i] = h
        BY <1>1, <1>8, <3>1, <4>1
      <4>2. CASE i \in DOMAIN delivered /\ delivered'[i] = delivered[i]
        BY <1>8, <2>1, <3>4, <4>2 DEF Streamed
      <4> QED
        BY <3>3, <4>1, <4>2
    <3>6. fetch.stream # "closed"
      BY <1>4, <3>1
    <3> QED
      BY <1>5, <2>1, <3>5, <3>6 DEF Streamed
  <2> QED
    BY <2>2, <2>3
<1>17. \A g \in Hops : Served(g)'
  <2> SUFFICES ASSUME NEW g \in Hops, fetch.completes = 0, Used(g), hop[g].handlers = "deliver"
               PROVE  Len(delivered') = hop'[g].served
    BY <1>5, <1>8 DEF Served
  <2>1. g = h
    BY <1>1, LastHop
  <2>2. used /\ Len(delivered) = hop[h].served
    BY <1>3, <2>1 DEF FetchSound, Streamed, Served, used
  <2>3. Len(delivered') = Len(delivered) + 1
    BY <1>3, <1>6, <2>2
  <2> QED
    BY <1>2, <2>1, <2>2, <2>3
<1>18. UploadMoves' /\ \A g \in Hops : Framed(g)' /\ Chunked(g)'
  <2>1. \A g \in Hops : SameUpload(g) /\ (Up(g)' /\ ~hop'[g].killed => Up(g) /\ ~hop[g].killed)
    BY <1>2 DEF Others, SameUpload, Up
  <2> QED
    BY <1>1, <2>1, UploadKept
<1> QED
  BY <1>7, <1>9, <1>10, <1>11, <1>12, <1>13, <1>14, <1>15, <1>16, <1>17, <1>18 DEF FetchSound

----------------------------------------------------------------------------
(* Connections that are opened.                                            *)

\* What a hop is that was just opened.
LEMMA OpenedHop ==
  ASSUME Shapes, NEW k \in Hops, NEW body \in BOOLEAN, hop'[k] = Connecting(body)
  PROVE  /\ hop'[k].handlers = "deliver" /\ hop'[k].status = "none"
         /\ hop'[k].pinned = TRUE /\ hop'[k].completed = FALSE
         /\ hop'[k].torndown = FALSE /\ hop'[k].conn = "connecting"
         /\ hop'[k].killed = FALSE /\ hop'[k].served = 0
         /\ hop'[k] \in HopSet
<1>1. streaming \in BOOLEAN
  BY DEF Shapes
<1> DEFINE o == Connecting(body)
<1>2. /\ o.handlers = "deliver" /\ o.status = "none"
      /\ o.pinned = TRUE /\ o.completed = FALSE
      /\ o.torndown = FALSE /\ o.conn = "connecting"
      /\ o.killed = FALSE /\ o.served = 0
      /\ o \in HopSet
  BY <1>1, OpenedShape
<1>3. hop'[k] = o
  OBVIOUS
<1> HIDE DEF o
<1> QED
  BY <1>2, <1>3

\* The hops are finitely many.
LEMMA HopsFinite ==
  /\ IsFiniteSet(Hops)
  /\ \A S \in SUBSET Hops : IsFiniteSet(S) /\ Cardinality(S) \in Nat
<1>1. MaxRedirects + 1 \in Int
  BY FetchAssumption
<1>2. IsFiniteSet(Hops)
  BY <1>1, FS_Interval DEF Hops
<1> QED
  BY <1>2, FS_Subset, FS_CardinalityType

\* sendRequest.
LEMMA SendRequestSound ==
  ASSUME FetchSound, SendRequest
  PROVE  FetchSound'
<1>1. /\ UNCHANGED <<mode, streaming, event, upload, delivered>>
      /\ fetch.phase = "queued" /\ client' = [client EXCEPT !.current = 1]
  BY DEF SendRequest, Script
<1>2. PICK opens \in BOOLEAN, body \in BOOLEAN :
       /\ body => ~streaming /\ MaxChunks > 0
       /\ fetch' = [fetch EXCEPT !.phase = "sent",
                                 !.promise = IF opens THEN @ ELSE "rejected"]
       /\ hop' = IF opens THEN [hop EXCEPT ![1] = Connecting(body)] ELSE hop
       /\ refs' = IF opens THEN refs + 1 ELSE refs
  BY DEF SendRequest
<1>3. /\ fetch \in FetchSet /\ client \in [redirects : Nat, current : 0..(MaxRedirects + 1)]
      /\ hop \in [Hops -> HopSet] /\ refs \in Int /\ 1 \in Hops
      /\ 1 \in 0..(MaxRedirects + 1) /\ streaming \in BOOLEAN
  BY FetchAssumption DEF FetchSound, Shapes, Hops
<1>4. /\ \A h \in Hops : ~Used(h)
      /\ fetch.promise = "pending" /\ upload.reads = 0 /\ fetch.completes = 0 /\ ~fetch.resolved
  BY <1>1 DEF FetchSound, Unsent
<1>5. /\ fetch' \in FetchSet
      /\ fetch'.completes = fetch.completes /\ fetch'.stopped = fetch.stopped
      /\ fetch'.status = fetch.status /\ fetch'.phase = "sent"
      /\ fetch'.promise = (IF opens THEN fetch.promise ELSE "rejected")
      /\ fetch'.timers = fetch.timers /\ fetch'.signal = fetch.signal
      /\ fetch'.stream = fetch.stream /\ fetch'.resolved = fetch.resolved
      /\ fetch'.controller = fetch.controller
  <2> DEFINE p == IF opens THEN fetch.promise ELSE "rejected"
  <2>1. fetch' = [fetch EXCEPT !.phase = "sent", !.promise = p]
    BY <1>2, <1>3 DEF FetchSet
  <2>2. p \in {"pending", "resolved", "rejected"}
    BY <1>3, FetchParts
  <2> HIDE DEF p
  <2>3. /\ fetch' \in FetchSet
        /\ fetch'.completes = fetch.completes /\ fetch'.stopped = fetch.stopped
        /\ fetch'.status = fetch.status /\ fetch'.phase = "sent"
        /\ fetch'.promise = p
        /\ fetch'.timers = fetch.timers /\ fetch'.signal = fetch.signal
        /\ fetch'.stream = fetch.stream /\ fetch'.resolved = fetch.resolved
        /\ fetch'.controller = fetch.controller
    BY <1>3, <2>1, <2>2 DEF FetchSet
  <2> QED
    BY <2>3 DEF p
<1>6. /\ client' \in [redirects : Nat, current : 0..(MaxRedirects + 1)]
      /\ client'.redirects = client.redirects /\ client'.current = 1
  BY <1>1, <1>3
<1>7. CASE ~opens
  <2>1. Settling' /\ Streamed'
    <3>1. hop' = hop
      BY <1>2, <1>7
    <3>2. Settling'
      BY <1>4, <1>5, <1>7, <3>1 DEF FetchSound, Settling
    <3>3. Streamed'
      BY <1>1, <1>5, <3>1 DEF FetchSound, Streamed
    <3> QED
      BY <3>2, <3>3
  <2>2. Unsent'
    BY <1>1, <1>2, <1>4, <1>5, <1>7 DEF Unsent, Used
  <2> QED
    BY <1>1, <1>2, <1>3, <1>4, <1>5, <1>6, <1>7, <2>1, <2>2, PromiseStep
<1>8. CASE opens
  <2>1. hop' = [hop EXCEPT ![1] = Connecting(body)] /\ refs' = refs + 1
    BY <1>2, <1>8
  <2>2. Connecting(body) \in HopSet
    BY <1>3, OpenedShape
  <2>3. hop' \in [Hops -> HopSet] /\ Others(1) /\ hop'[1] = Connecting(body)
    BY <1>3, <2>1, <2>2, HopUpdated
  <2>4. /\ hop'[1].handlers = "deliver" /\ hop'[1].status = "none"
        /\ hop'[1].pinned = TRUE /\ hop'[1].completed = FALSE
        /\ hop'[1].torndown = FALSE /\ hop'[1].conn = "connecting"
        /\ hop'[1].killed = FALSE /\ hop'[1].served = 0
    BY <1>3, <2>3, OpenedHop DEF FetchSound
  <2>5. \A g \in Hops : g # 1 => hop'[g] = hop[g] /\ hop[g] = NewHop /\ ~Up(g)
    BY <1>4, <2>3 DEF FetchSound, Others, Staged, Used, Up
  <2>6. ~Up(1) /\ Used(1)' /\ Waits(1)' /\ Up(1)'
    BY <1>3, <1>4, <2>4 DEF FetchSound, Staged, Used, Up, Waits
  <2>7. \A g \in Hops : g # 1 => ~Used(g)' /\ ~Up(g)' /\ ~Waits(g)'
    BY <1>4, <2>5 DEF Used, Up, Waits
  <2>8. Shapes'
    BY <1>1, <1>3, <1>5, <1>6, <2>1, <2>3 DEF FetchSound, Shapes
  <2>9. RefsExact'
    <3>1. {h \in Hops : Up(h)'} = {h \in Hops : Up(h)} \cup {1}
      BY <1>3, <2>5, <2>6, <2>7
    <3>2. 1 \notin {h \in Hops : Up(h)}
      BY <2>6
    <3>3. IsFiniteSet({h \in Hops : Up(h)})
      BY HopsFinite
    <3>4. Cardinality({h \in Hops : Up(h)} \cup {1}) = Cardinality({h \in Hops : Up(h)}) + 1
      BY <3>2, <3>3, FS_AddElement
    <3> QED
      BY <2>1, <3>1, <3>4 DEF FetchSound, RefsExact
  <2>10. event = NoEvent
    BY <1>4 DEF FetchSound, EventOK, Shapes, Used
  <2>11. EventOK'
    BY <1>1, <2>10 DEF EventOK
  <2>12. Chained'
    <3> SUFFICES ASSUME NEW g \in Hops, NEW k \in Hops, g < k, Used(k)'
                 PROVE  FALSE
      BY DEF Chained
    <3>1. k = 1
      BY <2>7
    <3> QED
      BY <3>1 DEF Hops
  <2>13. Awaited' /\ Named'
    BY <1>3, <1>6, <2>6 DEF Awaited, Named
  <2>14. Unsent'
    BY <1>3, <1>5, <2>6 DEF Unsent
  <2>15. \A g \in Hops : Staged(g)'
    <3> TAKE g \in Hops
    <3>1. CASE g = 1
      BY <1>1, <2>4, <2>10, <3>1 DEF Staged, Up
    <3>2. CASE g # 1
      BY <1>1, <2>5, <2>10, <3>2 DEF FetchSound, Staged, Up
    <3> QED
      BY <3>1, <3>2
  <2>16. \A g \in Hops : Counted(g)'
    <3> TAKE g \in Hops
    <3>1. CASE g = 1
      BY <2>4, <3>1 DEF Counted
    <3>2. CASE g # 1
      BY <1>1, <1>6, <2>5, <3>2 DEF FetchSound, Counted
    <3> QED
      BY <3>1, <3>2
  <2>17. \A g \in Hops : Known(g)'
    BY <1>4, <1>5, <1>6, <2>7 DEF Known
  <2>18. \A g \in Hops : ~Late(g)
    BY <1>4 DEF Late, Used
  <2>19. Settling'
    BY <1>4, <1>5, <1>8 DEF FetchSound, Settling
  <2>20. DOMAIN delivered = {} /\ delivered = <<>>
    <3>1. delivered \in Seq(Hops)
      BY DEF FetchSound, Shapes
    <3>2. \A i \in DOMAIN delivered : delivered[i] \in Hops
      BY <3>1
    <3>3. DOMAIN delivered = {}
      BY <2>18, <3>2 DEF FetchSound, Streamed, Late
    <3> QED
      BY <3>1, <3>3
  <2>21. Streamed'
    <3>1. Streamed
      BY DEF FetchSound
    <3>2. DOMAIN delivered' = {} /\ Len(delivered') = Len(delivered)
      BY <1>1, <2>20
    <3> QED
      BY <1>5, <3>1, <3>2 DEF Streamed
  <2>22. \A g \in Hops : Served(g)'
    BY <1>1, <2>4, <2>7, <2>20 DEF Served
  <2>23. UploadMoves' /\ \A g \in Hops : Framed(g)' /\ Chunked(g)'
    <3>1. \A g \in Hops :
           \/ /\ SameUpload(g)
              /\ Up(g)' /\ ~hop'[g].killed => Up(g) /\ ~hop[g].killed
           \/ \E b \in BOOLEAN :
                /\ b => ~streaming /\ MaxChunks > 0
                /\ hop'[g] = Connecting(b)
      <4> TAKE g \in Hops
      <4>1. CASE g = 1
        BY <1>2, <2>3, <4>1
      <4>2. CASE g # 1
        BY <2>5, <4>2 DEF SameUpload, Up
      <4> QED
        BY <4>1, <4>2
    <3> QED
      BY <1>1, <3>1, UploadKept
  <2> QED
    BY <2>8, <2>9, <2>11, <2>12, <2>13, <2>14, <2>15, <2>16, <2>17, <2>19, <2>21, <2>22, <2>23
       DEF FetchSound
<1> QED
  BY <1>7, <1>8

----------------------------------------------------------------------------
(* Clients that report.                                                    *)

\* Only the client that waits can be told that another one waits.
LEMMA OneWaits ==
  ASSUME FetchSound, NEW h \in Hops, Waits(h), NEW g \in Hops, g # h
  PROVE  ~Waits(g)
BY DEF FetchSound, Known

\* Report of a client that is marked for closing, or torn down with its connection.
Marked(h) ==
  /\ hop'[h].pinned = TRUE /\ hop'[h].killed = TRUE
  /\ hop'[h].torndown = hop[h].torndown /\ hop'[h].conn = hop[h].conn
  /\ refs' = refs
TornDown(h) ==
  /\ hop'[h].pinned = FALSE /\ hop'[h].torndown = TRUE
  /\ hop'[h].conn \in {"idle", "closed"}
  /\ refs' = refs - 1 /\ event = NoEvent
ReportOf(h) ==
  /\ hop' \in [Hops -> HopSet] /\ Others(h) /\ SameUpload(h)
  /\ hop'[h].handlers = hop[h].handlers /\ hop'[h].status = hop[h].status
  /\ hop'[h].served = hop[h].served /\ hop'[h].completed = TRUE
  /\ Marked(h) \/ TornDown(h)

\* The clients after a report, which is the first of its client or a later one.
LEMMA ReportLife ==
  ASSUME FetchSound, NEW h \in Hops, Up(h), ReportOf(h), mode' = mode, event' = event,
         client'.redirects = client.redirects,
         fetch'.stopped = "no" => fetch.stopped = "no" /\ client'.current \in {0, client.current},
         \/ Waits(h) /\ fetch'.completes = 1
         \/ Waits(h) /\ fetch'.stopped # "no" /\ fetch'.completes = fetch.completes
         \/ ~Waits(h) /\ fetch'.completes = fetch.completes
                      /\ fetch'.stopped = fetch.stopped /\ client' = client,
         fetch'.phase = fetch.phase, fetch'.status = fetch.status
  PROVE  /\ RefsExact' /\ EventOK' /\ Chained' /\ Awaited' /\ Named' /\ Unsent'
         /\ \A g \in Hops : Staged(g)' /\ Counted(g)' /\ Known(g)' /\ (Used(g)' <=> Used(g))
<1> USE DEF ReportOf
<1>1. hop[h].conn \in {"connecting", "body"} /\ Staged(h)
  BY DEF FetchSound, Staged
<1>2. hop'[h].conn # "none"
  BY <1>1 DEF Marked, TornDown
<1>3. \A g \in Hops : Used(g)' <=> Used(g)
  BY <1>1, <1>2 DEF Others, Used
<1>4. \A g \in Hops : g # h => (Up(g)' <=> Up(g)) /\ (Waits(g)' <=> Waits(g))
  BY DEF Others, Up, Waits
<1>5. ~Waits(h)'
  BY DEF Waits
<1>6. RefsExact'
  <2> DEFINE up == {g \in Hops : Up(g)}
  <2>1. refs = Cardinality(up) /\ IsFiniteSet(up) /\ h \in up
    BY HopsFinite DEF FetchSound, RefsExact
  <2>2. CASE Marked(h)
    <3>1. {g \in Hops : Up(g)'} = up
      BY <1>4, <2>2 DEF Marked, Up
    <3> QED
      BY <2>1, <2>2, <3>1 DEF Marked, RefsExact
  <2>3. CASE TornDown(h)
    <3>1. {g \in Hops : Up(g)'} = up \ {h}
      BY <1>4, <2>3 DEF TornDown, Up
    <3>2. Cardinality(up \ {h}) = Cardinality(up) - 1
      BY <2>1, FS_RemoveElement
    <3> QED
      BY <2>1, <2>3, <3>1, <3>2 DEF TornDown, RefsExact
  <2> QED
    BY <2>2, <2>3
<1>7. EventOK'
  <2>1. CASE Marked(h)
    <3> SUFFICES ASSUME event # NoEvent
                 PROVE  EventOK'
      BY DEF EventOK
    <3>1. event[1] \in Hops
      BY DEF FetchSound, Shapes
    <3>2. /\ hop'[event[1]].conn = hop[event[1]].conn
          /\ hop'[event[1]].handlers = hop[event[1]].handlers
          /\ hop'[event[1]].status = hop[event[1]].status
      BY <2>1, <3>1 DEF Marked, Others
    <3> QED
      BY <3>2 DEF FetchSound, EventOK
  <2>2. CASE TornDown(h)
    BY <2>2 DEF TornDown, EventOK
  <2> QED
    BY <2>1, <2>2
<1>8. Chained'
  <2> SUFFICES ASSUME NEW g \in Hops, NEW k \in Hops, g < k, Used(k)'
               PROVE  hop'[g].conn \in {"idle", "closed"} /\ hop'[g].handlers = "follow"
    BY DEF Chained
  <2>1. hop[g].conn \in {"idle", "closed"} /\ hop[g].handlers = "follow"
    BY <1>3 DEF FetchSound, Chained
  <2>2. g # h
    BY <1>1, <2>1
  <2> QED
    BY <2>1, <2>2 DEF Others
<1>9. Awaited'
  <2> SUFFICES ASSUME fetch'.stopped = "no", fetch'.completes = 0, \E g \in Hops : Used(g)'
               PROVE  \E g \in Hops : Waits(g)'
    BY DEF Awaited
  <2>1. ~Waits(h) /\ fetch.completes = 0 /\ fetch.stopped = "no"
    OBVIOUS
  <2>2. PICK g \in Hops : Waits(g)
    BY <1>3, <2>1 DEF FetchSound, Awaited
  <2> QED
    BY <1>4, <2>1, <2>2
<1>10. Named'
  BY <1>3 DEF FetchSound, Named
<1>11. Unsent'
  <2>1. Used(h) /\ Used(h)'
    BY <1>1, <1>2 DEF Used
  <2> QED
    BY <2>1 DEF FetchSound, Unsent
<1>12. \A g \in Hops : Staged(g)'
  <2> TAKE g \in Hops
  <2>1. CASE g # h
    BY <2>1 DEF FetchSound, Staged, Others, Up
  <2>2. CASE g = h /\ Marked(h)
    BY <1>1, <2>2 DEF Marked, Staged, Up
  <2>3. CASE g = h /\ TornDown(h)
    BY <1>1, <2>3 DEF TornDown, Staged, Up
  <2> QED
    BY <2>1, <2>2, <2>3
<1>13. \A g \in Hops : Counted(g)'
  <2> TAKE g \in Hops
  <2>1. hop'[g].handlers = hop[g].handlers
    BY DEF Others
  <2> QED
    BY <2>1 DEF FetchSound, Counted
<1>14. \A g \in Hops : Known(g)'
  <2> TAKE g \in Hops
  <2>1. CASE Waits(h)
    BY <1>4, <1>5, <2>1, OneWaits DEF Known
  <2>2. CASE ~Waits(h)
    BY <1>4, <1>5, <2>2 DEF FetchSound, Known
  <2> QED
    BY <2>1, <2>2
<1> QED
  BY <1>3, <1>6, <1>7, <1>8, <1>9, <1>10, <1>11, <1>12, <1>13, <1>14

\* The promise and the body when the waiting client reports.
LEMMA ReportPromise ==
  ASSUME FetchSound, NEW h \in Hops, Waits(h), ReportOf(h), delivered' = delivered,
         NEW f \in FetchSet, NEW ok \in BOOLEAN, fetch' = FetchComplete(f, ok),
         f.completes = fetch.completes, f.phase = fetch.phase, f.timers = fetch.timers,
         f.resolved = fetch.resolved, f.controller = fetch.controller,
         f.stopped = fetch.stopped, f.status = fetch.status,
         f.signal = fetch.signal \/ (~ok /\ (f.signal # "intime" \/ ~fetch.resolved)),
         f.promise = fetch.promise \/ f.promise = "rejected",
         f.stream = fetch.stream \/ (f.stream = "cancelled" /\ ~ok),
         ok => hop[h].handlers = "deliver" /\ hop[h].served = MaxData
  PROVE  /\ fetch' \in FetchSet /\ fetch'.completes = 1 /\ fetch'.stopped = fetch.stopped
         /\ fetch'.phase = fetch.phase /\ fetch'.status = fetch.status
         /\ Settling' /\ Streamed' /\ \A g \in Hops : Served(g)'
<1>1. /\ fetch.completes = 0 /\ Staged(h) /\ Used(h)
      /\ Settling /\ Streamed /\ Served(h)
  BY DEF FetchSound, Known, Staged, Waits, Used
<1>2. fetch.controller /\ fetch.stream = "readable" /\ fetch.stopped # "stream"
  BY <1>1 DEF Streamed
<1>3. /\ fetch' \in FetchSet
      /\ fetch'.phase = f.phase /\ fetch'.signal = f.signal /\ fetch'.promise = f.promise
      /\ fetch'.resolved = f.resolved /\ fetch'.status = f.status
      /\ fetch'.completes = 1 /\ fetch'.controller = FALSE /\ fetch'.stopped = f.stopped
      /\ fetch'.stream = (IF ~f.controller \/ f.stream # "readable" THEN f.stream
                          ELSE IF ok THEN "closed" ELSE "errored")
      /\ fetch'.timers = (IF ok \/ f.resolved THEN f.timers ELSE Append(f.timers, "rejected"))
  <2>1. ok /\ f.controller => f.stream = "readable"
    BY <1>2
  <2> DEFINE g == FetchComplete(f, ok)
  <2>2. /\ g \in FetchSet
        /\ g.phase = f.phase /\ g.signal = f.signal /\ g.promise = f.promise
        /\ g.resolved = f.resolved /\ g.status = f.status
        /\ g.completes = 1 /\ g.controller = FALSE /\ g.stopped = f.stopped
        /\ g.stream = (IF ~f.controller \/ f.stream # "readable" THEN f.stream
                      ELSE IF ok THEN "closed" ELSE "errored")
        /\ g.timers = (IF ok \/ f.resolved THEN f.timers ELSE Append(f.timers, "rejected"))
    <3>1. f.completes = 0
      BY <1>1
    <3> QED
      BY <2>1, <3>1, CompleteShape, ZenonT(30)
  <2>3. fetch' = g
    OBVIOUS
  <2> HIDE DEF g
  <2> QED
    BY <2>2, <2>3
<1>4. \A g \in Hops : /\ Late(g) => Late(g)'
                      /\ hop'[g].handlers = hop[g].handlers
  <2> TAKE g \in Hops
  <2>1. CASE g # h
    BY <2>1 DEF ReportOf, Others, Late
  <2>2. CASE g = h
    BY <2>2 DEF ReportOf, Marked, TornDown, Late
  <2> QED
    BY <2>1, <2>2
<1> DEFINE s == fetch.timers
<1>5. /\ s \in Seq({"resolved", "rejected"}) /\ Len(s) \in Nat
      /\ fetch.resolved \in BOOLEAN
  BY FetchParts DEF FetchSound, Shapes
<1>6. ~fetch.resolved => s = <<>>
  BY <1>1, <1>5 DEF Settling
<1>7. Settling'
  <2>1. fetch.resolved => fetch'.timers = s
    BY <1>3
  <2>2. ok => fetch'.timers = s
    BY <1>3
  <2>3. ~ok /\ ~fetch.resolved => fetch'.timers = <<"rejected">>
    <3>1. Append(<<>>, "rejected") = <<"rejected">>
      OBVIOUS
    <3>2. f.timers = s /\ f.resolved = fetch.resolved
      OBVIOUS
    <3> HIDE DEF s
    <3>3. ~ok /\ ~f.resolved => fetch'.timers = Append(f.timers, "rejected")
      BY <1>3
    <3> QED
      BY <1>6, <3>1, <3>2, <3>3
  <2>4. Len(fetch'.timers) <= 1 + (IF fetch.resolved THEN 1 ELSE 0)
    <3>0. Len(s) <= IF fetch.resolved THEN 1 ELSE 0
      BY <1>1 DEF Settling
    <3>1. CASE fetch.resolved \/ ok
      <4>1. fetch'.timers = s
        BY <2>1, <2>2, <3>1
      <4> HIDE DEF s
      <4> QED
        BY <1>5, <3>0, <4>1
    <3>2. CASE ~(fetch.resolved \/ ok)
      <4>1. fetch'.timers = <<"rejected">>
        BY <2>3, <3>2
      <4>2. Len(<<"rejected">>) = 1
        OBVIOUS
      <4> QED
        BY <3>2, <4>1, <4>2
    <3> QED
      BY <3>1, <3>2
  <2>5. "resolved" \in {fetch'.timers[i] : i \in DOMAIN fetch'.timers} \/ fetch'.promise = "resolved"
          => fetch'.resolved
    <3>1. CASE fetch.resolved
      BY <1>3, <3>1
    <3>2. CASE ~fetch.resolved
      <4>1. fetch'.timers \in {<<>>, <<"rejected">>} /\ fetch'.promise # "resolved"
        BY <1>1, <1>3, <1>6, <2>2, <2>3, <3>2 DEF Settling
      <4> QED
        BY <4>1
    <3> QED
      BY <3>1, <3>2
  <2>6. fetch'.resolved => \E g \in Hops : /\ hop'[g].handlers = "deliver"
                                           /\ hop'[g].conn \in {"body", "idle", "closed"}
    BY <1>1, <1>3, <1>4 DEF Settling, Late
  <2>7. fetch'.signal = "intime" =>
       \/ fetch'.promise = "rejected"
       \/ fetch'.promise = "pending" /\ fetch'.timers # <<>> /\ Head(fetch'.timers) = "rejected"
    <3> SUFFICES ASSUME f.signal = "intime", f.promise # "rejected"
                 PROVE  fetch'.promise = "pending" /\ fetch'.timers # <<>>
                        /\ Head(fetch'.timers) = "rejected"
      BY <1>3
    <3>1. f.promise = fetch.promise
      OBVIOUS
    <3>2. CASE fetch.resolved
      <4>1. fetch.signal = "intime"
        BY <3>2
      <4> QED
        BY <1>1, <1>3, <2>1, <3>1, <3>2, <4>1 DEF Settling
    <3>3. CASE ~fetch.resolved
      <4>1. fetch.promise = "pending"
        BY <1>1, <1>5, <3>1, <3>3, FetchParts DEF Settling, FetchSound, Shapes
      <4>2. fetch.signal # "intime"
        BY <1>1, <1>6, <3>1, <3>3 DEF Settling
      <4>3. ~ok
        BY <4>2
      <4> QED
        BY <1>3, <2>3, <3>1, <3>3, <4>1, <4>3
    <3> QED
      BY <1>5, <3>2, <3>3
  <2> QED
    BY <1>3, <2>4, <2>5, <2>6, <2>7 DEF Settling
<1>8. Streamed'
  <2>1. fetch'.stream = "closed" => Len(delivered) = MaxData
    <3> SUFFICES ASSUME fetch'.stream = "closed"
                 PROVE  Len(delivered) = MaxData
      OBVIOUS
    <3>1. ok
      BY <1>2, <1>3
    <3> QED
      BY <1>1, <3>1 DEF Served
  <2>2. \A i \in DOMAIN delivered :
          /\ hop'[delivered[i]].handlers = "deliver"
          /\ hop'[delivered[i]].conn \in {"body", "idle", "closed"}
    <3>1. \A i \in DOMAIN delivered : delivered[i] \in Hops
      BY DEF FetchSound, Shapes
    <3> QED
      BY <1>1, <1>4, <3>1 DEF Streamed, Late
  <2> QED
    BY <1>2, <1>3, <2>1, <2>2 DEF Streamed
<1>9. \A g \in Hops : Served(g)'
  BY <1>3 DEF Served
<1> QED
  BY <1>3, <1>7, <1>8, <1>9

\* The same when the client reported before.
LEMMA ReportAgain ==
  ASSUME FetchSound, NEW h \in Hops, Up(h), ReportOf(h), delivered' = delivered,
         fetch' = fetch \/ (fetch' = [fetch EXCEPT !.stopped = "connect"])
  PROVE  /\ fetch' \in FetchSet
         /\ fetch'.completes = fetch.completes /\ fetch'.phase = fetch.phase
         /\ fetch'.status = fetch.status
         /\ Settling' /\ Streamed' /\ \A g \in Hops : Served(g)'
<1>1. /\ fetch \in FetchSet /\ Staged(h) /\ Used(h)
  BY DEF FetchSound, Shapes, Staged, Used
<1>2. /\ fetch' \in FetchSet
      /\ fetch'.timers = fetch.timers /\ fetch'.completes = fetch.completes
      /\ fetch'.resolved = fetch.resolved /\ fetch'.promise = fetch.promise
      /\ fetch'.signal = fetch.signal /\ fetch'.controller = fetch.controller
      /\ fetch'.stream = fetch.stream /\ fetch'.phase = fetch.phase
      /\ fetch'.status = fetch.status
      /\ fetch'.stopped = fetch.stopped \/ fetch'.stopped = "connect"
  <2>1. CASE fetch' = fetch
    BY <1>1, <2>1
  <2>2. CASE fetch' = [fetch EXCEPT !.stopped = "connect"]
    BY <1>1, <2>2 DEF FetchSet
  <2> QED
    BY <2>1, <2>2
<1>3. \A g \in Hops : /\ Late(g) => Late(g)'
                      /\ Used(g)' => Used(g)
                      /\ hop'[g].handlers = hop[g].handlers
                      /\ hop'[g].served = hop[g].served
  <2> TAKE g \in Hops
  <2>1. CASE g # h
    BY <2>1 DEF ReportOf, Others, Late, Used
  <2>2. CASE g = h
    BY <1>1, <2>2 DEF ReportOf, Marked, TornDown, Late
  <2> QED
    BY <2>1, <2>2
<1>4. Settling'
  BY <1>2, <1>3 DEF FetchSound, Settling, Late
<1>5. Streamed'
  <2>1. Streamed /\ \A i \in DOMAIN delivered : delivered[i] \in Hops
    BY DEF FetchSound, Shapes
  <2>2. \A i \in DOMAIN delivered :
          /\ hop'[delivered[i]].handlers = "deliver"
          /\ hop'[delivered[i]].conn \in {"body", "idle", "closed"}
    BY <1>3, <2>1 DEF Streamed, Late
  <2> QED
    BY <1>2, <2>1, <2>2 DEF Streamed
<1>6. \A g \in Hops : Served(g)'
  BY <1>2, <1>3 DEF FetchSound, Served
<1> QED
  BY <1>2, <1>4, <1>5, <1>6

\* A report writes nothing.
LEMMA ReportUpload ==
  ASSUME FetchSound, NEW h \in Hops, Up(h), ReportOf(h), UNCHANGED <<streaming, upload>>
  PROVE  UploadMoves' /\ \A g \in Hops : Framed(g)' /\ Chunked(g)'
<1>1. ASSUME NEW g \in Hops
      PROVE  SameUpload(g) /\ (Up(g)' /\ ~hop'[g].killed => Up(g) /\ ~hop[g].killed)
  <2>1. CASE g # h
    BY <2>1 DEF ReportOf, Others, SameUpload, Up
  <2>2. CASE g = h
    BY <2>2 DEF ReportOf, Marked, TornDown, Up
  <2> QED
    BY <2>1, <2>2
<1> QED
  BY <1>1, UploadKept

----------------------------------------------------------------------------
(* Ends.                                                                   *)

\* A redirect opens the next hop in the callback that completes this one.
Follows(h) ==
  /\ Waits(h) /\ hop[h].handlers = "follow" /\ event = NoEvent
  /\ fetch' = fetch /\ client' = [client EXCEPT !.current = h + 1] /\ refs' = refs
  /\ h + 1 \in Hops /\ hop' \in [Hops -> HopSet]
  /\ \A g \in Hops : g \notin {h, h + 1} => hop'[g] = hop[g]
  /\ hop'[h].handlers = hop[h].handlers /\ hop'[h].status = hop[h].status
  /\ hop'[h].served = hop[h].served /\ hop'[h].completed = TRUE
  /\ hop'[h].pinned = FALSE /\ hop'[h].torndown = TRUE /\ hop'[h].conn = "idle"
  /\ SameUpload(h)
  /\ \E keep \in BOOLEAN : (keep => hop[h].body) /\ hop'[h + 1] = Connecting(keep)
\* Or it does not: the promise, or a client that reported before.
Reports(f, h, how) ==
  /\ ReportOf(h)
  /\ \/ ~Waits(h) /\ fetch' = f /\ client' = client
     \/ /\ Waits(h) /\ how = "complete" /\ hop[h].handlers = "follow"
        /\ fetch' = [f EXCEPT !.stopped = "connect"]
        /\ client' = [client EXCEPT !.current = h + 1]
     \/ /\ Waits(h) /\ client' \in {client, [client EXCEPT !.current = 0]}
        /\ \E ok \in BOOLEAN :
             /\ ok => how = "complete" /\ hop[h].handlers = "deliver"
             /\ fetch' = FetchComplete(f, ok)

\* A client that reports, with or without a teardown.
Ended(h, how, down) ==
  [hop EXCEPT ![h].completed = TRUE, ![h].killed = @ \/ Marks(how),
              ![h].pinned = @ /\ ~down, ![h].torndown = @ \/ down,
              ![h].conn = CASE how = "complete" -> "idle"
                            [] how = "close" -> "closed"
                            [] OTHER -> @]

\* Ends reports, or follows a redirect.
LEMMA EndsCases ==
  ASSUME FetchSound, NEW f, NEW h \in Hops, NEW how \in {"abort", "timer", "complete", "close"},
         Up(h), Marks(how) => Waits(h), ~Marks(how) => event = NoEvent,
         Ends(f, h, how), how = "complete" => f = fetch
  PROVE  Reports(f, h, how) \/ (how = "complete" /\ Follows(h))
<1> DEFINE down == how \in {"complete", "close"} /\ Down(h)
           ok == Succeeded(how)
           follows == First(h) /\ ok /\ hop[h].handlers = "follow" /\ hop[h].location
           ended == Ended(h, how, down)
           at == CASE follows -> h + 1 [] how = "abort" -> 0 [] OTHER -> client.current
<1>1. PICK opens \in BOOLEAN, keep \in BOOLEAN :
    /\ keep => hop[h].body
    /\ fetch' = IF ~First(h) THEN f
                ELSE IF follows THEN [f EXCEPT !.stopped = IF opens THEN @ ELSE "connect"]
                ELSE FetchComplete(f, ok /\ hop[h].handlers = "deliver")
    /\ hop' = IF follows /\ opens THEN [ended EXCEPT ![h + 1] = Connecting(keep)] ELSE ended
    /\ refs' = refs - (IF down THEN 1 ELSE 0) + (IF follows /\ opens THEN 1 ELSE 0)
    /\ client' = [client EXCEPT !.current = CASE follows -> h + 1
                                              [] how = "abort" -> 0
                                              [] OTHER -> @]
  BY DEF Ends, Ended
<1>2. /\ hop \in [Hops -> HopSet] /\ hop[h] \in HopSet /\ refs \in Int
      /\ client \in [redirects : Nat, current : 0..(MaxRedirects + 1)]
      /\ fetch \in FetchSet /\ streaming \in BOOLEAN
      /\ Staged(h) /\ Counted(h) /\ hop[h].conn \in {"connecting", "body"}
  BY DEF FetchSound, Shapes, Staged
<1>3. /\ hop[h].pinned = TRUE /\ hop[h].torndown = FALSE
      /\ hop[h].completed \in BOOLEAN /\ hop[h].killed \in BOOLEAN
      /\ First(h) <=> Waits(h)
      /\ First(h) \in BOOLEAN
  BY <1>2, HopParts DEF Staged, Up, Waits, First
<1>4. down <=> how \in {"complete", "close"}
  BY <1>3 DEF Down
<1>5. ok <=> how = "complete"
  BY DEF Succeeded
<1>6. Marks(how) \in BOOLEAN /\ (Marks(how) <=> how \in {"abort", "timer"})
  BY DEF Marks
<1> HIDE DEF down
<1>7. down \in BOOLEAN
  BY DEF down
<1>8. /\ ended \in [Hops -> HopSet]
      /\ \A g \in Hops : g # h => ended[g] = hop[g]
      /\ ended[h].handlers = hop[h].handlers /\ ended[h].status = hop[h].status
      /\ ended[h].served = hop[h].served /\ ended[h].completed = TRUE
      /\ ended[h].killed <=> (hop[h].killed \/ Marks(how))
      /\ ended[h].pinned <=> (hop[h].pinned /\ ~down)
      /\ ended[h].torndown <=> (hop[h].torndown \/ down)
      /\ how = "complete" => ended[h].conn = "idle"
      /\ how = "close" => ended[h].conn = "closed"
      /\ how \notin {"complete", "close"} => ended[h].conn = hop[h].conn
      /\ ended[h].body = hop[h].body /\ ended[h].sendBuf = hop[h].sendBuf
      /\ ended[h].bodyDone = hop[h].bodyDone /\ ended[h].writable = hop[h].writable
      /\ ended[h].blocked = hop[h].blocked /\ ended[h].wire = hop[h].wire
  <2> DEFINE k == hop[h].killed \/ Marks(how)
             p == hop[h].pinned /\ ~down
             t == hop[h].torndown \/ down
             c == CASE how = "complete" -> "idle"
                    [] how = "close" -> "closed"
                    [] OTHER -> hop[h].conn
             e == [hop EXCEPT ![h].completed = TRUE, ![h].killed = @ \/ Marks(how),
                             ![h].pinned = @ /\ ~down, ![h].torndown = @ \/ down,
                             ![h].conn = CASE how = "complete" -> "idle"
                                           [] how = "close" -> "closed"
                                           [] OTHER -> @]
             x == [hop[h] EXCEPT !.completed = TRUE, !.killed = k, !.pinned = p,
                                 !.torndown = t, !.conn = c]
  <2>1. hop[h] \in HopSet /\ hop \in [Hops -> HopSet]
    BY <1>2
  <2>2. k \in BOOLEAN /\ p \in BOOLEAN /\ t \in BOOLEAN
    BY <1>6, <1>7, <2>1, HopParts
  <2>3. c \in {"none", "connecting", "body", "idle", "closed"}
    BY <1>6, <1>7, <2>1, HopParts
  <2>10. /\ how = "complete" => c = "idle"
         /\ how = "close" => c = "closed"
         /\ how \notin {"complete", "close"} => c = hop[h].conn
    OBVIOUS
  <2>4. e = [hop EXCEPT ![h] = x]
    BY <2>1
  <2> HIDE DEF k, p, t, c, e
  <2>5. /\ x.handlers = hop[h].handlers /\ x.status = hop[h].status
        /\ x.served = hop[h].served /\ x.completed = TRUE
        /\ x.killed = k /\ x.pinned = p /\ x.torndown = t /\ x.conn = c
        /\ x.body = hop[h].body /\ x.sendBuf = hop[h].sendBuf
        /\ x.bodyDone = hop[h].bodyDone /\ x.writable = hop[h].writable
        /\ x.blocked = hop[h].blocked /\ x.wire = hop[h].wire /\ x.location = hop[h].location
    BY <2>1 DEF HopSet
  <2>6. DOMAIN x = DOMAIN hop[h] /\ x = [a \in DOMAIN hop[h] |-> x[a]]
    OBVIOUS
  <2> HIDE DEF x
  <2>7. x \in HopSet
    <3>1. x.completed \in BOOLEAN
      BY <2>5, Zenon
    <3>2. /\ x.killed \in BOOLEAN /\ x.pinned \in BOOLEAN /\ x.torndown \in BOOLEAN
          /\ x.conn \in {"none", "connecting", "body", "idle", "closed"}
      BY <2>2, <2>3, <2>5, Zenon
    <3> QED
      BY <2>1, <2>5, <2>6, <3>1, <3>2, HopParts, HopType
  <2>8. /\ e \in [Hops -> HopSet] /\ (\A g \in Hops : g # h => e[g] = hop[g]) /\ e[h] = x
    BY <2>1, <2>4, <2>7
  <2>9. ended = e
    BY DEF Ended, e
  <2> QED
    BY <2>5, <2>8, <2>9, <2>10 DEF k, p, t
<1> HIDE DEF ended
<1>0. client' = [client EXCEPT !.current = at]
  BY <1>1
<1>9. follows => Waits(h) /\ how = "complete" /\ hop[h].handlers = "follow"
  BY <1>3, <1>5
<1> HIDE DEF ok, follows
<1>14. /\ follows => at = h + 1
       /\ ~follows /\ how = "abort" => at = 0
       /\ ~follows /\ how # "abort" => at = client.current
  <2>1. CASE follows
    BY <1>9, <2>1
  <2>2. CASE ~follows /\ how = "abort"
    BY <2>2
  <2>3. CASE ~follows /\ how # "abort"
    BY <2>3
  <2> HIDE DEF at
  <2> QED
    BY <2>1, <2>2, <2>3
<1> HIDE DEF at
<1>15. /\ ended[h].pinned \in BOOLEAN /\ ended[h].torndown \in BOOLEAN
       /\ ended[h].killed \in BOOLEAN
  <2>1. ended[h] \in HopSet
    BY <1>8
  <2> QED
    BY <2>1, HopParts
<1>10. down => /\ ended[h].pinned = FALSE /\ ended[h].torndown = TRUE
               /\ ended[h].conn \in {"idle", "closed"} /\ event = NoEvent
               /\ (how = "complete" => ended[h].conn = "idle")
  BY <1>3, <1>4, <1>6, <1>8, <1>15
<1>11. ~down => /\ ended[h].pinned = TRUE /\ ended[h].killed = TRUE
                /\ ended[h].torndown = hop[h].torndown /\ ended[h].conn = hop[h].conn
  BY <1>3, <1>4, <1>6, <1>8, <1>15
<1>12. CASE ~(follows /\ opens)
  <2>1. hop' = ended /\ refs' = refs - (IF down THEN 1 ELSE 0)
    BY <1>1, <1>2, <1>12
  <2>2. ReportOf(h)
    <3>1. Marked(h) \/ TornDown(h)
      BY <1>2, <1>10, <1>11, <2>1 DEF Marked, TornDown
    <3>2. SameUpload(h) /\ Others(h)
      BY <1>8, <2>1 DEF SameUpload, Others
    <3> QED
      BY <1>8, <2>1, <3>1, <3>2 DEF ReportOf
  <2>3. CASE ~First(h)
    <3>1. fetch' = f /\ how # "abort" /\ ~follows
      BY <1>1, <1>3, <1>6, <1>9, <2>3
    <3>2. client' = client
      BY <1>0, <1>2, <1>14, <3>1
    <3> QED
      BY <1>3, <2>2, <2>3, <3>1, <3>2 DEF Reports
  <2>4. CASE First(h) /\ follows
    <3>1. fetch' = [f EXCEPT !.stopped = "connect"]
      BY <1>1, <1>3, <1>12, <2>4
    <3>2. client' = [client EXCEPT !.current = h + 1]
      BY <1>0, <1>14, <2>4
    <3> QED
      BY <1>9, <2>2, <2>4, <3>1, <3>2 DEF Reports
  <2>5. CASE First(h) /\ ~follows
    <3> DEFINE good == ok /\ hop[h].handlers = "deliver"
    <3>1. fetch' = FetchComplete(f, good)
      BY <1>1, <1>3, <2>5
    <3>2. client' \in {client, [client EXCEPT !.current = 0]}
      BY <1>0, <1>2, <1>14, <2>5
    <3>3. good \in BOOLEAN /\ (good => how = "complete" /\ hop[h].handlers = "deliver")
      BY <1>5
    <3> HIDE DEF good
    <3> QED
      BY <1>3, <2>2, <2>5, <3>1, <3>2, <3>3 DEF Reports
  <2> QED
    BY <2>3, <2>4, <2>5
<1>13. CASE follows /\ opens
  <2>1. hop' = [ended EXCEPT ![h + 1] = Connecting(keep)] /\ down
    BY <1>1, <1>4, <1>9, <1>13
  <2>2. refs' = refs /\ client' = [client EXCEPT !.current = h + 1]
    <3>1. refs' = refs
      BY <1>1, <1>2, <1>13, <2>1
    <3> QED
      BY <1>0, <1>13, <1>14, <3>1
  <2>3. h + 1 \in Hops /\ h + 1 # h
    BY <1>2, <1>9, <1>13, FetchAssumption DEF Counted, Hops
  <2>4. Connecting(keep) \in HopSet
    BY <1>2, OpenedShape
  <2>5. /\ hop' \in [Hops -> HopSet] /\ hop'[h + 1] = Connecting(keep)
        /\ \A g \in Hops : g # h + 1 => hop'[g] = ended[g]
    BY <1>8, <2>1, <2>3, <2>4
  <2>6. hop'[h] = ended[h] /\ SameUpload(h)
    BY <1>8, <2>3, <2>5 DEF SameUpload
  <2>7. fetch' = fetch
    <3>1. f = fetch /\ fetch' = [f EXCEPT !.stopped = @]
      BY <1>1, <1>3, <1>9, <1>13
    <3> QED
      BY <1>2, <3>1 DEF FetchSet
  <2>8. \A g \in Hops : g \notin {h, h + 1} => hop'[g] = hop[g]
    BY <1>8, <2>5
  <2>9. Waits(h) /\ hop[h].handlers = "follow" /\ how = "complete"
    BY <1>9, <1>13
  <2>10. Follows(h)
    BY <1>1, <1>8, <1>10, <2>1, <2>2, <2>3, <2>5, <2>6, <2>7, <2>8, <2>9 DEF Follows
  <2> QED
    BY <2>9, <2>10
<1> QED
  BY <1>12, <1>13


\* A redirect that is followed.
LEMMA FollowsSound ==
  ASSUME FetchSound, NEW h \in Hops, Follows(h),
         UNCHANGED <<mode, streaming, event, upload, delivered>>
  PROVE  FetchSound'
<1>1. /\ Waits(h) /\ Up(h) /\ hop[h].handlers = "follow" /\ event = NoEvent
      /\ fetch' = fetch /\ refs' = refs /\ h + 1 \in Hops /\ hop' \in [Hops -> HopSet]
      /\ client' = [client EXCEPT !.current = h + 1]
  BY DEF Follows, Waits
<1>2. PICK k \in Hops : k = h + 1
  BY <1>1
<1>3. PICK keep \in BOOLEAN : (keep => hop[h].body) /\ hop'[k] = Connecting(keep)
  BY <1>2 DEF Follows
<1>4. /\ hop'[h].handlers = "follow" /\ hop'[h].status = hop[h].status
      /\ hop'[h].completed = TRUE /\ hop'[h].pinned = FALSE
      /\ hop'[h].torndown = TRUE /\ hop'[h].conn = "idle" /\ SameUpload(h)
  BY DEF Follows
<1>5. /\ hop'[k].handlers = "deliver" /\ hop'[k].status = "none"
      /\ hop'[k].pinned = TRUE /\ hop'[k].completed = FALSE
      /\ hop'[k].torndown = FALSE /\ hop'[k].conn = "connecting"
      /\ hop'[k].killed = FALSE /\ hop'[k].served = 0
  BY <1>3, OpenedHop DEF FetchSound
<1>6. \A g \in Hops : g \in Nat
  BY FetchAssumption DEF Hops
<1>7. /\ hop[h].conn \in {"connecting", "body"} /\ Staged(h) /\ Counted(h) /\ Framed(h)
      /\ client.current = h /\ fetch.completes = 0
  BY <1>1 DEF FetchSound, Staged, Known
<1>8. \A g \in Hops : h < g => ~Used(g)
  BY <1>7 DEF FetchSound, Chained
<1>9. ~Used(k) /\ ~Up(k) /\ k # h
  <2>1. h < k
    BY <1>2, <1>6
  <2>2. ~Used(k) /\ k # h
    BY <1>6, <1>8, <2>1
  <2>3. Staged(k)
    BY DEF FetchSound
  <2> QED
    BY <2>2, <2>3 DEF Staged, Up, Used
<1>10. \A g \in Hops : g # h /\ g # k => hop'[g] = hop[g]
  BY <1>2 DEF Follows
<1>11. \A g \in Hops : g # h /\ Used(g) => hop[g].handlers = "follow"
  BY <1>7, LastHop
<1>12. /\ client \in [redirects : Nat, current : 0..(MaxRedirects + 1)]
       /\ client' \in [redirects : Nat, current : 0..(MaxRedirects + 1)]
       /\ client'.redirects = client.redirects /\ client'.current = k
  <2>1. /\ client \in [redirects : Nat, current : 0..(MaxRedirects + 1)]
        /\ k \in 0..(MaxRedirects + 1)
    BY FetchAssumption DEF FetchSound, Shapes, Hops
  <2> QED
    BY <1>1, <1>2, <2>1
<1>13. Shapes'
  BY <1>1, <1>12 DEF FetchSound, Shapes
<1>14. /\ Up(k)' /\ Waits(k)' /\ Used(k)' /\ ~Up(h)' /\ ~Waits(h)' /\ Used(h)'
       /\ \A g \in Hops : g # h /\ g # k => /\ Up(g)' <=> Up(g)
                                            /\ Waits(g)' <=> Waits(g)
                                            /\ Used(g)' <=> Used(g)
  BY <1>4, <1>5, <1>10 DEF Up, Waits, Used
<1>15. RefsExact'
  <2> DEFINE up == {g \in Hops : Up(g)}
             rest == up \ {h}
  <2>1. refs = Cardinality(up) /\ IsFiniteSet(up) /\ h \in up /\ Cardinality(up) \in Nat
    BY <1>1, HopsFinite DEF FetchSound, RefsExact
  <2>2. {g \in Hops : Up(g)'} = rest \cup {k}
    BY <1>9, <1>14
  <2>3. k \notin rest
    BY <1>9
  <2> HIDE DEF up
  <2>4. IsFiniteSet(rest) /\ Cardinality(rest) = Cardinality(up) - 1
    BY <2>1, FS_RemoveElement
  <2> HIDE DEF rest
  <2>5. Cardinality(rest \cup {k}) = Cardinality(rest) + 1
    BY <2>3, <2>4, FS_AddElement
  <2> QED
    <3>1. Cardinality(rest \cup {k}) = refs
      BY <2>1, <2>4, <2>5
    <3>2. refs' = Cardinality({g \in Hops : Up(g)'})
      BY <1>1, <2>2, <3>1
    <3> QED
      BY <3>2 DEF RefsExact
<1>16. EventOK'
  BY <1>1 DEF EventOK
<1>17. Chained'
  <2> SUFFICES ASSUME NEW g \in Hops, NEW j \in Hops, g < j, Used(j)'
               PROVE  hop'[g].conn \in {"idle", "closed"} /\ hop'[g].handlers = "follow"
    BY DEF Chained
  <2>1. g # k
    <3>1. CASE j = k \/ j = h
      BY <1>2, <1>6, <3>1
    <3>2. CASE j # k /\ j # h
      BY <1>2, <1>6, <1>8, <1>14, <3>2
    <3> QED
      BY <3>1, <3>2
  <2>2. CASE g = h
    BY <1>4, <2>2
  <2>3. CASE g # h
    <3>1. Used(h)
      BY <1>7 DEF Used
    <3>2. g < h
      BY <1>2, <1>6, <1>8, <1>14, <2>3
    <3> QED
      BY <1>10, <2>1, <2>3, <3>1, <3>2 DEF FetchSound, Chained
  <2> QED
    BY <2>2, <2>3
<1>18. Awaited' /\ Named'
  BY <1>12, <1>14 DEF Awaited, Named
<1>19. Unsent'
  <2>1. Used(h)
    BY <1>7 DEF Used
  <2> QED
    BY <1>1, <1>14, <2>1 DEF FetchSound, Unsent
<1>20. \A g \in Hops : Staged(g)'
  <2> TAKE g \in Hops
  <2>1. CASE g = k
    BY <1>5, <2>1 DEF Staged, Up
  <2>2. CASE g = h
    BY <1>4, <1>7, <1>1, <2>2 DEF Staged, Up
  <2>3. CASE g # k /\ g # h
    BY <1>10, <2>3 DEF FetchSound, Staged, Up
  <2> QED
    BY <2>1, <2>2, <2>3
<1>21. \A g \in Hops : Counted(g)'
  <2> TAKE g \in Hops
  <2>1. CASE g = k
    BY <1>5, <2>1 DEF Counted
  <2>2. CASE g # k
    BY <1>1, <1>4, <1>10, <1>12, <2>2 DEF FetchSound, Counted
  <2> QED
    BY <2>1, <2>2
<1>22. \A g \in Hops : Known(g)'
  <2> TAKE g \in Hops
  <2>1. CASE g = k
    BY <1>1, <1>7, <1>12, <2>1 DEF Known
  <2>2. CASE g # k
    BY <1>1, <1>14, <2>2, OneWaits DEF Known
  <2> QED
    BY <2>1, <2>2
<1>23. \A g \in Hops : hop[g].handlers = "deliver" /\ Late(g) => FALSE
  <2> TAKE g \in Hops
  <2>1. CASE g = h
    BY <1>1, <2>1
  <2>2. CASE g # h
    BY <1>11, <2>2 DEF Late, Used
  <2> QED
    BY <2>1, <2>2
<1>24. Settling'
  BY <1>1, <1>23 DEF FetchSound, Settling, Late
<1>25. delivered \in Seq(Hops) /\ DOMAIN delivered = {} /\ Len(delivered) = 0
  <2>1. delivered \in Seq(Hops) /\ \A i \in DOMAIN delivered : delivered[i] \in Hops
    BY DEF FetchSound, Shapes
  <2>2. DOMAIN delivered = {}
    BY <1>23, <2>1 DEF FetchSound, Streamed, Late
  <2> QED
    BY <2>1, <2>2
<1>26. Streamed'
  <2>1. Streamed
    BY DEF FetchSound
  <2>2. DOMAIN delivered' = {} /\ Len(delivered') = Len(delivered)
    BY <1>25
  <2> QED
    BY <1>1, <2>1, <2>2 DEF Streamed
<1>27. \A g \in Hops : Served(g)'
  <2> TAKE g \in Hops
  <2>1. CASE g = k
    BY <1>5, <1>25, <2>1 DEF Served
  <2>2. CASE g = h
    BY <1>4, <2>2 DEF Served
  <2>3. CASE g # k /\ g # h
    BY <1>10, <1>11, <2>3 DEF Served, Used
  <2> QED
    BY <2>1, <2>2, <2>3
<1>28. UploadMoves' /\ \A g \in Hops : Framed(g)' /\ Chunked(g)'
  <2>1. \A g \in Hops :
          \/ /\ SameUpload(g)
             /\ Up(g)' /\ ~hop'[g].killed => Up(g) /\ ~hop[g].killed
          \/ \E body \in BOOLEAN :
               /\ body => ~streaming /\ MaxChunks > 0
               /\ hop'[g] = Connecting(body)
    <3> TAKE g \in Hops
    <3>1. CASE g = k
      <4>1. keep => ~streaming /\ MaxChunks > 0
        BY <1>3, <1>7 DEF Framed
      <4> QED
        BY <1>3, <3>1, <4>1
    <3>2. CASE g = h
      BY <1>4, <1>14, <3>2
    <3>3. CASE g # k /\ g # h
      BY <1>10, <3>3 DEF SameUpload, Up
    <3> QED
      BY <3>1, <3>2, <3>3
  <2> QED
    BY <2>1, UploadKept
<1> QED
  BY <1>13, <1>15, <1>16, <1>17, <1>18, <1>19, <1>20, <1>21, <1>22, <1>24, <1>26, <1>27, <1>28
     DEF FetchSound

\* What fetch.js changes before it aborts the client.
Aborting(f) ==
  /\ f \in FetchSet
  /\ f.completes = fetch.completes /\ f.phase = fetch.phase /\ f.timers = fetch.timers
  /\ f.resolved = fetch.resolved /\ f.controller = fetch.controller
  /\ f.stopped = fetch.stopped /\ f.status = fetch.status
  /\ f.signal = fetch.signal \/ f.signal # "intime" \/ ~fetch.resolved
  /\ f.promise = fetch.promise \/ f.promise = "rejected"
  /\ f.stream = fetch.stream \/ f.stream = "cancelled"

\* A report keeps the invariant: of an abort, a timeout, a response or a broken connection.
LEMMA ReportSound ==
  ASSUME FetchSound, fetch.stopped = "no", NEW f, NEW h \in Hops, NEW how, Up(h), Reports(f, h, how),
         UNCHANGED <<mode, streaming, event, delivered>>,
         f = fetch \/ (how = "abort" /\ Aborting(f) /\ Waits(h)),
         how = "complete" => hop[h].served = MaxData,
         upload' = upload \/ (LastRead /\ Waits(h))
  PROVE  FetchSound'
<1>1. /\ fetch \in FetchSet /\ hop' \in [Hops -> HopSet] /\ ReportOf(h) /\ Counted(h)
      /\ client \in [redirects : Nat, current : 0..(MaxRedirects + 1)]
      /\ upload \in [source : 0..MaxChunks, reads : Nat]
  BY DEF FetchSound, Shapes, Reports, ReportOf
<1>2. UploadMoves' /\ \A g \in Hops : Framed(g)' /\ Chunked(g)'
  <2>1. CASE upload' = upload
    BY <1>1, <2>1, ReportUpload
  <2>2. CASE LastRead /\ Waits(h)
    <3>1. ASSUME NEW g \in Hops
          PROVE  SameUpload(g) /\ ~(Up(g)' /\ ~hop'[g].killed)
      <4>1. CASE g = h
        BY <1>1, <4>1 DEF ReportOf, Marked, TornDown, Up
      <4>2. CASE g # h
        <5>1. hop'[g] = hop[g] /\ ~Waits(g)
          BY <1>1, <2>2, <4>2, OneWaits DEF ReportOf, Others
        <5> QED
          BY <5>1, OneWrites DEF SameUpload, Up
      <4> QED
        BY <4>1, <4>2
    <3> QED
      BY <2>2, <3>1, UploadStops
  <2> QED
    BY <2>1, <2>2
<1>3. upload' \in [source : 0..MaxChunks, reads : Nat]
  BY <1>1, FetchAssumption DEF LastRead
<1>4. refs' \in Int
  BY DEF FetchSound, Shapes, Reports, ReportOf, Marked, TornDown
<1>5. CASE ~Waits(h) /\ fetch' = f /\ client' = client
  <2>1. fetch' = fetch
    BY <1>5
  <2>2. Settling' /\ Streamed' /\ \A g \in Hops : Served(g)'
    BY <1>1, <2>1, ReportAgain
  <2>3. /\ RefsExact' /\ EventOK' /\ Chained' /\ Awaited' /\ Named' /\ Unsent'
        /\ \A g \in Hops : Staged(g)' /\ Counted(g)' /\ Known(g)'
    BY <1>1, <1>5, <2>1, ReportLife
  <2>4. Shapes'
    BY <1>1, <1>3, <1>4, <1>5, <2>1 DEF FetchSound, Shapes
  <2> QED
    BY <1>2, <2>2, <2>3, <2>4 DEF FetchSound
<1>6. CASE /\ Waits(h) /\ how = "complete" /\ hop[h].handlers = "follow"
           /\ fetch' = [f EXCEPT !.stopped = "connect"]
           /\ client' = [client EXCEPT !.current = h + 1]
  <2>1. fetch' = [fetch EXCEPT !.stopped = "connect"]
    BY <1>6
  <2>2. /\ fetch' \in FetchSet /\ Settling' /\ Streamed' /\ \A g \in Hops : Served(g)'
        /\ fetch'.completes = fetch.completes /\ fetch'.phase = fetch.phase
        /\ fetch'.status = fetch.status
    BY <1>1, <2>1, ReportAgain
  <2>3. fetch'.stopped = "connect"
    BY <1>1, <2>1 DEF FetchSet
  <2>4. /\ client' \in [redirects : Nat, current : 0..(MaxRedirects + 1)]
        /\ client'.redirects = client.redirects
    <3>1. h + 1 \in 0..(MaxRedirects + 1)
      BY <1>1, <1>6, FetchAssumption DEF Counted, Hops
    <3> QED
      BY <1>1, <1>6, <3>1
  <2>5. /\ RefsExact' /\ EventOK' /\ Chained' /\ Awaited' /\ Named' /\ Unsent'
        /\ \A g \in Hops : Staged(g)' /\ Counted(g)' /\ Known(g)'
    BY <1>1, <1>6, <2>2, <2>3, <2>4, ReportLife
  <2>6. Shapes'
    BY <1>1, <1>3, <1>4, <2>2, <2>4 DEF FetchSound, Shapes
  <2> QED
    BY <1>2, <2>2, <2>5, <2>6 DEF FetchSound
<1>7. ASSUME Waits(h), client' \in {client, [client EXCEPT !.current = 0]},
             NEW ok \in BOOLEAN, ok => how = "complete" /\ hop[h].handlers = "deliver",
             fetch' = FetchComplete(f, ok)
      PROVE  FetchSound'
  <2>1. /\ f \in FetchSet
        /\ f.completes = fetch.completes /\ f.phase = fetch.phase /\ f.timers = fetch.timers
        /\ f.resolved = fetch.resolved /\ f.controller = fetch.controller
        /\ f.stopped = fetch.stopped /\ f.status = fetch.status
        /\ f.signal = fetch.signal \/ (~ok /\ (f.signal # "intime" \/ ~fetch.resolved))
        /\ f.promise = fetch.promise \/ f.promise = "rejected"
        /\ f.stream = fetch.stream \/ (f.stream = "cancelled" /\ ~ok)
    <3>1. CASE f = fetch
      BY <1>1, <3>1
    <3>2. CASE how = "abort" /\ Aborting(f)
      BY <1>7, <3>2 DEF Aborting
    <3> QED
      BY <3>1, <3>2
  <2>2. PICK e \in FetchSet : e = f
    BY <2>1
  <2>3. /\ fetch' \in FetchSet /\ fetch'.completes = 1 /\ fetch'.stopped = fetch.stopped
        /\ fetch'.phase = fetch.phase /\ fetch'.status = fetch.status
        /\ Settling' /\ Streamed' /\ \A g \in Hops : Served(g)'
    BY <1>1, <1>7, <2>1, ReportPromise
  <2>4. /\ client' \in [redirects : Nat, current : 0..(MaxRedirects + 1)]
        /\ client'.redirects = client.redirects
        /\ client'.current \in {0, client.current}
    <3>1. 0 \in 0..(MaxRedirects + 1)
      BY FetchAssumption
    <3>2. CASE client' = client
      BY <1>1, <3>2
    <3>3. CASE client' = [client EXCEPT !.current = 0]
      BY <1>1, <3>1, <3>3
    <3> QED
      BY <1>7, <3>2, <3>3
  <2>5. /\ RefsExact' /\ EventOK' /\ Chained' /\ Awaited' /\ Named' /\ Unsent'
        /\ \A g \in Hops : Staged(g)' /\ Counted(g)' /\ Known(g)'
    BY <1>1, <1>7, <2>3, <2>4, ReportLife
  <2>6. Shapes'
    BY <1>1, <1>3, <1>4, <2>3, <2>4 DEF FetchSound, Shapes
  <2> QED
    BY <1>2, <2>3, <2>5, <2>6 DEF FetchSound
<1> QED
  BY <1>5, <1>6, <1>7 DEF Reports

----------------------------------------------------------------------------
(* The steps that end a request.                                           *)

\* HttpClient.abort ends the client that waits, if there is one.
LEMMA ClientAborts ==
  ASSUME FetchSound, fetch.stopped = "no", NEW f, Aborting(f), ClientAbort(f),
         UNCHANGED <<mode, streaming, event, delivered>>,
         upload' = upload \/ LastRead,
         (\A h \in Hops : ~Waits(h)) /\ fetch' = f /\ hop' = hop
           => Settling' /\ Streamed' /\ Unsent'
  PROVE  FetchSound'
<1>1. PICK h : h = client.current
  OBVIOUS
<1>2. h # 0 => h \in Hops
  BY <1>1 DEF FetchSound, Named
<1>3. \A g \in Hops : Waits(g) => g = h /\ h # 0
  BY <1>1, FetchAssumption DEF FetchSound, Known, Hops
<1>4. CASE h # 0 /\ Up(h) /\ ~hop[h].completed
  <2>1. Waits(h) /\ Up(h) /\ h \in Hops
    BY <1>2, <1>4 DEF Waits
  <2>2. Ends(f, h, "abort")
    BY <1>1, <1>4 DEF ClientAbort
  <2>3. Marks("abort")
    BY DEF Marks
  <2>4. Reports(f, h, "abort")
    BY <2>1, <2>2, <2>3, EndsCases
  <2> QED
    BY <2>1, <2>4, ReportSound
<1>5. CASE ~(h # 0 /\ Up(h) /\ ~hop[h].completed)
  <2>1. /\ fetch' = f /\ client' = [client EXCEPT !.current = 0]
        /\ hop' = hop /\ refs' = refs
    BY <1>1, <1>5 DEF ClientAbort
  <2>2. \A g \in Hops : ~Waits(g)
    BY <1>3, <1>5 DEF Waits
  <2>3. /\ client' \in [redirects : Nat, current : 0..(MaxRedirects + 1)]
        /\ client'.redirects = client.redirects /\ client'.current = 0
    <3>1. /\ client \in [redirects : Nat, current : 0..(MaxRedirects + 1)]
          /\ 0 \in 0..(MaxRedirects + 1)
      BY FetchAssumption DEF FetchSound, Shapes
    <3> QED
      BY <2>1, <3>1
  <2>4. Settling' /\ Streamed' /\ Unsent'
    BY <2>1, <2>2
  <2>5. /\ fetch' \in FetchSet /\ fetch'.completes = fetch.completes
        /\ fetch'.stopped = fetch.stopped /\ fetch'.status = fetch.status
    BY <2>1 DEF Aborting
  <2> QED
    BY <2>1, <2>2, <2>3, <2>4, <2>5, PromiseStep
<1> QED
  BY <1>4, <1>5

\* The signal aborts.
LEMMA SignalAbortsSound ==
  ASSUME FetchSound, fetch.stopped = "no", SignalAborts
  PROVE  FetchSound'
<1> DEFINE when == IF fetch.phase # "sent" THEN "early"
                   ELSE IF fetch.resolved \/ fetch.completes > 0 THEN "late" ELSE "intime"
           f == [fetch EXCEPT !.signal = when]
<1>1. /\ UNCHANGED <<mode, streaming, event, upload, delivered>>
      /\ IF fetch.phase = "sent" /\ fetch.completes = 0
         THEN ClientAbort(f)
         ELSE fetch' = f /\ UNCHANGED <<client, hop, refs>>
  BY DEF SignalAborts, Script
<1>2. /\ fetch \in FetchSet /\ fetch.completes \in 0..1
      /\ client \in [redirects : Nat, current : 0..(MaxRedirects + 1)]
  BY FetchParts DEF FetchSound, Shapes
<1>3. /\ when \in {"early", "intime", "late"}
      /\ when = "intime" => fetch.phase = "sent" /\ ~fetch.resolved /\ fetch.completes = 0
  BY <1>2
<1> HIDE DEF when
<1>4. /\ f \in FetchSet /\ f.signal = when
      /\ f.completes = fetch.completes /\ f.phase = fetch.phase /\ f.timers = fetch.timers
      /\ f.resolved = fetch.resolved /\ f.controller = fetch.controller
      /\ f.stopped = fetch.stopped /\ f.status = fetch.status
      /\ f.promise = fetch.promise /\ f.stream = fetch.stream
  BY <1>2, <1>3 DEF FetchSet
<1> HIDE DEF f
<1>5. Aborting(f)
  BY <1>3, <1>4 DEF Aborting
<1>6. ASSUME fetch' = f, hop' = hop, when = "intime" => fetch.promise = "rejected"
      PROVE  Settling' /\ Streamed' /\ Unsent'
  <2>1. Settling'
    BY <1>3, <1>4, <1>6 DEF FetchSound, Settling
  <2>2. Streamed'
    BY <1>1, <1>4, <1>6 DEF FetchSound, Streamed
  <2>3. Unsent'
    BY <1>1, <1>4, <1>6 DEF FetchSound, Unsent, Used
  <2> QED
    BY <2>1, <2>2, <2>3
<1>7. CASE fetch.phase = "sent" /\ fetch.completes = 0
  <2>1. ASSUME \A h \in Hops : ~Waits(h)
        PROVE  fetch.promise = "rejected"
    BY <1>7, <2>1 DEF FetchSound, Awaited, Unsent
  <2>2. ClientAbort(f)
    BY <1>1, <1>7
  <2> QED
    BY <1>1, <1>5, <1>6, <2>1, <2>2, ClientAborts
<1>8. CASE ~(fetch.phase = "sent" /\ fetch.completes = 0)
  <2>1. fetch' = f /\ UNCHANGED <<client, hop, refs>>
    BY <1>1, <1>8
  <2>2. Settling' /\ Streamed' /\ Unsent'
    BY <1>3, <1>6, <1>8, <2>1
  <2> QED
    BY <1>1, <1>2, <1>4, <2>1, <2>2, PromiseStep
<1> QED
  BY <1>7, <1>8

\* cancel() of the body.
LEMMA CancelBodySound ==
  ASSUME FetchSound, fetch.stopped = "no", CancelBody
  PROVE  FetchSound'
<1> DEFINE f == [fetch EXCEPT !.stream = "cancelled"]
<1>1. /\ UNCHANGED <<mode, streaming, event, upload, delivered>>
      /\ fetch.promise = "resolved" /\ ClientAbort(f)
  BY DEF CancelBody, Script
<1>2. fetch \in FetchSet
  BY DEF FetchSound, Shapes
<1>3. /\ f \in FetchSet /\ f.signal = fetch.signal
      /\ f.completes = fetch.completes /\ f.phase = fetch.phase /\ f.timers = fetch.timers
      /\ f.resolved = fetch.resolved /\ f.controller = fetch.controller
      /\ f.stopped = fetch.stopped /\ f.status = fetch.status
      /\ f.promise = fetch.promise /\ f.stream = "cancelled"
  BY <1>2 DEF FetchSet
<1> HIDE DEF f
<1>4. Aborting(f)
  BY <1>3 DEF Aborting
<1>5. ASSUME \A h \in Hops : ~Waits(h), fetch' = f, hop' = hop
      PROVE  Settling' /\ Streamed' /\ Unsent'
  <2>1. \E h \in Hops : Used(h)
    BY <1>1 DEF FetchSound, Settling, Used
  <2>2. fetch.completes # 0 /\ ~fetch.controller
    BY <1>5, <2>1 DEF FetchSound, Awaited, Streamed
  <2>3. Settling'
    BY <1>3, <1>5 DEF FetchSound, Settling
  <2>4. Streamed'
    BY <1>1, <1>3, <1>5, <2>2 DEF FetchSound, Streamed
  <2>5. Unsent'
    BY <1>1, <1>3, <1>5 DEF FetchSound, Unsent, Used
  <2> QED
    BY <2>3, <2>4, <2>5
<1> QED
  BY <1>1, <1>4, <1>5, ClientAborts

\* The body stream fails.
LEMMA ReadFailsSound ==
  ASSUME FetchSound, fetch.stopped = "no", ReadFails
  PROVE  FetchSound'
<1>1. PICK reject \in BOOLEAN :
         ClientAbort([fetch EXCEPT !.promise = IF reject /\ @ = "pending" THEN "rejected" ELSE @])
  BY DEF ReadFails
<1> DEFINE p == IF reject /\ fetch.promise = "pending" THEN "rejected" ELSE fetch.promise
           f == [fetch EXCEPT !.promise = p]
<1>2. /\ UNCHANGED <<mode, streaming, event, delivered>>
      /\ upload' = [source |-> 0, reads |-> upload.reads - 1] /\ upload.reads > 0
  BY DEF ReadFails
<1>3. /\ fetch \in FetchSet /\ upload \in [source : 0..MaxChunks, reads : Nat]
      /\ 1 \in Hops
  BY FetchAssumption DEF FetchSound, Shapes, Hops
<1>4. ClientAbort(f)
  BY <1>1
<1>5. p = fetch.promise \/ (p = "rejected" /\ fetch.promise = "pending")
  OBVIOUS
<1>6. p \in {"pending", "resolved", "rejected"}
  BY <1>3, <1>5, FetchParts
<1> HIDE DEF p
<1>7. /\ f \in FetchSet /\ f.signal = fetch.signal
      /\ f.completes = fetch.completes /\ f.phase = fetch.phase /\ f.timers = fetch.timers
      /\ f.resolved = fetch.resolved /\ f.controller = fetch.controller
      /\ f.stopped = fetch.stopped /\ f.status = fetch.status
      /\ f.promise = p /\ f.stream = fetch.stream
  BY <1>3, <1>6 DEF FetchSet
<1> HIDE DEF f
<1>8. Aborting(f)
  BY <1>5, <1>7 DEF Aborting
<1>9. LastRead
  <2>1. upload.reads - 1 \in Nat /\ 0 \in 0..upload.source /\ streaming
    BY <1>2, <1>3 DEF FetchSound, Chunked
  <2> QED
    BY <1>2, <2>1 DEF LastRead
<1>10. ASSUME fetch' = f, hop' = hop
       PROVE  Settling' /\ Streamed' /\ Unsent'
  <2>1. PICK h \in Hops : Used(h)
    BY <1>2, <1>3 DEF FetchSound, Unsent
  <2>2. Used(h)' /\ fetch.phase = "sent"
    BY <1>10, <2>1 DEF FetchSound, Unsent, Used
  <2>3. Settling'
    BY <1>5, <1>7, <1>10 DEF FetchSound, Settling
  <2>4. Streamed'
    BY <1>2, <1>7, <1>10 DEF FetchSound, Streamed
  <2>5. Unsent'
    BY <1>7, <1>10, <2>2 DEF Unsent
  <2> QED
    BY <2>3, <2>4, <2>5
<1> QED
  BY <1>2, <1>4, <1>8, <1>9, <1>10, ClientAborts

\* COMPLETED_CLIENT_HTTP, the timer, and the end of a connection.
LEMMA CompletedSound ==
  ASSUME FetchSound, fetch.stopped = "no", NEW h \in Hops, Completed(h)
  PROVE  FetchSound'
<1>1. /\ UNCHANGED <<mode, streaming, event, upload, delivered>> /\ event = NoEvent
      /\ hop[h].conn = "body" /\ hop[h].served = MaxData /\ Ends(fetch, h, "complete")
  BY DEF Completed, Callback
<1>2. Up(h)
  BY <1>1 DEF FetchSound, Staged
<1>3. Marks("complete") = FALSE
  BY DEF Marks
<1>4. Reports(fetch, h, "complete") \/ Follows(h)
  BY <1>1, <1>2, <1>3, EndsCases
<1> QED
  BY <1>1, <1>2, <1>4, FollowsSound, ReportSound

\* TIMER.
LEMMA TimedOutSound ==
  ASSUME FetchSound, fetch.stopped = "no", NEW h \in Hops, TimedOut(h)
  PROVE  FetchSound'
<1>1. /\ UNCHANGED <<mode, streaming, event, upload, delivered>>
      /\ hop[h].conn \in {"connecting", "body"} /\ ~hop[h].completed
      /\ Ends(fetch, h, "timer")
  BY DEF TimedOut, Callback
<1>2. Up(h) /\ Waits(h)
  BY <1>1 DEF FetchSound, Staged, Waits
<1>3. Marks("timer") = TRUE
  BY DEF Marks
<1>4. Reports(fetch, h, "timer")
  BY <1>1, <1>2, <1>3, EndsCases
<1> QED
  BY <1>1, <1>2, <1>4, ReportSound

\* The connection of a request that is over is closed.
LEMMA IdleClosedSound ==
  ASSUME FetchSound, NEW h \in Hops, hop[h].conn = "idle", event = NoEvent,
         hop' = [hop EXCEPT ![h].conn = "closed"],
         UNCHANGED <<mode, streaming, fetch, client, refs, event, upload, delivered>>
  PROVE  FetchSound'
<1>1. hop \in [Hops -> HopSet] /\ hop[h] \in HopSet
  BY DEF FetchSound, Shapes
<1> DEFINE x == [hop[h] EXCEPT !.conn = "closed"]
<1>2. /\ x \in HopSet /\ x.conn = "closed"
      /\ x.handlers = hop[h].handlers /\ x.status = hop[h].status
      /\ x.pinned = hop[h].pinned /\ x.completed = hop[h].completed
      /\ x.torndown = hop[h].torndown /\ x.killed = hop[h].killed
      /\ x.served = hop[h].served
      /\ x.body = hop[h].body /\ x.sendBuf = hop[h].sendBuf
      /\ x.bodyDone = hop[h].bodyDone /\ x.writable = hop[h].writable
      /\ x.blocked = hop[h].blocked /\ x.wire = hop[h].wire
  BY <1>1 DEF HopSet
<1>3. hop' = [hop EXCEPT ![h] = x]
  BY <1>1
<1> HIDE DEF x
<1>4. hop' \in [Hops -> HopSet] /\ Others(h) /\ hop'[h] = x
  BY <1>1, <1>2, <1>3, HopUpdated
<1>5. \A g \in Hops : /\ Used(g)' <=> Used(g)
                      /\ Up(g)' <=> Up(g)
                      /\ Waits(g)' <=> Waits(g)
                      /\ Late(g)' <=> Late(g)
                      /\ hop'[g].handlers = hop[g].handlers
                      /\ hop'[g].served = hop[g].served
                      /\ hop'[g].killed = hop[g].killed
                      /\ hop'[g].conn \in {"idle", "closed"} <=> hop[g].conn \in {"idle", "closed"}
                      /\ SameUpload(g)
  <2> TAKE g \in Hops
  <2>1. CASE g = h
    BY <1>2, <1>4, <2>1 DEF Used, Up, Waits, Late, SameUpload
  <2>2. CASE g # h
    BY <1>4, <2>2 DEF Others, Used, Up, Waits, Late, SameUpload
  <2> QED
    BY <2>1, <2>2
<1>6. Shapes'
  BY <1>4 DEF FetchSound, Shapes
<1>7. RefsExact'
  <2>1. {g \in Hops : Up(g)'} = {g \in Hops : Up(g)}
    BY <1>5
  <2> QED
    BY <2>1 DEF FetchSound, RefsExact
<1>8. EventOK'
  BY DEF EventOK
<1>9. Chained'
  BY <1>5 DEF FetchSound, Chained
<1>10. Awaited' /\ Named' /\ Unsent'
  BY <1>5 DEF FetchSound, Awaited, Named, Unsent
<1>11. \A g \in Hops : Counted(g)' /\ Known(g)'
  BY <1>5 DEF FetchSound, Counted, Known
<1>12. \A g \in Hops : Staged(g)'
  <2> TAKE g \in Hops
  <2>1. Staged(g)
    BY DEF FetchSound
  <2>2. CASE g = h
    BY <1>2, <1>4, <2>1, <2>2 DEF Staged, Up
  <2>3. CASE g # h
    BY <1>4, <2>1, <2>3 DEF Others, Staged, Up
  <2> QED
    BY <2>2, <2>3
<1>13. Settling' /\ Streamed' /\ \A g \in Hops : Served(g)'
  BY <1>5, BodyKept
<1>14. UploadMoves' /\ \A g \in Hops : Framed(g)' /\ Chunked(g)'
  BY <1>5, UploadKept
<1> QED
  BY <1>6, <1>7, <1>8, <1>9, <1>10, <1>11, <1>12, <1>13, <1>14 DEF FetchSound

\* CLOSED_CLIENT_HTTP, of a request or of a connection that is kept.
LEMMA ClosedSound ==
  ASSUME FetchSound, fetch.stopped = "no", NEW h \in Hops, Closed(h)
  PROVE  FetchSound'
<1>1. /\ UNCHANGED <<mode, streaming, event, upload, delivered>> /\ event = NoEvent
      /\ hop[h].conn \in {"connecting", "body", "idle"}
      /\ IF hop[h].conn = "idle" /\ ~Down(h)
         THEN hop' = [hop EXCEPT ![h].conn = "closed"] /\ UNCHANGED <<fetch, client, refs>>
         ELSE Ends(fetch, h, "close")
  BY DEF Closed, Callback
<1>2. hop[h].conn = "idle" => ~Down(h)
  BY DEF FetchSound, Staged, Down
<1>3. CASE hop[h].conn = "idle"
  BY <1>1, <1>2, <1>3, IdleClosedSound
<1>4. CASE hop[h].conn \in {"connecting", "body"}
  <2>1. Up(h)
    BY <1>4 DEF FetchSound, Staged
  <2>2. Marks("close") = FALSE
    BY DEF Marks
  <2>3. Ends(fetch, h, "close")
    BY <1>1, <1>4
  <2>4. Reports(fetch, h, "close")
    BY <1>1, <2>1, <2>2, <2>3, EndsCases
  <2> QED
    BY <1>1, <2>1, <2>4, ReportSound
<1> QED
  BY <1>1, <1>3, <1>4

----------------------------------------------------------------------------
(* The invariant.                                                          *)

\* No request yet.
LEMMA FetchInitSound == FetchInit => FetchSound
<1> SUFFICES ASSUME FetchInit
             PROVE  FetchSound
  OBVIOUS
<1>1. /\ mode \in {"follow", "error", "manual"} /\ streaming \in BOOLEAN
      /\ fetch = [phase |-> "idle", signal |-> "none", promise |-> "pending", timers |-> <<>>,
                  resolved |-> FALSE, status |-> "none", controller |-> TRUE,
                  stream |-> "readable", completes |-> 0, stopped |-> "no"]
      /\ client = [redirects |-> 0, current |-> 0]
      /\ hop = [h \in Hops |-> NewHop]
      /\ refs = 0 /\ event = NoEvent /\ delivered = <<>>
      /\ upload = [source |-> MaxChunks, reads |-> 0]
  BY DEF FetchInit
<1>2. MaxChunks \in Nat /\ 0 \in 0..(MaxRedirects + 1) /\ MaxChunks \in 0..MaxChunks
      /\ 0 \in 0..1
  BY FetchAssumption
<1>3. /\ fetch \in FetchSet /\ fetch.timers = <<>> /\ fetch.completes = 0
      /\ fetch.resolved = FALSE /\ fetch.promise = "pending" /\ fetch.signal = "none"
      /\ fetch.stopped = "no" /\ fetch.phase = "idle" /\ fetch.controller = TRUE
      /\ fetch.stream = "readable"
  <2>1. <<>> \in Seq({"resolved", "rejected"})
    OBVIOUS
  <2> QED
    BY <1>1, <1>2, <2>1 DEF FetchSet
<1>4. \A h \in Hops : hop[h] = NewHop
  BY <1>1
<1>5. /\ NewHop.handlers = "deliver" /\ NewHop.status = "none" /\ NewHop.pinned = FALSE
      /\ NewHop.completed = FALSE /\ NewHop.torndown = FALSE /\ NewHop.conn = "none"
      /\ NewHop.killed = FALSE /\ NewHop.body = FALSE /\ NewHop.served = 0
      /\ NewHop.sendBuf = <<>> /\ NewHop.bodyDone = FALSE /\ NewHop.writable = FALSE
      /\ NewHop.blocked = FALSE /\ NewHop.wire = <<>>
  BY DEF NewHop
<1>6. Shapes
  <2>1. hop \in [Hops -> HopSet]
    BY <1>1, NewHopShape
  <2>2. client \in [redirects : Nat, current : 0..(MaxRedirects + 1)]
    BY <1>1, <1>2
  <2>3. delivered \in Seq(Hops) /\ upload \in [source : 0..MaxChunks, reads : Nat]
    BY <1>1, <1>2
  <2> QED
    BY <1>1, <1>3, <2>1, <2>2, <2>3 DEF Shapes
<1>7. \A h \in Hops : ~Up(h) /\ ~Used(h) /\ ~Waits(h)
  BY <1>4, <1>5 DEF Up, Used, Waits
<1>8. RefsExact
  <2>1. {h \in Hops : Up(h)} = {}
    BY <1>7
  <2> QED
    BY <1>1, <2>1, FS_EmptySet DEF RefsExact
<1>9. EventOK /\ Chained /\ Awaited /\ Named
  BY <1>1, <1>7 DEF EventOK, Chained, Awaited, Named
<1>10. Unsent
  BY <1>1, <1>3, <1>7 DEF Unsent
<1>11. Settling
  BY <1>3 DEF Settling
<1>12. Streamed
  BY <1>1, <1>3 DEF Streamed
<1>13. UploadMoves
  BY <1>7 DEF UploadMoves
<1>14. \A h \in Hops : Staged(h) /\ Counted(h) /\ Known(h) /\ Served(h)
  BY <1>1, <1>4, <1>5, <1>7 DEF Staged, Counted, Known, Served, Up
<1>15. \A h \in Hops : Framed(h) /\ Chunked(h)
  BY <1>1, <1>4, <1>5 DEF Framed, Chunked, Rising, Under, Behind, Sent
<1> QED
  BY <1>6, <1>8, <1>9, <1>10, <1>11, <1>12, <1>13, <1>14, <1>15 DEF FetchSound

\* Every step keeps the invariant.
LEMMA FetchNextSound ==
  ASSUME FetchSound, [FetchNext]_fetchVars
  PROVE  FetchSound'
<1>1. CASE UNCHANGED fetchVars
  <2>1. UNCHANGED <<mode, streaming, fetch, client, hop, refs, event, upload, delivered>>
    BY <1>1 DEF fetchVars
  <2>2. /\ Still /\ fetch \in FetchSet
        /\ client \in [redirects : Nat, current : 0..(MaxRedirects + 1)]
    BY <2>1 DEF Still, SameStage, FetchSound, Shapes
  <2>3. Settling' /\ Streamed' /\ Unsent'
    BY <2>1 DEF FetchSound, Settling, Streamed, Unsent, Used
  <2> QED
    BY <2>1, <2>2, <2>3, PromiseStep
<1>2. CASE FetchNext
  <2>1. fetch.stopped = "no"
    BY <1>2 DEF FetchNext
  <2>2. CASE Call
    BY <2>2, CallSound
  <2>3. CASE SignalAborts
    BY <2>1, <2>3, SignalAbortsSound
  <2>4. CASE CancelBody
    BY <2>1, <2>4, CancelBodySound
  <2>5. CASE SendRequest
    BY <2>5, SendRequestSound
  <2>6. CASE TimerFires
    BY <2>6, TimerFiresSound
  <2>7. CASE ReadSettles
    BY <2>1, <2>7, ReadSettlesSound
  <2>8. CASE ReadFails
    BY <2>1, <2>8, ReadFailsSound
  <2>9. ASSUME NEW h \in Hops,
               \/ Established(h) \/ OnStatus(h) \/ OnHeader(h) \/ OnHeadersEnd(h) \/ Read(h)
        PROVE  FetchSound'
    BY <2>9, EstablishedSound, OnStatusSound, OnHeaderSound, OnHeadersEndSound, ReadSound
  <2>10. ASSUME NEW h \in Hops, Completed(h) \/ TimedOut(h) \/ Closed(h)
         PROVE  FetchSound'
    BY <2>1, <2>10, CompletedSound, TimedOutSound, ClosedSound
  <2>11. ASSUME NEW h \in Hops, WriteStream(h) \/ WriteBody(h) \/ WindowUpdate(h)
         PROVE  FetchSound'
    BY <2>11, WriteStreamSound, WriteBodySound, WindowUpdateSound
  <2> QED
    BY <1>2, <2>2, <2>3, <2>4, <2>5, <2>6, <2>7, <2>8, <2>9, <2>10, <2>11 DEF FetchNext
<1> QED
  BY <1>1, <1>2

\* The invariant of a request holds.
LEMMA FetchInvariance == FetchSpec => []FetchSound
<1>1. FetchSound /\ [FetchNext]_fetchVars => FetchSound'
  BY FetchNextSound
<1> QED
  BY FetchInitSound, <1>1, PTL DEF FetchSpec

----------------------------------------------------------------------------
(* The theorems.                                                           *)

\* The native clients of a request: the loop is held once for each one that is not
\* torn down, at most one waits for its response, and no more than kMaxRedirects
\* redirects are followed.
THEOREM ClientsSoundHolds == FetchSpec => []ClientsSound
<1>1. ASSUME FetchSound
      PROVE  ClientsSound
  <2>1. /\ \A h \in Hops : hop[h] \in HopSet
        /\ fetch \in FetchSet /\ fetch.timers \in Seq({"resolved", "rejected"})
        /\ client \in [redirects : Nat, current : 0..(MaxRedirects + 1)]
        /\ fetch.completes \in 0..1 /\ MaxRedirects \in Nat
    BY <1>1, FetchParts, FetchAssumption DEF FetchSound, Shapes
  <2>2. Len(fetch.timers) <= 2
    BY <1>1, <2>1 DEF FetchSound, Settling
  <2>3. FetchTypeOK
    <3>1. /\ mode \in {"follow", "error", "manual"} /\ streaming \in BOOLEAN /\ refs \in Int
      BY <1>1 DEF FetchSound, Shapes
    <3>2. /\ fetch.phase \in {"idle", "queued", "sent"}
          /\ fetch.signal \in {"none", "early", "intime", "late"}
          /\ fetch.promise \in {"pending", "resolved", "rejected"}
          /\ fetch.stream \in {"readable", "closed", "errored", "cancelled"}
      BY <2>1, FetchParts
    <3>3. \A h \in Hops : /\ hop[h].handlers \in {"deliver", "follow", "fail"}
                          /\ hop[h].conn \in {"none", "connecting", "body", "idle", "closed"}
      BY <2>1, HopParts
    <3>4. client.redirects \in Nat /\ client.current \in 0..(MaxRedirects + 2)
      BY <2>1
    <3> QED
      BY <2>1, <2>2, <3>1, <3>2, <3>3, <3>4 DEF FetchTypeOK
  <2>4. OneClient
    <3> DEFINE W == {h \in Hops : Up(h) /\ ~hop[h].completed}
    <3>1. \A g, h \in W : g = h
      BY <1>1, OneWaits DEF Waits
    <3>2. Cardinality(W) <= 1
      <4>1. CASE W = {}
        BY <4>1, FS_EmptySet
      <4>2. CASE W # {}
        <5>1. PICK h \in W : TRUE
          BY <4>2
        <5>2. W = {h}
          BY <3>1, <5>1
        <5> HIDE DEF W
        <5>3. Cardinality({h}) = 1
          BY FS_Singleton
        <5> QED
          BY <5>2, <5>3
      <4> QED
        BY <4>1, <4>2
    <3>3. client.current <= MaxRedirects + 1
      BY <2>1
    <3> QED
      BY <3>2, <3>3 DEF OneClient
  <2> QED
    BY <1>1, <2>3, <2>4 DEF ClientsSound, FetchSound
<1> QED
  BY FetchInvariance, <1>1, PTL

\* What scripts see of a response: a body that ends is whole and of one response, a fetch
\* that was aborted after its request was sent and before its response does not resolve,
\* and no callback uses a stream that scripts closed.  An abort before the request was sent
\* may be lost (AbortBeforeResponse).
THEOREM BodySoundHolds == FetchSpec => []BodySound
<1>1. ASSUME FetchSound
      PROVE  BodySound
  <2>1. Settling /\ Streamed
    BY <1>1 DEF FetchSound
  <2>2. StreamSound /\ AbortWins
    BY <2>1 DEF StreamSound, AbortWins, Streamed, Settling
  <2>3. BodyWhole
    BY <2>1 DEF BodyWhole, Streamed
  <2> QED
    BY <2>2, <2>3 DEF BodySound
<1> QED
  BY FetchInvariance, <1>1, PTL

\* A request body is written in order, its end once and last, and it never stalls: what is
\* left to write has asked for a write, waits for the window of the peer or for a read.
THEOREM UploadSoundHolds == FetchSpec => []UploadSound
<1>1. ASSUME FetchSound
      PROVE  UploadSound
  <2>1. \A h \in Hops : Rising(hop[h].wire)
    BY <1>1 DEF FetchSound, Framed
  <2>2. UploadFramed
    BY <2>1 DEF UploadFramed, Rising
  <2> QED
    BY <1>1, <2>2 DEF UploadSound, FetchSound
<1> QED
  BY FetchInvariance, <1>1, PTL

=============================================================================
