--------------------------- MODULE CallChainProofs ---------------------------
(***************************************************************************)
(* Proofs about CallChain, for any nodes, bridges, chains of middlewares     *)
(* and trees of calls.                                                       *)
(*                                                                          *)
(* Nothing can be said of what a caller is told without saying the same of   *)
(* every value on its way: of what a handler's chain ended with, of the      *)
(* responses in the transports, and of the raw responses that a handler      *)
(* returns, whose errors are hidden in a result (RepliesAreSound).  And a     *)
(* response names the request that it answers, which need not be the one     *)
(* that its handler serves; but then that request has settled, so it         *)
(* answers no other (RepliesAreAddressed).                                   *)
(***************************************************************************)
EXTENDS CallChain, TLAPS, SequenceTheorems

\* A value that came through a level of a chain names the node where it arose, if
\* it is an error or stands for one.
Named(v) ==
    /\ v \in Values /\ v.resp # None
    /\ v.kind # "result" => v.born # None
    /\ v.kind = "error" => v.resp.errorSource # None
    /\ v.kind = "other" => v.resp.errorSource = None
    /\ v.resp.errorSource # None =>
          v.born # None /\ v.resp.errorSource = Birthplace(v.born)

\* What the middleware mw of the run of a birth notes down.
Note(mw, born) == [mw |-> mw, call |-> born.call, side |-> born.side, born |-> born]

\* The middlewares above its birth know of it.
Told(v) ==
    v.resp.errorSource # None => \A mw \in v.born.above \ {"guard"} : Note(mw, v.born) \in seen

Sound(v) == Named(v) /\ Told(v)

RepliesAreSound ==
    /\ \A v \in wire : Sound(v)
    /\ \A c \in Calls : reply[c] # None => Sound(reply[c])

OutcomesAreSound == \A c \in Calls : outcome[c] # None => Sound(outcome[c])

ReportsAreLocal ==
    \A e \in seen : e.mw = "report" => NodeOf(e.call, e.side) = Birthplace(e.born)

\* Only who was made settles, and a fireAndForget settles when it is made.
SettledWereSent ==
    \A c \in Calls : /\ outcome[c] # None => sent[c] # None
                     /\ sent[c] # None /\ route[c].forget => outcome[c] # None

\* The request that a response names, when it is not the one at hand, has settled.
OutcomesAreAddressed ==
    \A c \in Calls : outcome[c] # None => outcome[outcome[c].resp.requestId] # None

RepliesAreAddressed ==
    /\ \A c \in Calls : reply[c] # None =>
          LET r == reply[c].resp.requestId IN r = c \/ outcome[r] # None
    /\ \A v \in wire :
          LET r == v.resp.requestId IN
          \/ outcome[r] # None
          \/ /\ reply[r] # None
             /\ v.born = reply[r].born
             /\ v.resp.errorSource = reply[r].resp.errorSource

RunningAreServed == \A c \in running : To(c) \in Bridges \/ handler[c] # None

IInv ==
    /\ TypeOK
    /\ RunningAreServed
    /\ RepliesAreSound /\ RepliesAreAddressed
    /\ OutcomesAreSound /\ OutcomesAreAddressed
    /\ ReportsAreLocal
    /\ SettledWereSent
    /\ CallerIsTold

-----------------------------------------------------------------------------
USE CallChainAssumption, NoneIsNothing

\* Chains of middlewares: the middlewares of a chain, of a longer one, of a part.
LEMMA RangeOfChain ==
    ASSUME NEW S, NEW mws \in Seq(S)
    PROVE  Range(mws) \subseteq S
  BY DEF Range

LEMMA RangeOfLonger ==
    ASSUME NEW S, NEW mws \in Seq(S), NEW mw \in S
    PROVE  /\ Append(mws, mw) \in Seq(S)
           /\ Range(Append(mws, mw)) \subseteq Range(mws) \cup {mw}
  BY DEF Range

LEMMA CutsAreChains ==
    ASSUME NEW S, NEW mws \in Seq(S)
    PROVE  Cuts(mws) \subseteq Seq(S)
  <1> SUFFICES ASSUME NEW i \in DOMAIN mws
               PROVE  SubSeq(mws, 1, i - 1) \in Seq(S)
    BY DEF Cuts
  <1>1. i \in 1..Len(mws) /\ Len(mws) \in Nat
    OBVIOUS
  <1>2. \A j \in 1..(i - 1) : mws[j] \in S
    BY <1>1
  <1> QED
    BY <1>1, <1>2, SubSeqProperties

\* Where a call comes from and goes to.
LEMMA NodesOfCalls ==
    ASSUME route \in [Calls -> Routes], NEW c \in Calls
    PROVE  /\ To(c) \in Nodes /\ From(c) \in Nodes
           /\ \A side \in Sides : NodeOf(c, side) \in Nodes
           /\ From(c) = NodeOf(c, "request") /\ To(c) = NodeOf(c, "handler")
  <1>1. \A k \in Calls : To(k) \in Nodes
    BY DEF To, Routes
  <1>2. From(c) \in Nodes
    BY <1>1 DEF From
  <1> QED
    BY <1>1, <1>2 DEF NodeOf, Sides

\* No step changes the routes, so what a value names does not change either.
LEMMA NamesAreFixed ==
    ASSUME UNCHANGED route
    PROVE  /\ \A c \in Calls : To(c)' = To(c) /\ From(c)' = From(c)
           /\ \A c \in Calls, side \in Sides : NodeOf(c, side)' = NodeOf(c, side)
           /\ \A b \in Births : Birthplace(b)' = Birthplace(b)
           /\ \A v \in Values : Named(v)' <=> Named(v)
  <1>1. \A c \in Calls : To(c)' = To(c) /\ From(c)' = From(c)
    BY DEF To, From
  <1>2. \A c \in Calls, side \in Sides : NodeOf(c, side)' = NodeOf(c, side)
    BY <1>1 DEF NodeOf
  <1>3. \A b \in Births : Birthplace(b)' = Birthplace(b)
    BY <1>2 DEF Birthplace, Births
  <1>4. \A v \in Values : Named(v)' <=> Named(v)
    BY <1>3 DEF Named, Values
  <1> QED
    BY <1>1, <1>2, <1>3, <1>4

\* _handlerResult and _handlerRejection keep what a value says, and what it is a
\* rejection with comes from the node that passed it on.
LEMMA WrappedKeeps ==
    ASSUME NEW n \in Nodes, NEW c \in Calls, NEW v \in Values,
           NEW up, up = Wrapped(n, c, v)
    PROVE  /\ up \in Values /\ up.kind = v.kind /\ up.born = v.born
           /\ up.resp # None
           /\ up.kind # "result" => up.resp.source = n
           /\ up.resp.requestId = c
              \/ (v.resp # None /\ up.resp.requestId = v.resp.requestId)
           /\ v.resp # None => up.resp.errorSource = v.resp.errorSource
           /\ v.resp = None =>
                 up.resp.errorSource = IF v.kind = "error" THEN n ELSE None
  <1> DEFINE new == [source |-> n, requestId |-> c,
                     errorSource |-> IF v.kind = "error" /\ v.resp = None THEN n ELSE None]
             merged == Merged(v.resp, new)
  <1>0. /\ v.kind \in {"result", "error", "other"}
        /\ v.resp \in Resps \cup {None} /\ v.born \in Births \cup {None}
    BY DEF Values
  <1>1. CASE v.resp # None /\ (v.kind = "result" \/ v.resp.source = n)
    BY <1>0, <1>1 DEF Wrapped
  <1>2. CASE ~(v.resp # None /\ (v.kind = "result" \/ v.resp.source = n))
    <2>1. up = [v EXCEPT !.resp = merged]
      BY <1>2 DEF Wrapped, Prepared
    <2>2. /\ merged \in Resps /\ merged # None
          /\ merged.source = n /\ merged.requestId = c
          /\ v.resp # None => merged.errorSource = v.resp.errorSource
          /\ v.resp = None => merged.errorSource = IF v.kind = "error" THEN n ELSE None
      BY <1>0 DEF Merged, Resps
    <2> HIDE DEF merged
    <2>3. up \in Values /\ up.kind = v.kind /\ up.born = v.born /\ up.resp = merged
      BY <2>1, <2>2, <1>0 DEF Values
    <2> QED
      BY <2>2, <2>3
  <1> QED
    BY <1>1, <1>2

\* responseHandler makes an error of a response with an errorSource and a result of
\* any other; a raw response is a result.
LEMMA ReceivedKeeps ==
    ASSUME NEW v \in Values, v.resp # None
    PROVE  LET w == Received(v) IN
           /\ w \in Values /\ w.resp = v.resp /\ w.born = v.born
           /\ w.kind = IF v.resp.errorSource = None THEN "result" ELSE "error"
  BY DEF Received, Values

LEMMA RawKeeps ==
    ASSUME NEW v \in Values
    PROVE  LET w == Raw(v) IN
           w \in Values /\ w.resp = v.resp /\ w.born = v.born /\ w.kind = "result"
  BY DEF Raw, Values

LEMMA StandsForTheSame ==
    ASSUME NEW v \in Values, Sound(v)
    PROVE  Sound(Received(v)) /\ Sound(Raw(v))
  <1>1. v.resp # None
    BY DEF Sound, Named
  <1>2. Sound(Received(v))
    <2> DEFINE w == Received(v)
    <2>1. /\ w \in Values /\ w.resp = v.resp /\ w.born = v.born
          /\ w.kind = IF v.resp.errorSource = None THEN "result" ELSE "error"
      BY <1>1, ReceivedKeeps
    <2> QED
      BY <2>1 DEF Sound, Named, Told
  <1>3. Sound(Raw(v))
    <2> DEFINE w == Raw(v)
    <2>1. w \in Values /\ w.resp = v.resp /\ w.born = v.born /\ w.kind = "result"
      BY RawKeeps
    <2> QED
      BY <2>1 DEF Sound, Named, Told
  <1> QED
    BY <1>2, <1>3

\* Where an error is born in a run whose middlewares are mws.
Birth(c, side, mws) == [call |-> c, side |-> side, above |-> Range(mws)]

\* What a run may end with: nothing special, what came from below, an error that arose
\* in it, or one that its transport has already given a response.
Ends(v, c, side, mws) ==
    \/ v = Result
    \/ Sound(v)
    \/ /\ v.resp = None /\ v.kind \in {"error", "other"}
       /\ v.born = Birth(c, side, mws)
    \/ /\ Named(v) /\ v.kind = "error"
       /\ v.born = Birth(c, side, mws)

LEMMA ThrownEnds ==
    ASSUME NEW c \in Calls, NEW side \in Sides, NEW mws \in Seq(Mws),
           NEW kind \in {"error", "other"}
    PROVE  LET v == Thrown(kind, c, side, mws) IN
           /\ v \in Values /\ v.resp = None /\ v.born = Birth(c, side, mws)
           /\ v.kind = kind
           /\ Ends(v, c, side, mws)
  <1>1. Birth(c, side, mws) \in Births
    BY RangeOfChain DEF Birth, Births
  <1> QED
    BY <1>1 DEF Thrown, Birth, Ends, Values

LEMMA ResultEnds ==
    Result \in Values /\ Result.resp = None /\ Result.kind = "result" /\ Result.born = None
  BY DEF Result, Values

\* An error of a request that has no response yet gets one from the catch of its
\* transport, which names the node of the request.
LEMMA CaughtEnds ==
    ASSUME route \in [Calls -> Routes], NEW c \in Calls, NEW mws \in Seq(Mws),
           NEW w, w = Caught(From(c), c, Thrown("error", c, "request", mws))
    PROVE  /\ w \in Values /\ w.born = Birth(c, "request", mws)
           /\ w.resp.requestId = c
           /\ Ends(w, c, "request", mws)
  <1> DEFINE v == Thrown("error", c, "request", mws)
             new == [source |-> From(c), requestId |-> c, errorSource |-> From(c)]
  <1>1. /\ v \in Values /\ v.resp = None /\ v.kind = "error"
        /\ v.born = Birth(c, "request", mws)
    BY ThrownEnds DEF Sides
  <1>2. From(c) \in Nodes /\ From(c) # None
    BY NodesOfCalls
  <1>3. Prepared(From(c), c, v) = new /\ new \in Resps
    BY <1>1, <1>2 DEF Prepared, Resps
  <1> HIDE DEF v
  <1>4. w = Received([v EXCEPT !.resp = new])
    BY <1>1, <1>3 DEF Caught, v
  <1>5. PICK u \in Values : u = [v EXCEPT !.resp = new]
    BY <1>1, <1>3 DEF Values
  <1>6. u.resp = new /\ u.born = v.born /\ new # None
    BY <1>1, <1>3, <1>5 DEF Values
  <1>7. w \in Values /\ w.resp = new /\ w.born = v.born /\ w.kind = "error"
    <2>1. w = Received(u) /\ u.resp # None /\ u.resp.errorSource # None
      BY <1>2, <1>4, <1>5, <1>6
    <2> QED
      BY <2>1, <1>5, <1>6, ReceivedKeeps
  <1>8. Birth(c, "request", mws) \in Births
    BY RangeOfChain DEF Birth, Births, Sides
  <1>9. Birthplace(w.born) = From(c)
    BY <1>1, <1>7 DEF Birthplace, Birth, NodeOf
  <1>10. Named(w)
    BY <1>1, <1>2, <1>6, <1>7, <1>8, <1>9 DEF Named
  <1> QED
    BY <1>1, <1>7, <1>10 DEF Ends

\* One level of a run: the value that goes up is sound, and those that were sound
\* stay so.
LEMMA LevelIsSound ==
    ASSUME IInv, UNCHANGED route,
           NEW c \in Calls, NEW side \in Sides, NEW mws \in Seq(Mws),
           NEW v \in Values, Ends(v, c, side, mws),
           NEW up, up = Wrapped(NodeOf(c, side), c, v),
           seen' = seen \cup Noticed(mws, c, side, up)
    PROVE  /\ up \in Values /\ Sound(up)'
           /\ \A w \in Values : Sound(w) => Sound(w)'
           /\ seen' \subseteq [mw : {"report", "count"}, call : Calls, side : Sides, born : Births]
           /\ ReportsAreLocal'
  <1> DEFINE n == NodeOf(c, side)
             b == Birth(c, side, mws)
  <1>0. route \in [Calls -> Routes] /\ n \in Nodes /\ n # None
        /\ seen \subseteq [mw : {"report", "count"}, call : Calls, side : Sides, born : Births]
    BY NodesOfCalls DEF IInv, TypeOK
  <1>1. /\ up \in Values /\ up.kind = v.kind /\ up.born = v.born /\ up.resp # None
        /\ up.kind # "result" => up.resp.source = n
        /\ v.resp # None => up.resp.errorSource = v.resp.errorSource
        /\ v.resp = None =>
              up.resp.errorSource = IF v.kind = "error" THEN n ELSE None
    BY <1>0, WrappedKeeps
  <1>2. b \in Births /\ b # None /\ Birthplace(b) = n /\ b.above = Range(mws)
        /\ b.call = c /\ b.side = side
    BY RangeOfChain DEF Birth, Births, Birthplace
  <1> HIDE DEF b
  <1>3. Named(up)
    <2>1. CASE v = Result
      BY <2>1, <1>1, ResultEnds DEF Named
    <2>2. CASE Named(v)
      BY <2>2, <1>1 DEF Named
    <2>3. CASE v.resp = None /\ v.kind \in {"error", "other"} /\ v.born = b
      BY <2>3, <1>0, <1>1, <1>2 DEF Named
    <2> QED
      BY <2>1, <2>2, <2>3 DEF Ends, Sound, b
  <1>4. \A w \in Values : Sound(w) => Sound(w)'
    BY NamesAreFixed DEF Sound, Told
  <1>5. ASSUME up.born = b, up.kind = "error", NEW mw \in Range(mws), mw # "guard"
        PROVE  Note(mw, b) \in seen'
    <2>1. up.resp.errorSource = n /\ up.resp.source = n
      BY <1>1, <1>2, <1>3, <1>5 DEF Named
    <2>2. TakesNote(mw, up)
      BY <2>1, <1>5, RangeOfChain DEF TakesNote, IsLocalError, Mws
    <2>3. Note(mw, b) \in Noticed(mws, c, side, up)
      BY <2>2, <1>2, <1>5 DEF Noticed, Note
    <2> QED
      BY <2>3
  <1>6. Told(up)'
    <2>1. CASE v = Result
      BY <2>1, <1>1, ResultEnds DEF Told
    <2>2. CASE Sound(v)
      BY <2>2, <1>1 DEF Sound, Named, Told
    <2>3. CASE v.born = b /\ v.kind = "error"
      BY <2>3, <1>1, <1>2, <1>5 DEF Told
    <2>4. CASE v.resp = None /\ v.kind = "other"
      BY <2>4, <1>1 DEF Told
    <2> QED
      BY <2>1, <2>2, <2>3, <2>4 DEF Ends, b
  <1>7. ASSUME NEW e \in Noticed(mws, c, side, up)
        PROVE  /\ e \in [mw : {"report", "count"}, call : Calls, side : Sides, born : Births]
               /\ e.mw = "report" => NodeOf(e.call, e.side) = Birthplace(e.born)
    <2>1. PICK mw \in Range(mws) :
             TakesNote(mw, up) /\ e = [mw |-> mw, call |-> c, side |-> side, born |-> up.born]
      BY <1>7 DEF Noticed
    <2>2. up.kind # "result" /\ mw \in {"report", "count"} /\ up.born \in Births
      BY <2>1, <1>1, <1>3 DEF TakesNote, Named, Values
    <2>3. mw = "report" => up.resp.errorSource = n
      BY <2>1, <2>2, <1>1 DEF TakesNote, IsLocalError
    <2>4. mw = "report" => Birthplace(up.born) = n
      BY <2>3, <1>0, <1>3 DEF Named
    <2> QED
      BY <2>1, <2>2, <2>4
  <1>8. ReportsAreLocal'
    <2>1. \A e \in seen' : e.mw = "report" => NodeOf(e.call, e.side) = Birthplace(e.born)
      BY <1>7 DEF IInv, ReportsAreLocal
    <2> QED
      BY <2>1, <1>0, <1>7, NamesAreFixed DEF ReportsAreLocal
  <1>9. Sound(up)'
    BY <1>1, <1>3, <1>6, NamesAreFixed DEF Sound
  <1> QED
    BY <1>0, <1>1, <1>4, <1>7, <1>8, <1>9

-----------------------------------------------------------------------------
\* Steps of the system: what has been answered and settled stays, and what was sound
\* stays sound.
Grows ==
    /\ UNCHANGED route
    /\ \A c \in Calls : /\ reply[c] # None => reply'[c] = reply[c]
                        /\ outcome[c] # None => outcome'[c] = outcome[c]
                        /\ sent[c] # None => sent'[c] = sent[c]
    /\ \A w \in Values : Sound(w) => Sound(w)'

LEMMA SoundStays ==
    ASSUME UNCHANGED route, UNCHANGED seen
    PROVE  /\ \A w \in Values : Sound(w) => Sound(w)'
           /\ TypeOK /\ ReportsAreLocal => ReportsAreLocal'
  <1>1. \A w \in Values : Sound(w) => Sound(w)'
    BY NamesAreFixed DEF Sound, Told
  <1>2. TypeOK /\ ReportsAreLocal => ReportsAreLocal'
    BY NamesAreFixed DEF ReportsAreLocal, TypeOK
  <1> QED
    BY <1>1, <1>2

\* No new response.
LEMMA RepliesStay ==
    ASSUME IInv, Grows, UNCHANGED reply, wire' \subseteq wire
    PROVE  RepliesAreSound' /\ RepliesAreAddressed'
  <1>1. /\ wire \subseteq Values /\ reply \in [Calls -> Values \cup {None}]
        /\ \A v \in Values : v.resp # None => v.resp.requestId \in Calls
    BY DEF IInv, TypeOK, Values, Resps
  <1>2. RepliesAreSound'
    <2>1. ASSUME NEW v \in wire' PROVE Sound(v)'
      BY <2>1, <1>1 DEF IInv, RepliesAreSound, Grows
    <2>2. ASSUME NEW c \in Calls, reply'[c] # None PROVE Sound(reply[c])'
      <3>1. PICK v \in Values : v = reply[c] /\ Sound(v)
        BY <2>2, <1>1 DEF IInv, RepliesAreSound
      <3>2. Sound(v)' /\ reply'[c] = v
        BY <3>1 DEF Grows
      <3> QED
        BY <3>2 DEF Sound, Named, Told
    <2> QED
      BY <2>1, <2>2 DEF RepliesAreSound
  <1>3. RepliesAreAddressed'
    <2>1. ASSUME NEW c \in Calls, reply'[c] # None, reply'[c].resp.requestId # c
          PROVE  outcome'[reply'[c].resp.requestId] # None
      <3>1. reply[c].resp.requestId \in Calls
        BY <2>1, <1>1 DEF IInv, RepliesAreSound, Sound, Named
      <3> QED
        BY <2>1, <3>1 DEF IInv, RepliesAreAddressed, Grows
    <2>2. ASSUME NEW v \in wire', outcome'[v.resp.requestId] = None
          PROVE  /\ reply'[v.resp.requestId] # None
                 /\ v.born = reply'[v.resp.requestId].born
                 /\ v.resp.errorSource = reply'[v.resp.requestId].resp.errorSource
      <3>1. v \in wire /\ v.resp.requestId \in Calls
        BY <2>2, <1>1 DEF IInv, RepliesAreSound, Sound, Named
      <3> QED
        BY <2>2, <3>1 DEF IInv, RepliesAreAddressed, Grows
    <2> QED
      BY <2>1, <2>2 DEF RepliesAreAddressed
  <1> QED
    BY <1>2, <1>3

\* A chain of a handler has ended with up.
LEMMA RepliesGrow ==
    ASSUME IInv, Grows, NEW c \in Calls, reply[c] = None,
           NEW up \in Values, Sound(up)',
           up.resp.requestId = c \/ outcome[up.resp.requestId] # None,
           reply' = [reply EXCEPT ![c] = up],
           wire' \subseteq wire \cup {up, [up EXCEPT !.resp.requestId = c]}
    PROVE  RepliesAreSound' /\ RepliesAreAddressed' /\ wire' \subseteq Values
  <1>1. /\ wire \subseteq Values /\ reply \in [Calls -> Values \cup {None}]
        /\ up \in Values /\ up.resp # None /\ up.resp \in Resps
        /\ \A v \in Values : v.resp # None => v.resp.requestId \in Calls
        /\ up # None
    BY DEF IInv, TypeOK, Values, Resps, Sound, Named
  <1>2. PICK named \in Values : named = [up EXCEPT !.resp.requestId = c]
    BY <1>1 DEF Values, Resps
  <1>3. /\ named.kind = up.kind /\ named.born = up.born
        /\ named.resp \in Resps
        /\ named.resp.requestId = c /\ named.resp.errorSource = up.resp.errorSource
    BY <1>1, <1>2 DEF Values, Resps
  <1>4. Sound(named)'
    BY <1>1, <1>3 DEF Sound, Named, Told
  <1>5. reply'[c] = up /\ \A k \in Calls : k # c => reply'[k] = reply[k]
    BY <1>1
  <1>6. RepliesAreSound'
    <2>1. ASSUME NEW v \in wire' PROVE Sound(v)'
      <3>1. CASE v \in wire
        BY <3>1, <1>1 DEF IInv, RepliesAreSound, Grows
      <3>2. CASE v = up \/ v = named
        BY <3>2, <1>4
      <3> QED
        BY <2>1, <3>1, <3>2, <1>2
    <2>2. ASSUME NEW k \in Calls, reply'[k] # None PROVE Sound(reply[k])'
      <3>1. PICK v \in Values : v = reply'[k]
        BY <2>2, <1>1, <1>5
      <3>2. Sound(v)'
        BY <2>2, <3>1, <1>5 DEF IInv, RepliesAreSound, Grows
      <3> QED
        BY <3>1, <3>2 DEF Sound, Named, Told
    <2> QED
      BY <2>1, <2>2 DEF RepliesAreSound
  <1>7. ASSUME NEW k \in Calls, outcome[k] # None PROVE outcome'[k] # None
    BY <1>7 DEF Grows
  <1>8. RepliesAreAddressed'
    <2>1. ASSUME NEW k \in Calls, reply'[k] # None, reply'[k].resp.requestId # k
          PROVE  outcome'[reply'[k].resp.requestId] # None
      <3>1. CASE k = c
        BY <3>1, <2>1, <1>1, <1>5, <1>7
      <3>2. CASE k # c
        <4>1. reply[k].resp.requestId \in Calls
          BY <2>1, <3>2, <1>1, <1>5 DEF IInv, RepliesAreSound, Sound, Named
        <4> QED
          BY <2>1, <3>2, <4>1, <1>5, <1>7 DEF IInv, RepliesAreAddressed
      <3> QED
        BY <3>1, <3>2
    <2>2. ASSUME NEW v \in wire', outcome'[v.resp.requestId] = None
          PROVE  /\ reply'[v.resp.requestId] # None
                 /\ v.born = reply'[v.resp.requestId].born
                 /\ v.resp.errorSource = reply'[v.resp.requestId].resp.errorSource
      <3>1. CASE v \in wire
        <4>1. v.resp.requestId \in Calls
          BY <3>1, <1>1 DEF IInv, RepliesAreSound, Sound, Named
        <4> QED
          BY <2>2, <3>1, <4>1, <1>7 DEF IInv, RepliesAreAddressed, Grows
      <3>2. CASE v = up
        BY <2>2, <3>2, <1>1, <1>5, <1>7
      <3>3. CASE v = named
        BY <3>3, <1>1, <1>3, <1>5
      <3> QED
        BY <2>2, <3>1, <3>2, <3>3, <1>2
    <2> QED
      BY <2>1, <2>2 DEF RepliesAreAddressed
  <1> QED
    BY <1>1, <1>2, <1>6, <1>8

\* CallerIsTold of one caller.
IsTold(c) ==
    \/ OwnFailure(c)
    \/ route[c].forget /\ outcome[c].born = None /\ outcome[c].kind = "result"
    \/ /\ reply[c] # None /\ ~route[c].forget
       /\ outcome[c].born = reply[c].born
       /\ Excepted(c) \/ outcome[c].kind = Received(reply[c]).kind

\* Who has settled was told what it is told.
LEMMA SettledStays ==
    ASSUME IInv, Grows, NEW c \in Calls, outcome[c] # None
    PROVE  /\ outcome'[c] = outcome[c] /\ sent'[c] # None
           /\ Sound(outcome[c])' /\ IsTold(c)'
           /\ outcome'[outcome'[c].resp.requestId] # None
  <1>1. outcome'[c] = outcome[c] /\ sent'[c] = sent[c] /\ sent[c] # None /\ route' = route
    BY DEF IInv, Grows, SettledWereSent
  <1>2. PICK v \in Values : v = outcome[c] /\ Sound(v)
    BY DEF IInv, TypeOK, OutcomesAreSound
  <1>3. Sound(outcome[c])'
    <2>1. Sound(v)' /\ outcome'[c] = v
      BY <1>1, <1>2 DEF Grows
    <2> QED
      BY <2>1 DEF Sound, Named, Told
  <1>4. v.resp.requestId \in Calls
    BY <1>2 DEF Sound, Named, Values, Resps
  <1>5. outcome'[outcome'[c].resp.requestId] # None
    BY <1>1, <1>2, <1>4 DEF IInv, OutcomesAreAddressed, Grows
  <1>6. IsTold(c)
    BY DEF IInv, CallerIsTold, IsTold
  <1>7. reply[c] # None => reply'[c] = reply[c]
    BY DEF Grows
  <1>8. IsTold(c)'
    BY <1>1, <1>6, <1>7 DEF IsTold, OwnFailure, Excepted
  <1> QED
    BY <1>1, <1>3, <1>5, <1>8

\* Nobody settles.
LEMMA OutcomesStay ==
    ASSUME IInv, Grows, UNCHANGED outcome,
           \A c \in Calls : sent'[c] # None /\ route[c].forget => outcome[c] # None
    PROVE  OutcomesAreSound' /\ OutcomesAreAddressed' /\ SettledWereSent' /\ CallerIsTold'
  <1>1. \A c \in Calls : outcome'[c] # None => outcome[c] # None
    OBVIOUS
  <1>2. OutcomesAreSound' /\ OutcomesAreAddressed'
    BY <1>1, SettledStays DEF OutcomesAreSound, OutcomesAreAddressed
  <1>3. SettledWereSent'
    BY <1>1, SettledStays DEF SettledWereSent, Grows
  <1>4. CallerIsTold'
    BY <1>1, SettledStays DEF CallerIsTold, IsTold
  <1> QED
    BY <1>2, <1>3, <1>4

\* The promise of c settles with up.
LEMMA OutcomesGrow ==
    ASSUME IInv, Grows, NEW c \in Calls, outcome[c] = None,
           NEW up \in Values, Sound(up)',
           up.resp.requestId = c \/ outcome[up.resp.requestId] # None,
           outcome' = [outcome EXCEPT ![c] = up],
           sent'[c] # None, IsTold(c)',
           \A k \in Calls \ {c} : sent'[k] = sent[k]
    PROVE  OutcomesAreSound' /\ OutcomesAreAddressed' /\ SettledWereSent' /\ CallerIsTold'
  <1>1. /\ outcome'[c] = up /\ up # None
        /\ \A k \in Calls : k # c => outcome'[k] = outcome[k]
    BY DEF IInv, TypeOK
  <1>2. OutcomesAreSound'
    <2>1. Sound(outcome[c])'
      BY <1>1 DEF Sound, Named, Told
    <2> QED
      BY <2>1, <1>1, SettledStays DEF OutcomesAreSound
  <1>3. OutcomesAreAddressed'
    <2>1. up.resp.requestId \in Calls
      BY DEF Sound, Named, Values, Resps
    <2>2. outcome'[up.resp.requestId] # None
      BY <2>1, <1>1
    <2> QED
      BY <2>2, <1>1, SettledStays DEF OutcomesAreAddressed
  <1>4. SettledWereSent'
    BY <1>1 DEF IInv, SettledWereSent, Grows
  <1>5. CallerIsTold'
    BY <1>1, SettledStays DEF CallerIsTold, IsTold
  <1> QED
    BY <1>2, <1>3, <1>4, <1>5

-----------------------------------------------------------------------------
SeenTypeOK ==
    seen \subseteq [mw : {"report", "count"}, call : Calls, side : Sides, born : Births]

\* What the end of a handler's chain keeps, whatever else the step does.
LEMMA ServerEndsKeeps ==
    ASSUME IInv, UNCHANGED route, NEW c \in Calls, reply[c] = None,
           \A k \in Calls : /\ outcome[k] # None => outcome'[k] = outcome[k]
                            /\ sent[k] # None => sent'[k] = sent[k],
           NEW mws \in Seq(Mws), NEW v \in Values, Ends(v, c, "handler", mws),
           v.resp = None \/ outcome[v.resp.requestId] # None,
           NEW hop \in Hops \cup {"local", "none"}, ServerEnds(c, v, mws, hop)
    PROVE  /\ Grows
           /\ RepliesAreSound' /\ RepliesAreAddressed' /\ ReportsAreLocal'
           /\ wire' \subseteq Values /\ SeenTypeOK'
           /\ reply' \in [Calls -> Values \cup {None}]
           /\ running' = running \ {c}
           /\ \A k \in Calls : k # c => reply'[k] = reply[k]
  <1>0. route \in [Calls -> Routes] /\ To(c) \in Nodes /\ To(c) = NodeOf(c, "handler")
        /\ reply \in [Calls -> Values \cup {None}] /\ "handler" \in Sides
    BY NodesOfCalls DEF IInv, TypeOK, Sides
  <1> DEFINE u == Wrapped(To(c), c, v)
  <1>1. /\ reply' = [reply EXCEPT ![c] = u]
        /\ running' = running \ {c}
        /\ seen' = seen \cup Noticed(mws, c, "handler", u)
    BY DEF ServerEnds
  <1>2. wire' \subseteq wire \cup {u, [u EXCEPT !.resp.requestId = c]}
    <2>1. \/ wire' = wire \/ wire' = wire \cup {u}
          \/ wire' = wire \cup {[u EXCEPT !.resp.requestId = c]}
      BY DEF ServerEnds
    <2> QED
      BY <2>1
  <1>3. PICK up \in Values : /\ up = Wrapped(NodeOf(c, "handler"), c, v)
                             /\ up = u
                             /\ up.resp.requestId = c
                                \/ (v.resp # None /\ up.resp.requestId = v.resp.requestId)
    BY <1>0, WrappedKeeps
  <1> HIDE DEF u
  <1>4. /\ Sound(up)' /\ ReportsAreLocal' /\ SeenTypeOK'
        /\ \A w \in Values : Sound(w) => Sound(w)'
    BY <1>0, <1>1, <1>3, LevelIsSound DEF SeenTypeOK
  <1>5. Grows
    <2>1. \A k \in Calls : k # c => reply'[k] = reply[k]
      BY <1>0, <1>1
    <2>2. \A k \in Calls : /\ reply[k] # None => reply'[k] = reply[k]
                           /\ outcome[k] # None => outcome'[k] = outcome[k]
                           /\ sent[k] # None => sent'[k] = sent[k]
      BY <2>1
    <2>3. \A w \in Values : Sound(w) => Sound(w)'
      BY <1>4
    <2>4. route' = route
      OBVIOUS
    <2> QED
      BY ONLY <2>2, <2>3, <2>4 DEF Grows
  <1>6. RepliesAreSound' /\ RepliesAreAddressed' /\ wire' \subseteq Values
    BY <1>1, <1>2, <1>3, <1>4, <1>5, RepliesGrow
  <1> QED
    BY <1>0, <1>1, <1>3, <1>4, <1>5, <1>6

\* What a caller may be told: that it failed itself, or what the handler's chain ended
\* with.
Tells(c, v, mws) ==
    \/ v.born = Birth(c, "request", mws)
    \/ /\ reply[c] # None /\ ~route[c].forget
       /\ v.born = reply[c].born
       /\ \/ reply[c].kind = "other"
          \/ sent[c] # None /\ sent[c].hop = "local" /\ reply[c].kind = "result"
          \/ v.kind = Received(reply[c]).kind

\* What the end of a caller's chain keeps.
LEMMA ClientEndsKeeps ==
    ASSUME IInv, UNCHANGED <<route, reply>>, wire' \subseteq wire,
           NEW c \in Calls, outcome[c] = None, sent'[c] # None,
           sent[c] # None => sent'[c] = sent[c],
           \A k \in Calls \ {c} : sent'[k] = sent[k],
           NEW mws \in Seq(Mws), NEW v \in Values, Ends(v, c, "request", mws),
           v.resp = None \/ v.resp.requestId = c \/ outcome[v.resp.requestId] # None,
           Tells(c, v, mws),
           ClientEnds(c, v, mws)
    PROVE  /\ RepliesAreSound' /\ RepliesAreAddressed' /\ ReportsAreLocal'
           /\ OutcomesAreSound' /\ OutcomesAreAddressed'
           /\ SettledWereSent' /\ CallerIsTold'
           /\ SeenTypeOK' /\ outcome' \in [Calls -> Values \cup {None}]
  <1>0. route \in [Calls -> Routes] /\ From(c) \in Nodes /\ From(c) = NodeOf(c, "request")
        /\ outcome \in [Calls -> Values \cup {None}] /\ "request" \in Sides
    BY NodesOfCalls DEF IInv, TypeOK, Sides
  <1> DEFINE u == Wrapped(From(c), c, v)
  <1>1. /\ outcome' = [outcome EXCEPT ![c] = u]
        /\ seen' = seen \cup Noticed(mws, c, "request", u)
    BY DEF ClientEnds
  <1>2. PICK up \in Values : /\ up = Wrapped(NodeOf(c, "request"), c, v)
                             /\ up = u
                             /\ up.kind = v.kind /\ up.born = v.born
                             /\ up.resp.requestId = c
                                \/ (v.resp # None /\ up.resp.requestId = v.resp.requestId)
    BY <1>0, WrappedKeeps
  <1> HIDE DEF u
  <1>3. /\ Sound(up)' /\ ReportsAreLocal' /\ SeenTypeOK'
        /\ \A w \in Values : Sound(w) => Sound(w)'
    BY <1>0, <1>1, <1>2, LevelIsSound DEF SeenTypeOK
  <1>4. Grows
    BY <1>0, <1>1, <1>3 DEF Grows
  <1>5. outcome'[c] = up
    BY <1>0, <1>1, <1>2
  <1>6. IsTold(c)'
    <2>1. CASE v.born = Birth(c, "request", mws)
      <3>1. Birth(c, "request", mws) \in Births
        BY RangeOfChain DEF Birth, Births, Sides
      <3>2. OwnFailure(c)'
        BY <2>1, <3>1, <1>2, <1>5 DEF OwnFailure, Birth
      <3> QED
        BY <3>2 DEF IsTold
    <2>2. CASE ~(v.born = Birth(c, "request", mws))
      BY <2>2, <1>2, <1>5 DEF Tells, IsTold, Excepted
    <2> QED
      BY <2>1, <2>2
  <1>7. RepliesAreSound' /\ RepliesAreAddressed'
    BY <1>4, RepliesStay
  <1>8. OutcomesAreSound' /\ OutcomesAreAddressed' /\ SettledWereSent' /\ CallerIsTold'
    BY <1>1, <1>2, <1>3, <1>4, <1>6, OutcomesGrow
  <1> QED
    BY <1>0, <1>1, <1>2, <1>3, <1>7, <1>8

\* A request is made: its run has the chain of this moment.
LEMMA MakeKeeps ==
    ASSUME IInv, NEW c \in Calls, NEW hop \in Hops \cup {"local", "none"}, Make(c, hop)
    PROVE  /\ UNCHANGED <<route, chain, handler>>
           /\ sent' \in [Calls -> Runs \cup {None}]
           /\ sent[c] = None /\ sent'[c] # None /\ outcome[c] = None
           /\ \A k \in Calls : k # c => sent'[k] = sent[k]
           /\ chain[<<From(c), "request">>] \in Seq(Mws)
           /\ c \notin running
  <1>1. chain[<<From(c), "request">>] \in Seq(Mws)
    BY NodesOfCalls DEF IInv, TypeOK, Chains, Sides
  <1> DEFINE run == [mws |-> chain[<<From(c), "request">>], hop |-> hop]
  <1>2. run \in Runs
    BY <1>1 DEF Runs
  <1> HIDE DEF run
  <1>3. sent' = [sent EXCEPT ![c] = run] /\ sent[c] = None
    BY DEF Make, run
  <1> QED
    BY <1>1, <1>2, <1>3 DEF Make, IInv, TypeOK, SettledWereSent

-----------------------------------------------------------------------------
\* No call has been made.
LEMMA InitIInv == Init => IInv
  <1> SUFFICES ASSUME Init PROVE IInv
    OBVIOUS
  <1>1. TypeOK
    <2>1. route \in [Calls -> Routes]
      BY DEF Init
    <2>2. chain \in [Chains -> Seq(Mws)] /\ \A x \in Chains : Range(chain[x]) = {}
      BY DEF Init, Range
    <2> QED
      BY <2>1, <2>2 DEF Init, TypeOK
  <1>2. RepliesAreSound /\ RepliesAreAddressed /\ RunningAreServed
    BY DEF Init, RepliesAreSound, RepliesAreAddressed, RunningAreServed
  <1>3. OutcomesAreSound /\ OutcomesAreAddressed /\ ReportsAreLocal
    BY DEF Init, OutcomesAreSound, OutcomesAreAddressed, ReportsAreLocal
  <1>4. SettledWereSent /\ CallerIsTold
    BY DEF Init, SettledWereSent, CallerIsTold
  <1> QED
    BY <1>1, <1>2, <1>3, <1>4 DEF IInv

\* A middleware is used, or a url gets its chain: no call is touched.
LEMMA SetUpKeepsIInv ==
    ASSUME IInv,
           \/ \E x \in Chains : \E mw \in Usable[x] : Use(x, mw)
           \/ \E c \in Calls : HandleRequest(c)
    PROVE  IInv'
  <1>1. UNCHANGED <<route, callVars>>
    BY DEF Use, HandleRequest
  <1>2. Grows /\ ReportsAreLocal'
    BY <1>1, SoundStays DEF callVars, Grows, IInv
  <1>3. /\ RepliesAreSound' /\ RepliesAreAddressed'
        /\ OutcomesAreSound' /\ OutcomesAreAddressed' /\ SettledWereSent' /\ CallerIsTold'
    BY <1>1, <1>2, RepliesStay, OutcomesStay DEF callVars, IInv, SettledWereSent
  <1>4. CASE \E x \in Chains : \E mw \in Usable[x] : Use(x, mw)
    <2>0. PICK x \in Chains : \E mw \in Usable[x] : Use(x, mw)
      BY <1>4
    <2>1. PICK mw \in Usable[x] : Use(x, mw)
      BY <2>0
    <2>2. /\ chain' = [chain EXCEPT ![x] = Append(chain[x], mw)]
          /\ handler' = handler /\ mw \in Mws
      BY <2>1 DEF Use
    <2>3. chain[x] \in Seq(Mws) /\ Range(chain[x]) \subseteq Usable[x]
      BY DEF IInv, TypeOK
    <2>4. /\ Append(chain[x], mw) \in Seq(Mws)
          /\ Range(Append(chain[x], mw)) \subseteq Usable[x]
      BY <2>2, <2>3, RangeOfLonger
    <2>5. /\ chain' \in [Chains -> Seq(Mws)]
          /\ \A y \in Chains : Range(chain'[y]) \subseteq Usable[y]
      BY <2>2, <2>4 DEF IInv, TypeOK
    <2>6. TypeOK'
      BY <2>2, <2>5, <1>1, NamesAreFixed DEF callVars, IInv, TypeOK
    <2>7. RunningAreServed'
      BY <2>2, <1>1, NamesAreFixed DEF callVars, IInv, TypeOK, RunningAreServed
    <2> QED
      BY <2>6, <2>7, <1>2, <1>3 DEF IInv
  <1>5. CASE \E c \in Calls : HandleRequest(c)
    <2>1. PICK c \in Calls : HandleRequest(c)
      BY <1>5
    <2> DEFINE x == <<To(c), "handler">>
    <2>2. /\ chain' = chain /\ handler' = [handler EXCEPT ![c] = chain[x]]
          /\ ~IsServed(c)
      BY <2>1 DEF HandleRequest
    <2>3. x \in Chains
      BY NodesOfCalls DEF IInv, TypeOK, Chains, Sides
    <2>4. chain[x] \in Seq(Mws) /\ Range(chain[x]) \subseteq Usable[x]
      BY <2>3 DEF IInv, TypeOK
    <2>5. /\ handler' \in [Calls -> Seq(Mws) \cup {None}]
          /\ \A k \in Calls : handler'[k] # None =>
                Range(handler'[k]) \subseteq Usable[<<To(k), "handler">>]
      BY <2>2, <2>4 DEF IInv, TypeOK
    <2>6. TypeOK'
      BY <2>2, <2>5, <1>1, NamesAreFixed DEF callVars, IInv, TypeOK
    <2>7. \A k \in Calls : handler[k] # None => k # c \/ To(k) \in Bridges
      BY <2>2 DEF IsServed, HandlerChain
    <2>8. RunningAreServed'
      BY <2>2, <2>7, <1>1, NamesAreFixed DEF callVars, IInv, TypeOK, RunningAreServed
    <2> QED
      BY <2>6, <2>8, <1>2, <1>3 DEF IInv
  <1> QED
    BY <1>4, <1>5

\* The chain of a url that is served, and its cuts.
LEMMA HandlerChains ==
    ASSUME IInv, NEW c \in Calls, IsServed(c)
    PROVE  HandlerChain(c) \in Seq(Mws) /\ Cuts(HandlerChain(c)) \subseteq Seq(Mws)
  <1>1. HandlerChain(c) \in Seq(Mws)
    BY DEF IInv, TypeOK, HandlerChain, IsServed
  <1> QED
    BY <1>1, CutsAreChains

LEMMA RunningChains ==
    ASSUME IInv, NEW c \in running
    PROVE  /\ c \in Calls /\ sent[c] # None /\ reply[c] = None
           /\ HandlerChain(c) \in Seq(Mws)
  <1>1. c \in Calls /\ sent[c] # None /\ reply[c] = None
    BY DEF IInv, TypeOK
  <1>2. HandlerChain(c) \in Seq(Mws)
    BY <1>1 DEF IInv, TypeOK, HandlerChain, RunningAreServed
  <1> QED
    BY <1>1, <1>2

\* A request that its own chain or its transport rejects.
LEMMA RequestFailsKeepsIInv ==
    ASSUME IInv, NEW c \in Calls, RequestFails(c)
    PROVE  IInv'
  <1> DEFINE mws == chain[<<From(c), "request">>]
  <1>1. Make(c, "none") /\ UNCHANGED <<running, reply, wire>>
    BY DEF RequestFails
  <1>2. /\ UNCHANGED <<route, chain, handler>>
        /\ sent' \in [Calls -> Runs \cup {None}]
        /\ sent[c] = None /\ sent'[c] # None /\ outcome[c] = None
        /\ \A k \in Calls : k # c => sent'[k] = sent[k]
        /\ mws \in Seq(Mws)
    BY <1>1, MakeKeeps
  <1>3. PICK cut \in Cuts(mws) \cup {mws} :
           ClientEnds(c, Thrown("error", c, "request", cut), cut)
    BY DEF RequestFails
  <1>4. cut \in Seq(Mws)
    BY <1>2, <1>3, CutsAreChains
  <1>5. PICK v \in Values : /\ v = Thrown("error", c, "request", cut)
                            /\ v.resp = None /\ v.born = Birth(c, "request", cut)
                            /\ Ends(v, c, "request", cut)
    BY <1>4, ThrownEnds DEF Sides
  <1>6. Tells(c, v, cut)
    BY <1>5 DEF Tells
  <1>7. /\ RepliesAreSound' /\ RepliesAreAddressed' /\ ReportsAreLocal'
        /\ OutcomesAreSound' /\ OutcomesAreAddressed' /\ SettledWereSent' /\ CallerIsTold'
        /\ SeenTypeOK' /\ outcome' \in [Calls -> Values \cup {None}]
    BY <1>1, <1>2, <1>3, <1>4, <1>5, <1>6, ClientEndsKeeps
  <1>8. TypeOK'
    BY <1>1, <1>2, <1>7, NamesAreFixed DEF IInv, TypeOK, SeenTypeOK
  <1>9. RunningAreServed'
    BY <1>1, <1>2, NamesAreFixed DEF IInv, TypeOK, RunningAreServed
  <1> QED
    BY <1>7, <1>8, <1>9 DEF IInv

\* A request that runs the handler's chain at once, down to the handler or to a
\* middleware that rejects.
LEMMA EnterKeeps ==
    ASSUME IInv, UNCHANGED <<route, chain, handler>>,
           NEW c \in Calls, NEW hop \in Hops \cup {"local"}, Enter(c, hop),
           sent' \in [Calls -> Runs \cup {None}], sent'[c] # None,
           \A k \in Calls : k # c => sent'[k] = sent[k],
           sent[c] # None => sent'[c] = sent[c],
           outcome' \in [Calls -> Values \cup {None}],
           \A k \in Calls : outcome[k] # None => outcome'[k] = outcome[k]
    PROVE  /\ TypeOK' /\ RunningAreServed' /\ Grows
           /\ RepliesAreSound' /\ RepliesAreAddressed' /\ ReportsAreLocal'
  <1>1. /\ IsServed(c) /\ reply[c] = None
        /\ HandlerChain(c) \in Seq(Mws) /\ Cuts(HandlerChain(c)) \subseteq Seq(Mws)
    BY HandlerChains DEF Enter
  <1>2. \A k \in Calls : /\ outcome[k] # None => outcome'[k] = outcome[k]
                         /\ sent[k] # None => sent'[k] = sent[k]
    OBVIOUS
  <1>3. CASE running' = running \cup {c} /\ UNCHANGED <<reply, wire, seen>>
    <2>1. Grows /\ ReportsAreLocal'
      <3>1. ReportsAreLocal' /\ \A w \in Values : Sound(w) => Sound(w)'
        BY <1>3, SoundStays DEF IInv
      <3> QED
        BY <3>1, <1>2, <1>3 DEF Grows
    <2>2. TypeOK'
      <3>1. running' \subseteq {k \in Calls : sent'[k] # None /\ reply'[k] = None}
        BY <1>1, <1>3 DEF IInv, TypeOK
      <3> QED
        BY <3>1, <1>3, NamesAreFixed DEF IInv, TypeOK
    <2>3. RunningAreServed'
      <3>1. To(c) \in Bridges \/ handler[c] # None
        BY <1>1 DEF IsServed, HandlerChain
      <3>2. running' \subseteq Calls
        BY <1>3 DEF IInv, TypeOK
      <3>3. \A k \in running' : To(k) \in Bridges \/ handler[k] # None
        BY <3>1, <1>3 DEF IInv, RunningAreServed
      <3> QED
        BY <3>2, <3>3, NamesAreFixed DEF RunningAreServed
    <2>4. RepliesAreSound' /\ RepliesAreAddressed'
      BY <2>1, <1>3, RepliesStay
    <2> QED
      BY <2>1, <2>2, <2>3, <2>4
  <1>4. CASE \E cut \in Cuts(HandlerChain(c)) :
                ServerEnds(c, Thrown("error", c, "handler", cut), cut, hop)
    <2>1. PICK cut \in Seq(Mws) : ServerEnds(c, Thrown("error", c, "handler", cut), cut, hop)
      BY <1>1, <1>4
    <2>2. PICK v \in Values : /\ v = Thrown("error", c, "handler", cut)
                              /\ v.resp = None /\ Ends(v, c, "handler", cut)
      BY <2>1, ThrownEnds DEF Sides
    <2>3. /\ Grows
          /\ RepliesAreSound' /\ RepliesAreAddressed' /\ ReportsAreLocal'
          /\ wire' \subseteq Values /\ SeenTypeOK'
          /\ reply' \in [Calls -> Values \cup {None}]
          /\ running' = running \ {c}
          /\ \A k \in Calls : k # c => reply'[k] = reply[k]
      BY <2>1, <2>2, <1>1, <1>2, ServerEndsKeeps
    <2>4. TypeOK'
      <3>1. running' \subseteq {k \in Calls : sent'[k] # None /\ reply'[k] = None}
        BY <2>3 DEF IInv, TypeOK
      <3> QED
        BY <3>1, <2>3, NamesAreFixed DEF SeenTypeOK, IInv, TypeOK
    <2>5. RunningAreServed'
      BY <2>3, NamesAreFixed DEF IInv, TypeOK, RunningAreServed
    <2> QED
      BY <2>3, <2>4, <2>5
  <1> QED
    BY <1>3, <1>4 DEF Enter

\* A request that is on its way, or that its handler or a middleware of it has at once.
LEMMA RequestKeepsIInv ==
    ASSUME IInv, NEW c \in Calls, RequestInProcess(c) \/ RequestLeaves(c)
    PROVE  IInv'
  <1> DEFINE hop == HopOf(c)
  <1>1. /\ Make(c, hop) /\ ~route[c].forget
        /\ UNCHANGED outcome
        /\ hop \in Hops \cup {"local"} /\ hop \in Hops \cup {"local", "none"}
    BY DEF RequestInProcess, RequestLeaves, InProcess, Timed, Hops
  <1> HIDE DEF hop
  <1>2. /\ UNCHANGED <<route, chain, handler>>
        /\ sent' \in [Calls -> Runs \cup {None}]
        /\ sent[c] = None /\ sent'[c] # None /\ outcome[c] = None
        /\ \A k \in Calls : k # c => sent'[k] = sent[k]
    BY <1>1, MakeKeeps
  <1>3. outcome' \in [Calls -> Values \cup {None}]
    BY <1>1 DEF IInv, TypeOK
  <1>4. /\ TypeOK' /\ RunningAreServed' /\ Grows
        /\ RepliesAreSound' /\ RepliesAreAddressed' /\ ReportsAreLocal'
    <2>1. CASE Enter(c, hop)
      BY <2>1, <1>1, <1>2, <1>3, EnterKeeps
    <2>2. CASE UNCHANGED <<running, reply, wire, outcome, seen>>
      <3>1. ReportsAreLocal' /\ \A w \in Values : Sound(w) => Sound(w)'
        BY <2>2, <1>2, SoundStays DEF IInv
      <3>2. Grows
        BY <3>1, <2>2, <1>2 DEF Grows
      <3>3. TypeOK'
        BY <2>2, <1>2, NamesAreFixed DEF IInv, TypeOK
      <3>4. RunningAreServed'
        BY <2>2, <1>2, NamesAreFixed DEF IInv, TypeOK, RunningAreServed
      <3> QED
        BY <3>1, <3>2, <3>3, <3>4, <2>2, RepliesStay
    <2> QED
      BY <2>1, <2>2 DEF RequestInProcess, RequestLeaves, hop
  <1>5. \A k \in Calls : sent'[k] # None /\ route[k].forget => outcome[k] # None
    BY <1>1, <1>2 DEF IInv, SettledWereSent
  <1>6. OutcomesAreSound' /\ OutcomesAreAddressed' /\ SettledWereSent' /\ CallerIsTold'
    BY <1>1, <1>4, <1>5, OutcomesStay
  <1> QED
    BY <1>4, <1>6 DEF IInv

\* A fireAndForget settles when it is made, whatever the handler does of it.
LEMMA FireAndForgetKeepsIInv ==
    ASSUME IInv, NEW c \in Calls, FireAndForget(c)
    PROVE  IInv'
  <1> DEFINE hop == HopOf(c)
             u   == Wrapped(From(c), c, Result)
  <1>1. /\ Make(c, hop) /\ route[c].forget
        /\ outcome' = [outcome EXCEPT ![c] = u]
        /\ Enter(c, hop) \/ UNCHANGED <<running, reply, wire, seen>>
    BY DEF FireAndForget
  <1>2. hop \in Hops \cup {"local"} /\ hop \in Hops \cup {"local", "none"}
    BY DEF HopOf, IInv, TypeOK, Routes
  <1>3. /\ From(c) \in Nodes
        /\ Result \in Values /\ Result.resp = None
        /\ Result.kind = "result" /\ Result.born = None
    BY NodesOfCalls, ResultEnds DEF IInv, TypeOK
  <1>4. PICK up \in Values : /\ up = u /\ up.kind = "result" /\ up.born = None
                             /\ up.resp # None /\ up.resp.requestId = c
                             /\ up.resp.errorSource = None
    BY <1>3, WrappedKeeps
  <1> HIDE DEF hop, u
  <1>5. /\ UNCHANGED <<route, chain, handler>>
        /\ sent' \in [Calls -> Runs \cup {None}]
        /\ sent[c] = None /\ sent'[c] # None /\ outcome[c] = None
        /\ \A k \in Calls : k # c => sent'[k] = sent[k]
    BY <1>1, <1>2, MakeKeeps
  <1>6. /\ outcome' \in [Calls -> Values \cup {None}] /\ outcome'[c] = up
        /\ \A k \in Calls : outcome[k] # None => outcome'[k] = outcome[k]
    BY <1>1, <1>4, <1>5 DEF IInv, TypeOK
  <1>7. /\ TypeOK' /\ RunningAreServed' /\ Grows
        /\ RepliesAreSound' /\ RepliesAreAddressed' /\ ReportsAreLocal'
    <2>1. CASE Enter(c, hop)
      BY <2>1, <1>2, <1>5, <1>6, EnterKeeps
    <2>2. CASE UNCHANGED <<running, reply, wire, seen>>
      <3>1. ReportsAreLocal' /\ \A w \in Values : Sound(w) => Sound(w)'
        BY <2>2, <1>5, SoundStays DEF IInv
      <3>2. Grows
        BY <3>1, <2>2, <1>5, <1>6 DEF Grows
      <3>3. TypeOK'
        BY <2>2, <1>5, <1>6, NamesAreFixed DEF IInv, TypeOK
      <3>4. RunningAreServed'
        BY <2>2, <1>5, NamesAreFixed DEF IInv, TypeOK, RunningAreServed
      <3> QED
        BY <3>1, <3>2, <3>3, <3>4, <2>2, RepliesStay
    <2> QED
      BY <1>1, <2>1, <2>2
  <1>8. Sound(up)'
    BY <1>4 DEF Sound, Named, Told
  <1>9. IsTold(c)'
    BY <1>1, <1>4, <1>5, <1>6 DEF IsTold
  <1>10. OutcomesAreSound' /\ OutcomesAreAddressed' /\ SettledWereSent' /\ CallerIsTold'
    BY <1>1, <1>4, <1>5, <1>7, <1>8, <1>9, OutcomesGrow
  <1> QED
    BY <1>7, <1>10 DEF IInv

\* A request arrives.
LEMMA ServeKeepsIInv ==
    ASSUME IInv, NEW c \in Calls, Serve(c)
    PROVE  IInv'
  <1> DEFINE hop == sent[c].hop
  <1>1. /\ sent[c] # None /\ hop \in Hops \cup {"local"}
        /\ Enter(c, hop)
        /\ UNCHANGED <<route, chain, handler, sent, outcome>>
    BY DEF Serve, Timed, Hops
  <1> HIDE DEF hop
  <1>2. /\ sent' \in [Calls -> Runs \cup {None}]
        /\ outcome' \in [Calls -> Values \cup {None}]
    BY <1>1 DEF IInv, TypeOK
  <1>3. /\ TypeOK' /\ RunningAreServed' /\ Grows
        /\ RepliesAreSound' /\ RepliesAreAddressed' /\ ReportsAreLocal'
    BY <1>1, <1>2, EnterKeeps
  <1>4. OutcomesAreSound' /\ OutcomesAreAddressed' /\ SettledWereSent' /\ CallerIsTold'
    BY <1>1, <1>3, OutcomesStay DEF IInv, SettledWereSent
  <1> QED
    BY <1>3, <1>4 DEF IInv

\* A handler ends, with something of its own or with what a request that it made gave
\* it, as it came or as a raw response.
LEMMA HandlerEndsKeepsIInv ==
    ASSUME IInv, NEW c \in running, NEW v \in Values, HandlerEnds(c, v),
           Ends(v, c, "handler", HandlerChain(c)),
           v.resp = None \/ outcome[v.resp.requestId] # None
    PROVE  IInv'
  <1> DEFINE mws == HandlerChain(c)
             hop == sent[c].hop
  <1>1. /\ c \in Calls /\ sent[c] # None /\ reply[c] = None
        /\ mws \in Seq(Mws) /\ hop \in Hops \cup {"local", "none"}
    BY RunningChains DEF IInv, TypeOK, Runs
  <1>2. /\ ServerEnds(c, v, mws, hop)
        /\ UNCHANGED <<route, chain, handler, sent, outcome>>
    BY DEF HandlerEnds
  <1> HIDE DEF mws, hop
  <1>3. \A k \in Calls : /\ outcome[k] # None => outcome'[k] = outcome[k]
                         /\ sent[k] # None => sent'[k] = sent[k]
    BY <1>2
  <1>4. Ends(v, c, "handler", mws)
    BY DEF mws
  <1>5. /\ Grows
        /\ RepliesAreSound' /\ RepliesAreAddressed' /\ ReportsAreLocal'
        /\ wire' \subseteq Values /\ SeenTypeOK'
        /\ reply' \in [Calls -> Values \cup {None}]
        /\ running' = running \ {c}
        /\ \A k \in Calls : k # c => reply'[k] = reply[k]
    BY <1>1, <1>2, <1>3, <1>4, ServerEndsKeeps
  <1>6. TypeOK'
    <2>1. running' \subseteq {k \in Calls : sent'[k] # None /\ reply'[k] = None}
      BY <1>2, <1>5 DEF IInv, TypeOK
    <2> QED
      BY <2>1, <1>2, <1>5, NamesAreFixed DEF SeenTypeOK, IInv, TypeOK
  <1>7. RunningAreServed'
    BY <1>2, <1>5, NamesAreFixed DEF IInv, TypeOK, RunningAreServed
  <1>8. OutcomesAreSound' /\ OutcomesAreAddressed' /\ SettledWereSent' /\ CallerIsTold'
    BY <1>2, <1>5, OutcomesStay DEF IInv, SettledWereSent
  <1> QED
    BY <1>5, <1>6, <1>7, <1>8 DEF IInv

\* What a handler's requests gave it may be passed on.
LEMMA OutcomesEnd ==
    ASSUME IInv, NEW c \in Calls, NEW k \in Children(c), NEW mws
    PROVE  LET v == outcome[k] IN
           /\ v \in Values /\ Raw(v) \in Values
           /\ Ends(v, c, "handler", mws) /\ Ends(Raw(v), c, "handler", mws)
           /\ outcome[v.resp.requestId] # None /\ outcome[Raw(v).resp.requestId] # None
  <1>1. k \in Calls /\ outcome[k] # None
    BY DEF Children
  <1>2. PICK v \in Values : v = outcome[k] /\ Sound(v) /\ outcome[v.resp.requestId] # None
    BY <1>1 DEF IInv, TypeOK, OutcomesAreSound, OutcomesAreAddressed
  <1>3. Raw(v) \in Values /\ Raw(v).resp = v.resp /\ Sound(Raw(v))
    BY <1>2, RawKeeps, StandsForTheSame
  <1>4. /\ v \in Values /\ Raw(v) \in Values
        /\ Ends(v, c, "handler", mws) /\ Ends(Raw(v), c, "handler", mws)
        /\ outcome[v.resp.requestId] # None /\ outcome[Raw(v).resp.requestId] # None
    BY <1>2, <1>3 DEF Ends
  <1> QED
    BY <1>2, <1>4

\* Every handler: of a service, and of a bridge.
LEMMA HandlersKeepIInv ==
    ASSUME IInv, NEW c \in Calls, UserHandler(c) \/ BridgeForwards(c) \/ BridgeRefuses(c)
    PROVE  IInv'
  <1> DEFINE mws == HandlerChain(c)
  <1>1. c \in running
    BY DEF UserHandler, Returns, Throws, Rethrows, ReturnsRaw, BridgeForwards,
           BridgeRefuses, HandlerEnds
  <1>2. mws \in Seq(Mws)
    BY <1>1, RunningChains
  <1>3. CASE Returns(c)
    BY <1>1, <1>3, ResultEnds, HandlerEndsKeepsIInv DEF Returns, Ends
  <1>4. ASSUME NEW kind \in {"error", "other"},
               HandlerEnds(c, Thrown(kind, c, "handler", mws))
        PROVE  IInv'
    <2>1. /\ Thrown(kind, c, "handler", mws) \in Values
          /\ Thrown(kind, c, "handler", mws).resp = None
          /\ Ends(Thrown(kind, c, "handler", mws), c, "handler", mws)
      BY <1>2, ThrownEnds DEF Sides
    <2> QED
      BY <2>1, <1>1, <1>4, HandlerEndsKeepsIInv
  <1>5. CASE Throws(c)
    BY <1>4, <1>5 DEF Throws
  <1>6. CASE Rethrows(c)
    BY <1>1, <1>6, OutcomesEnd, HandlerEndsKeepsIInv DEF Rethrows
  <1>7. CASE ReturnsRaw(c) \/ BridgeForwards(c)
    BY <1>1, <1>7, OutcomesEnd, HandlerEndsKeepsIInv DEF ReturnsRaw, BridgeForwards
  <1>8. CASE BridgeRefuses(c)
    <2>1. mws = <<>>
      BY <1>8 DEF BridgeRefuses, HandlerChain
    <2> QED
      BY <2>1, <1>4, <1>8 DEF BridgeRefuses
  <1> QED
    BY <1>3, <1>5, <1>6, <1>7, <1>8 DEF UserHandler

\* The promise of a request settles.
LEMMA SettlesKeepsIInv ==
    ASSUME IInv, NEW c \in Calls, NEW v \in Values, Settles(c, v), wire' \subseteq wire,
           Ends(v, c, "request", sent[c].mws), Tells(c, v, sent[c].mws),
           v.resp = None \/ v.resp.requestId = c \/ outcome[v.resp.requestId] # None
    PROVE  IInv'
  <1> DEFINE mws == sent[c].mws
  <1>1. /\ sent[c] # None /\ outcome[c] = None
        /\ ClientEnds(c, v, mws)
        /\ UNCHANGED <<route, chain, handler, sent, running, reply>>
    BY DEF Settles, Waiting
  <1>2. mws \in Seq(Mws)
    BY <1>1 DEF IInv, TypeOK, Runs
  <1>3. Ends(v, c, "request", mws) /\ Tells(c, v, mws)
    OBVIOUS
  <1> HIDE DEF mws
  <1>4. /\ RepliesAreSound' /\ RepliesAreAddressed' /\ ReportsAreLocal'
        /\ OutcomesAreSound' /\ OutcomesAreAddressed'
        /\ SettledWereSent' /\ CallerIsTold'
        /\ SeenTypeOK' /\ outcome' \in [Calls -> Values \cup {None}]
    BY <1>1, <1>2, <1>3, ClientEndsKeeps
  <1>5. TypeOK'
    BY <1>1, <1>4, NamesAreFixed DEF IInv, TypeOK, SeenTypeOK
  <1>6. RunningAreServed'
    BY <1>1, NamesAreFixed DEF IInv, TypeOK, RunningAreServed
  <1> QED
    BY <1>4, <1>5, <1>6 DEF IInv

\* In the same process, or on the connection that the request came by, the answer is
\* what the handler's chain ended with.
LEMMA DirectKeepsIInv ==
    ASSUME IInv, NEW c \in Calls, SettlesLocally(c) \/ SettlesDirectly(c)
    PROVE  IInv'
  <1>1. /\ reply[c] # None /\ UNCHANGED wire /\ Waiting(c)
    BY DEF SettlesLocally, SettlesDirectly, Settles
  <1>2. ~route[c].forget /\ sent[c] # None
    BY <1>1 DEF IInv, SettledWereSent, Waiting
  <1>3. PICK v \in Values : v = reply[c] /\ Sound(v) /\ v.resp # None
    BY <1>1 DEF IInv, TypeOK, RepliesAreSound, Sound, Named
  <1>4. v.resp.requestId = c \/ outcome[v.resp.requestId] # None
    BY <1>1, <1>3 DEF IInv, RepliesAreAddressed
  <1>5. /\ Received(v) \in Values /\ Received(v).resp = v.resp /\ Received(v).born = v.born
        /\ Received(v).kind = IF v.resp.errorSource = None THEN "result" ELSE "error"
        /\ Sound(Received(v))
    BY <1>3, ReceivedKeeps, StandsForTheSame
  <1>6. CASE SettlesLocally(c)
    <2>1. Tells(c, v, sent[c].mws)
      <3>1. v.kind = "error" => Received(v).kind = "error"
        BY <1>3, <1>5 DEF Sound, Named
      <3>2. v.kind \in {"result", "error", "other"} /\ sent[c].hop = "local"
        BY <1>6 DEF Values, SettlesLocally
      <3> QED
        BY <3>1, <3>2, <1>1, <1>2, <1>3 DEF Tells
    <2>2. Ends(v, c, "request", sent[c].mws)
      BY <1>3 DEF Ends
    <2> QED
      BY <2>1, <2>2, <1>1, <1>3, <1>4, <1>6, SettlesKeepsIInv DEF SettlesLocally
  <1>7. CASE SettlesDirectly(c)
    <2>1. Caught(From(c), c, reply[c]) = Received(v)
      BY <1>3 DEF Caught
    <2>2. Settles(c, Received(v))
      BY <2>1, <1>7 DEF SettlesDirectly
    <2>3. Tells(c, Received(v), sent[c].mws)
      BY <1>1, <1>2, <1>3, <1>5 DEF Tells
    <2>4. Ends(Received(v), c, "request", sent[c].mws)
      BY <1>5 DEF Ends
    <2> QED
      BY <2>2, <2>3, <2>4, <1>1, <1>4, <1>5, SettlesKeepsIInv
  <1> QED
    BY <1>6, <1>7

\* A response settles the request that it names, if that waits: then it is what the
\* handler's chain of this request ended with.
LEMMA DeliverKeepsIInv ==
    ASSUME IInv, NEW v \in wire, Deliver(v)
    PROVE  IInv'
  <1> DEFINE c == v.resp.requestId
  <1>1. v \in Values /\ Sound(v) /\ v.resp # None
    BY DEF IInv, TypeOK, RepliesAreSound, Sound, Named
  <1>2. c \in Calls /\ wire' \subseteq wire
    BY <1>1 DEF Values, Resps, Deliver
  <1>3. CASE Waiting(c)
    <2>1. /\ reply[c] # None /\ v.born = reply[c].born
          /\ v.resp.errorSource = reply[c].resp.errorSource
      BY <1>2, <1>3 DEF IInv, RepliesAreAddressed, Waiting
    <2>2. ~route[c].forget
      BY <1>2, <1>3 DEF IInv, SettledWereSent, Waiting
    <2>3. PICK a \in Values : a = reply[c] /\ a.resp # None
      BY <2>1, <1>2 DEF IInv, TypeOK, RepliesAreSound, Sound, Named
    <2>4. /\ Received(v) \in Values /\ Received(v).resp = v.resp
          /\ Received(v).born = v.born /\ Received(v).kind = Received(a).kind
          /\ Sound(Received(v))
      BY <2>1, <2>3, <1>1, ReceivedKeeps, StandsForTheSame
    <2>5. Tells(c, Received(v), sent[c].mws) /\ Ends(Received(v), c, "request", sent[c].mws)
      BY <2>1, <2>2, <2>3, <2>4 DEF Tells, Ends
    <2>6. Settles(c, Received(v))
      BY <1>3 DEF Deliver
    <2> QED
      BY <2>4, <2>5, <2>6, <1>2, SettlesKeepsIInv
  <1>4. CASE ~Waiting(c)
    <2>1. UNCHANGED <<route, chain, handler, sent, running, reply, outcome, seen>>
      BY <1>4 DEF Deliver
    <2>2. Grows /\ ReportsAreLocal'
      BY <2>1, SoundStays DEF Grows, IInv
    <2>3. TypeOK'
      BY <2>1, <1>2, NamesAreFixed DEF IInv, TypeOK
    <2>4. RunningAreServed'
      BY <2>1, NamesAreFixed DEF IInv, TypeOK, RunningAreServed
    <2> QED
      BY <2>1, <2>2, <2>3, <2>4, <1>2, RepliesStay, OutcomesStay DEF IInv, SettledWereSent
  <1> QED
    BY <1>3, <1>4

\* The timer of the transport.
LEMMA TimesOutKeepsIInv ==
    ASSUME IInv, NEW c \in Calls, TimesOut(c)
    PROVE  IInv'
  <1> DEFINE mws == sent[c].mws
             w   == Caught(From(c), c, Thrown("error", c, "request", mws))
  <1>1. sent[c] # None /\ Settles(c, w) /\ UNCHANGED wire
    BY DEF TimesOut
  <1>2. mws \in Seq(Mws) /\ route \in [Calls -> Routes]
    BY <1>1 DEF IInv, TypeOK, Runs
  <1>3. /\ w \in Values /\ w.born = Birth(c, "request", mws)
        /\ w.resp.requestId = c /\ Ends(w, c, "request", mws)
    BY <1>2, CaughtEnds
  <1>4. Tells(c, w, mws)
    BY <1>3 DEF Tells
  <1> QED
    BY <1>1, <1>3, <1>4, SettlesKeepsIInv

\* Every step.
LEMMA NextKeepsIInv == IInv /\ [Next]_vars => IInv'
  <1> SUFFICES ASSUME IInv, [Next]_vars PROVE IInv'
    OBVIOUS
  <1>1. CASE UNCHANGED vars
    <2>1. UNCHANGED <<route, chain, handler, sent, running, reply, wire, outcome, seen>>
      BY <1>1 DEF vars, callVars
    <2>2. Grows /\ ReportsAreLocal'
      BY <2>1, SoundStays DEF Grows, IInv
    <2>3. TypeOK'
      BY <2>1, NamesAreFixed DEF IInv, TypeOK
    <2>4. RunningAreServed'
      BY <2>1, NamesAreFixed DEF IInv, TypeOK, RunningAreServed
    <2> QED
      BY <2>1, <2>2, <2>3, <2>4, RepliesStay, OutcomesStay DEF IInv, SettledWereSent
  <1>2. ASSUME NEW c \in Calls,
               \/ RequestFails(c) \/ RequestInProcess(c) \/ RequestLeaves(c)
               \/ FireAndForget(c) \/ Serve(c)
        PROVE  IInv'
    BY <1>2, RequestFailsKeepsIInv, RequestKeepsIInv, FireAndForgetKeepsIInv, ServeKeepsIInv
  <1>3. ASSUME NEW c \in Calls,
               \/ UserHandler(c) \/ BridgeForwards(c) \/ BridgeRefuses(c)
               \/ SettlesLocally(c) \/ SettlesDirectly(c) \/ TimesOut(c)
        PROVE  IInv'
    BY <1>3, HandlersKeepIInv, DirectKeepsIInv, TimesOutKeepsIInv
  <1> QED
    BY <1>1, <1>2, <1>3, SetUpKeepsIInv, DeliverKeepsIInv DEF Next

-----------------------------------------------------------------------------
\* The invariant of every value on its way.
THEOREM Invariance == Spec => []IInv
  <1> QED
    BY InitIInv, NextKeepsIInv, PTL DEF Spec

\* Every variable has its type (CallChain.TypeOK).
THEOREM TypeCorrect == Spec => []TypeOK
  <1>1. IInv => TypeOK
    BY DEF IInv
  <1> QED
    BY <1>1, Invariance, PTL

\* _prepareResponse and the merges of headers: an error that reaches a caller has the
\* node where it arose in its errorSource, over any number of hops, bridges and
\* handlers that rethrow it or return it as a raw response.
THEOREM ErrorsNameTheirOrigin == Spec => []ErrorNamesItsOrigin
  <1>1. IInv => ErrorNamesItsOrigin
    BY DEF IInv, OutcomesAreSound, Sound, Named, ErrorNamesItsOrigin
  <1> QED
    BY <1>1, Invariance, PTL

\* mw-error-reporting and metrics: no error is reported on another node than where it
\* arose, and none that a chain ended with goes unreported and uncounted there.
THEOREM ErrorsAreReportedAtTheirOrigin == Spec => []ReportedWhereItArose
  <1>1. ASSUME IInv, NEW c \in Calls, NEW v \in {reply[c], outcome[c]} \ {None},
               v.kind = "error", NEW mw \in v.born.above \ {"guard"}
        PROVE  [mw |-> mw, call |-> v.born.call, side |-> v.born.side, born |-> v.born] \in seen
    <2>1. Sound(v)
      BY <1>1 DEF IInv, RepliesAreSound, OutcomesAreSound
    <2>2. v.resp.errorSource # None
      BY <2>1, <1>1 DEF Sound, Named
    <2> QED
      BY <2>1, <2>2, <1>1 DEF Sound, Told, Note
  <1>2. IInv => ReportedWhereItArose
    BY <1>1 DEF IInv, ReportsAreLocal, ReportedWhereItArose
  <1> QED
    BY <1>2, Invariance, PTL

\* StellarRequest, StellarHandler and the transports: whatever way a request goes, its
\* caller is told what the handler's chain ended with, unless the caller's own chain or
\* timer failed, with the exceptions that CallerIsTold names.
THEOREM CallersAreTold == Spec => []CallerIsTold
  <1>1. IInv => CallerIsTold
    BY DEF IInv
  <1> QED
    BY <1>1, Invariance, PTL
=============================================================================
