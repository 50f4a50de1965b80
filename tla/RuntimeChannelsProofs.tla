------------------------- MODULE RuntimeChannelsProofs -------------------------
(***************************************************************************)
(* The invariants of RuntimeChannels, proved for any number of requests,   *)
(* channels and kinds of secrets.                                          *)
(*                                                                         *)
(* What they need beside themselves is where each operation stands: the    *)
(* steps it has left determine what it has in memory (MineCurrent,         *)
(* Overtaken), what the env file and the container lag behind (EnvKept,    *)
(* GatewayLags, SecretsLag), and how far it is with its own item           *)
(* (Progress).  A transaction is accounted for against the rows it would   *)
(* restore (Aside, Noticed), and an operation that has had none beside it  *)
(* is the only one there is (Lonely).                                      *)
(***************************************************************************)
EXTENDS RuntimeChannels, FiniteSetTheorems, SequenceTheorems, TLAPS

\* The steps an operation may have before it.
Rest == [o \in Ops |->
    CASE o = "integrate" ->
            {Integrate, <<"connect", "save", "env", "up">>,
             IntegrateAllowing, <<"connect", "secret", "save", "env", "up">>,
             <<"secret", "save", "env", "up">>, <<"save", "env", "up">>,
             <<"env", "up">>, <<"up">>}
      [] o = "secret" ->
            {Store, <<"connect", "save", "secret", "env", "up">>,
             <<"save", "secret", "env", "up">>, <<"secret", "env", "up">>,
             <<"env", "up">>, <<"up">>}
      [] o = "unlink" ->
            {Unlink, <<"save", "env", "up", "disconnect">>,
             <<"env", "up", "disconnect">>, <<"up", "disconnect">>, <<"disconnect">>}
      [] o = "skills" -> {SaveSkills, <<"save">>}
      [] o = "limits" ->
            {<<"load", "save">>, <<"save">>, <<"load", "save", "env", "up">>,
             <<"save", "env", "up">>, <<"env", "up">>, <<"up">>}
      [] o = "provision" ->
            {Provision, <<"secret", "env", "relink", "up", "commit">>,
             <<"env", "relink", "up", "commit">>, <<"relink", "up", "commit">>,
             <<"up", "commit">>, <<"commit">>}
      [] o = "backfill" -> {Backfill, <<"relink">>}]

\* Operations on an item that has a connection.
Linking == {"integrate", "secret", "unlink"}

Flow ==
    /\ todo \in [Procs -> Seq(Steps)]
    /\ \A p \in Procs : Busy(p) => todo[p] \in Rest[job[p].op]
    /\ old \in [row : SUBSET Items, conn : [Served -> Status \cup {None}]]
    /\ gateway \in [env : SUBSET Served, secret : [Kinds -> 0..MaxRequests]]

\* What a request has asked for.
Asked ==
    \A p \in Procs : Busy(p) =>
        /\ job[p].op \in Linking => job[p].item \in Served
        /\ job[p].op = "secret" => job[p].on
        /\ job[p].op = "unlink" => ~job[p].on
        /\ job[p].op = "skills" => job[p].item = Skills
        /\ job[p].op \in {"limits", "provision", "backfill"} => job[p].item = None
        /\ job[p].op = "limits" => ~job[p].on

\* A request stores each of its secrets once.
Pending == {p \in Procs : Before(p, "secret")}
Counted ==
    /\ IsFiniteSet(Pending)
    /\ \A k \in Kinds : secret[k] + Cardinality(Pending) <= requests

\* An operation that has had none beside it is the only one.
Lonely == \A p, q \in Procs : Busy(p) /\ Busy(q) /\ alone[p] => p = q

\* What is in memory is what is committed, unless the row has changed since;
\* inside the transaction it is the row.
MineCurrent ==
    \A p \in Procs :
        /\ writer = p => mine[p] = row
        /\ Busy(p) /\ ~At(p, "load") /\ ~At(p, "enter") /\ ~stale[p] /\ writer # p =>
              mine[p] = Committed

\* Who had saved before the transaction began, and is to write the env file
\* still, has been overtaken.
Overtaken ==
    \A p \in Procs :
        /\ writer # NoProc /\ writer # p /\ ~At(p, "enter")
        /\ Before(p, "env") /\ ~Before(p, "save")
        => stale[p]

\* The env file says what the committed row says, unless somebody is to write
\* it; once the transaction has written it, it says what the row says.
EnvKept ==
    "env" \notin trouble =>
        /\ \/ \E p \in Procs :
                 \/ /\ writer # p /\ ~At(p, "enter")
                    /\ Before(p, "env") /\ ~Before(p, "save")
                 \/ writer = p /\ ~Before(p, "env")
           \/ env = Committed \cap Served
        /\ \A p \in Procs : writer = p /\ ~Before(p, "env") => env = row \cap Served

\* The gateway has the env file, unless somebody has yet to recreate it.
GatewayLags ==
    \/ "env" \in trouble
    \/ \E p \in Procs : Before(p, "up") /\ ~Before(p, "env")
    \/ gateway.env = env

\* The gateway has the secrets, unless somebody has yet to recreate it.
SecretsLag ==
    \/ "secret" \in trouble
    \/ \E p \in Procs : Before(p, "up")
    \/ gateway.secret = secret

\* What a transaction has changed: the columns at once, the connections of what
\* is on when it relinks, and nothing else.
Aside ==
    \A p \in Procs : writer = p => \A i \in Served :
        /\ i \in old.row /\ i \notin row => i \in apart
        /\ conn[i] = IF i \in row /\ ~Before(p, "relink") THEN "configured" ELSE old.conn[i]

\* How far an operation is with its item.
Connected(p) == Busy(p) /\ job[p].op \in {"integrate", "secret"} /\ ~Before(p, "connect")
Saved(p) == Busy(p) /\ job[p].op \in Linking /\ ~Before(p, "save")

\* The transaction has noticed operations that were at what it relinked.
Noticed ==
    \A p, q \in Procs :
        /\ writer = p /\ ~Before(p, "relink") /\ q # p
        /\ Connected(q) \/ Saved(q)
        /\ job[q].item \in row
        => job[q].item \in apart

\* The connections as committed.
Links == IF writer = NoProc THEN conn ELSE old.conn

\* What an operation has done to its item stands, unless another is at it too.
Progress ==
    \A p \in Procs : ~(job[p].item \in apart /\ ~alone[p]) =>
        /\ Connected(p) => IF job[p].on THEN Links[job[p].item] \in {"configured", "tested"}
                           ELSE Links[job[p].item] # "configured"
        /\ Saved(p) => (job[p].item \in Committed <=> job[p].on)

\* What is committed is in order, but for what an operation is at.
InOrder ==
    \A i \in Served \ apart :
        \/ \E p \in Procs : Busy(p) /\ job[p].item = i
        \/ IF i \in Committed THEN Links[i] \in {"configured", "tested"}
           ELSE Links[i] # "configured"

\* The inductive invariant.
IInv ==
    /\ TypeOK /\ Flow /\ Asked /\ Counted /\ Lonely /\ MineCurrent /\ Overtaken
    /\ EnvKept /\ GatewayLags /\ SecretsLag /\ Aside /\ Noticed /\ Progress /\ InOrder

-----------------------------------------------------------------------------
(***************************************************************************)
(* Where an operation stands                                               *)
(***************************************************************************)

\* A step is before an operation if it is the next one, or comes after it.
LEMMA NextOrLater ==
    ASSUME NEW S, NEW s \in Seq(S), s # <<>>, NEW x
    PROVE  Contains(s, x) <=> x = Head(s) \/ Contains(Tail(s), x)
<1>1. /\ Len(s) \in Nat \ {0} /\ Head(s) = s[1] /\ Len(Tail(s)) = Len(s) - 1
      /\ \A i \in 1 .. Len(Tail(s)) : Tail(s)[i] = s[i + 1]
  OBVIOUS
<1>2. ASSUME NEW i \in 1 .. Len(s), s[i] = x
      PROVE  x = Head(s) \/ Contains(Tail(s), x)
  <2>1. CASE i = 1
    BY <1>1, <1>2, <2>1
  <2>2. CASE i # 1
    <3>1. i - 1 \in 1 .. Len(Tail(s)) /\ Tail(s)[i - 1] = x
      BY <1>1, <1>2, <2>2
    <3> QED
      BY <3>1 DEF Contains
  <2> QED
    BY <2>1, <2>2
<1>3. ASSUME NEW i \in 1 .. Len(Tail(s)), Tail(s)[i] = x
      PROVE  Contains(s, x)
  <2>1. i + 1 \in 1 .. Len(s) /\ s[i + 1] = x
    BY <1>1, <1>3
  <2> QED
    BY <2>1 DEF Contains
<1>4. Head(s) = s[1] /\ 1 \in 1 .. Len(s)
  BY <1>1
<1> QED
  BY <1>2, <1>3, <1>4 DEF Contains

\* What the steps an operation has before it say of each other.
Fits(o, s) ==
    /\ s \in Seq(Steps) /\ s # <<>>
    /\ Tail(s) \in Rest[o] \/ Tail(s) = <<>>
    /\ Len(s) = 1 <=> Tail(s) = <<>>
    /\ ~Contains(Tail(s), Head(s))
    /\ Tail(s) # <<>> => Head(Tail(s)) \notin {"load", "enter"}
    \* which operation has which steps
    /\ Contains(s, "commit") <=> o = "provision"
    /\ Contains(s, "enter") <=> Head(s) = "enter"
    /\ Contains(s, "connect") => o \in {"integrate", "secret"}
    /\ Contains(s, "save") => o \notin {"provision", "backfill"}
    /\ Contains(s, "up") => o # "backfill"
    /\ Head(s) \in {"connect", "disconnect"} => o \in Linking
    /\ Head(s) = "disconnect" => o = "unlink"
    /\ Head(s) = "relink" => o \in {"provision", "backfill"}
    /\ Head(s) = "load" => o # "provision"
    /\ Head(s) = "enter" => o = "provision"
    \* which steps come after which
    /\ Contains(s, "env") => Contains(s, "up")
    /\ Contains(s, "secret") => Contains(s, "env")
    /\ Contains(s, "connect") => Contains(s, "save")
    /\ Contains(s, "save") /\ o \in Linking => Contains(s, "env")
    /\ Contains(s, "up") /\ ~Contains(s, "env") => ~Contains(s, "save")
    /\ Head(s) = "load" =>
          /\ o # "backfill" => Contains(s, "save")
          /\ o \in {"integrate", "secret"} => Contains(s, "connect")
    /\ Head(s) = "enter" =>
          Contains(s, "secret") /\ Contains(s, "relink")
    /\ Head(s) \in {"save", "env", "up"} => ~Contains(s, "connect")
    /\ Head(s) \in {"env", "up", "disconnect", "relink"} => ~Contains(s, "save")
    /\ Head(s) \in {"relink", "up", "commit"} => ~Contains(s, "env")
    /\ Head(s) \in {"up", "commit"} => ~Contains(s, "relink")
    \* which steps are the last
    /\ Len(s) = 1 => Head(s) \in {"save", "up", "disconnect", "relink", "commit"}
    /\ Len(s) = 1 /\ Head(s) = "save" => o \in {"skills", "limits"}
    /\ Len(s) = 1 /\ Head(s) = "up" => o \in {"integrate", "secret", "limits"}
    /\ Len(s) # 1 /\ Head(s) = "up" => o \notin {"integrate", "secret"}
    /\ Head(s) = "relink" => (Len(s) = 1 <=> o = "backfill")
    /\ Head(s) \in {"disconnect", "commit"} => Len(s) = 1

\* The steps of upsert_integration_connection.
LEMMA IntegrateFits ==
    ASSUME NEW s \in Rest["integrate"]
    PROVE  Fits("integrate", s)
<1> DEFINE R == Rest["integrate"]
<1>a. R = {<<"load", "connect", "save", "env", "up">>,
           <<"connect", "save", "env", "up">>,
           <<"load", "connect", "secret", "save", "env", "up">>,
           <<"connect", "secret", "save", "env", "up">>,
           <<"secret", "save", "env", "up">>,
           <<"save", "env", "up">>,
           <<"env", "up">>,
           <<"up">>}
  BY DEF Rest, Ops, Integrate, IntegrateAllowing
<1> HIDE DEF R
<1>1. CASE s = <<"load", "connect", "save", "env", "up">>
  <2>1. /\ s \in Seq(Steps) /\ s # <<>> /\ Len(s) = 5 /\ Head(s) = "load"
        /\ Tail(s) # <<>> /\ Head(Tail(s)) = "connect"
    BY <1>1 DEF Steps
  <2>2. \A x : Contains(s, x) <=> x \in {"load", "connect", "save", "env", "up"}
    BY <1>1 DEF Contains
  <2>3. Tail(s) = <<"connect", "save", "env", "up">>
    BY <1>1
  <2>4. \A x : Contains(Tail(s), x) <=> x \in {"connect", "save", "env", "up"}
    <3>1. \A x : Contains(<<"connect", "save", "env", "up">>, x) <=> x \in {"connect", "save", "env", "up"}
      BY DEF Contains
    <3> QED
      BY <2>3, <3>1, Zenon
  <2>5. Tail(s) \in R \/ Tail(s) = <<>>
    BY <1>a, <2>3
  <2> HIDE <1>1
  <2> QED
    BY <2>1, <2>2, <2>4, <2>5, SMTT(30) DEF Fits, R, Linking
<1>2. CASE s = <<"connect", "save", "env", "up">>
  <2>1. /\ s \in Seq(Steps) /\ s # <<>> /\ Len(s) = 4 /\ Head(s) = "connect"
        /\ Tail(s) # <<>> /\ Head(Tail(s)) = "save"
    BY <1>2 DEF Steps
  <2>2. \A x : Contains(s, x) <=> x \in {"connect", "save", "env", "up"}
    BY <1>2 DEF Contains
  <2>3. Tail(s) = <<"save", "env", "up">>
    BY <1>2
  <2>4. \A x : Contains(Tail(s), x) <=> x \in {"save", "env", "up"}
    <3>1. \A x : Contains(<<"save", "env", "up">>, x) <=> x \in {"save", "env", "up"}
      BY DEF Contains
    <3> QED
      BY <2>3, <3>1, Zenon
  <2>5. Tail(s) \in R \/ Tail(s) = <<>>
    BY <1>a, <2>3
  <2> HIDE <1>2
  <2> QED
    BY <2>1, <2>2, <2>4, <2>5, SMTT(30) DEF Fits, R, Linking
<1>3. CASE s = <<"load", "connect", "secret", "save", "env", "up">>
  <2>1. /\ s \in Seq(Steps) /\ s # <<>> /\ Len(s) = 6 /\ Head(s) = "load"
        /\ Tail(s) # <<>> /\ Head(Tail(s)) = "connect"
    BY <1>3 DEF Steps
  <2>2. \A x : Contains(s, x) <=> x \in {"load", "connect", "secret", "save", "env", "up"}
    BY <1>3 DEF Contains
  <2>3. Tail(s) = <<"connect", "secret", "save", "env", "up">>
    BY <1>3
  <2>4. \A x : Contains(Tail(s), x) <=> x \in {"connect", "secret", "save", "env", "up"}
    <3>1. \A x : Contains(<<"connect", "secret", "save", "env", "up">>, x) <=> x \in {"connect", "secret", "save", "env", "up"}
      BY DEF Contains
    <3> QED
      BY <2>3, <3>1, Zenon
  <2>5. Tail(s) \in R \/ Tail(s) = <<>>
    BY <1>a, <2>3
  <2> HIDE <1>3
  <2> QED
    BY <2>1, <2>2, <2>4, <2>5, SMTT(30) DEF Fits, R, Linking
<1>4. CASE s = <<"connect", "secret", "save", "env", "up">>
  <2>1. /\ s \in Seq(Steps) /\ s # <<>> /\ Len(s) = 5 /\ Head(s) = "connect"
        /\ Tail(s) # <<>> /\ Head(Tail(s)) = "secret"
    BY <1>4 DEF Steps
  <2>2. \A x : Contains(s, x) <=> x \in {"connect", "secret", "save", "env", "up"}
    BY <1>4 DEF Contains
  <2>3. Tail(s) = <<"secret", "save", "env", "up">>
    BY <1>4
  <2>4. \A x : Contains(Tail(s), x) <=> x \in {"secret", "save", "env", "up"}
    <3>1. \A x : Contains(<<"secret", "save", "env", "up">>, x) <=> x \in {"secret", "save", "env", "up"}
      BY DEF Contains
    <3> QED
      BY <2>3, <3>1, Zenon
  <2>5. Tail(s) \in R \/ Tail(s) = <<>>
    BY <1>a, <2>3
  <2> HIDE <1>4
  <2> QED
    BY <2>1, <2>2, <2>4, <2>5, SMTT(30) DEF Fits, R, Linking
<1>5. CASE s = <<"secret", "save", "env", "up">>
  <2>1. /\ s \in Seq(Steps) /\ s # <<>> /\ Len(s) = 4 /\ Head(s) = "secret"
        /\ Tail(s) # <<>> /\ Head(Tail(s)) = "save"
    BY <1>5 DEF Steps
  <2>2. \A x : Contains(s, x) <=> x \in {"secret", "save", "env", "up"}
    BY <1>5 DEF Contains
  <2>3. Tail(s) = <<"save", "env", "up">>
    BY <1>5
  <2>4. \A x : Contains(Tail(s), x) <=> x \in {"save", "env", "up"}
    <3>1. \A x : Contains(<<"save", "env", "up">>, x) <=> x \in {"save", "env", "up"}
      BY DEF Contains
    <3> QED
      BY <2>3, <3>1, Zenon
  <2>5. Tail(s) \in R \/ Tail(s) = <<>>
    BY <1>a, <2>3
  <2> HIDE <1>5
  <2> QED
    BY <2>1, <2>2, <2>4, <2>5, SMTT(30) DEF Fits, R, Linking
<1>6. CASE s = <<"save", "env", "up">>
  <2>1. /\ s \in Seq(Steps) /\ s # <<>> /\ Len(s) = 3 /\ Head(s) = "save"
        /\ Tail(s) # <<>> /\ Head(Tail(s)) = "env"
    BY <1>6 DEF Steps
  <2>2. \A x : Contains(s, x) <=> x \in {"save", "env", "up"}
    BY <1>6 DEF Contains
  <2>3. Tail(s) = <<"env", "up">>
    BY <1>6
  <2>4. \A x : Contains(Tail(s), x) <=> x \in {"env", "up"}
    <3>1. \A x : Contains(<<"env", "up">>, x) <=> x \in {"env", "up"}
      BY DEF Contains
    <3> QED
      BY <2>3, <3>1, Zenon
  <2>5. Tail(s) \in R \/ Tail(s) = <<>>
    BY <1>a, <2>3
  <2> HIDE <1>6
  <2> QED
    BY <2>1, <2>2, <2>4, <2>5, SMTT(30) DEF Fits, R, Linking
<1>7. CASE s = <<"env", "up">>
  <2>1. /\ s \in Seq(Steps) /\ s # <<>> /\ Len(s) = 2 /\ Head(s) = "env"
        /\ Tail(s) # <<>> /\ Head(Tail(s)) = "up"
    BY <1>7 DEF Steps
  <2>2. \A x : Contains(s, x) <=> x \in {"env", "up"}
    BY <1>7 DEF Contains
  <2>3. Tail(s) = <<"up">>
    BY <1>7
  <2>4. \A x : Contains(Tail(s), x) <=> x \in {"up"}
    <3>1. \A x : Contains(<<"up">>, x) <=> x \in {"up"}
      BY DEF Contains
    <3> QED
      BY <2>3, <3>1, Zenon
  <2>5. Tail(s) \in R \/ Tail(s) = <<>>
    BY <1>a, <2>3
  <2> HIDE <1>7
  <2> QED
    BY <2>1, <2>2, <2>4, <2>5, SMTT(30) DEF Fits, R, Linking
<1>8. CASE s = <<"up">>
  <2>1. /\ s \in Seq(Steps) /\ s # <<>> /\ Len(s) = 1 /\ Head(s) = "up"
    BY <1>8 DEF Steps
  <2>2. \A x : Contains(s, x) <=> x \in {"up"}
    BY <1>8 DEF Contains
  <2>3. Tail(s) = <<>>
    BY <1>8
  <2>4. \A x : Contains(Tail(s), x) <=> x \in {}
    <3>1. \A x : Contains(<<>>, x) <=> x \in {}
      BY DEF Contains
    <3> QED
      BY <2>3, <3>1, Zenon
  <2>5. Tail(s) \in R \/ Tail(s) = <<>>
    BY <1>a, <2>3
  <2> HIDE <1>8
  <2> QED
    BY <2>1, <2>2, <2>3, <2>4, <2>5 DEF Fits, R, Linking
<1> QED
  BY <1>a, <1>1, <1>2, <1>3, <1>4, <1>5, <1>6, <1>7, <1>8 DEF R

\* The steps of upsert_runtime_secret.
LEMMA StoreFits ==
    ASSUME NEW s \in Rest["secret"]
    PROVE  Fits("secret", s)
<1> DEFINE R == Rest["secret"]
<1>a. R = {<<"load", "connect", "save", "secret", "env", "up">>,
           <<"connect", "save", "secret", "env", "up">>,
           <<"save", "secret", "env", "up">>,
           <<"secret", "env", "up">>,
           <<"env", "up">>,
           <<"up">>}
  BY DEF Rest, Ops, Store
<1> HIDE DEF R
<1>1. CASE s = <<"load", "connect", "save", "secret", "env", "up">>
  <2>1. /\ s \in Seq(Steps) /\ s # <<>> /\ Len(s) = 6 /\ Head(s) = "load"
        /\ Tail(s) # <<>> /\ Head(Tail(s)) = "connect"
    BY <1>1 DEF Steps
  <2>2. \A x : Contains(s, x) <=> x \in {"load", "connect", "save", "secret", "env", "up"}
    BY <1>1 DEF Contains
  <2>3. Tail(s) = <<"connect", "save", "secret", "env", "up">>
    BY <1>1
  <2>4. \A x : Contains(Tail(s), x) <=> x \in {"connect", "save", "secret", "env", "up"}
    <3>1. \A x : Contains(<<"connect", "save", "secret", "env", "up">>, x) <=> x \in {"connect", "save", "secret", "env", "up"}
      BY DEF Contains
    <3> QED
      BY <2>3, <3>1, Zenon
  <2>5. Tail(s) \in R \/ Tail(s) = <<>>
    BY <1>a, <2>3
  <2> HIDE <1>1
  <2> QED
    BY <2>1, <2>2, <2>4, <2>5, SMTT(30) DEF Fits, R, Linking
<1>2. CASE s = <<"connect", "save", "secret", "env", "up">>
  <2>1. /\ s \in Seq(Steps) /\ s # <<>> /\ Len(s) = 5 /\ Head(s) = "connect"
        /\ Tail(s) # <<>> /\ Head(Tail(s)) = "save"
    BY <1>2 DEF Steps
  <2>2. \A x : Contains(s, x) <=> x \in {"connect", "save", "secret", "env", "up"}
    BY <1>2 DEF Contains
  <2>3. Tail(s) = <<"save", "secret", "env", "up">>
    BY <1>2
  <2>4. \A x : Contains(Tail(s), x) <=> x \in {"save", "secret", "env", "up"}
    <3>1. \A x : Contains(<<"save", "secret", "env", "up">>, x) <=> x \in {"save", "secret", "env", "up"}
      BY DEF Contains
    <3> QED
      BY <2>3, <3>1, Zenon
  <2>5. Tail(s) \in R \/ Tail(s) = <<>>
    BY <1>a, <2>3
  <2> HIDE <1>2
  <2> QED
    BY <2>1, <2>2, <2>4, <2>5, SMTT(30) DEF Fits, R, Linking
<1>3. CASE s = <<"save", "secret", "env", "up">>
  <2>1. /\ s \in Seq(Steps) /\ s # <<>> /\ Len(s) = 4 /\ Head(s) = "save"
        /\ Tail(s) # <<>> /\ Head(Tail(s)) = "secret"
    BY <1>3 DEF Steps
  <2>2. \A x : Contains(s, x) <=> x \in {"save", "secret", "env", "up"}
    BY <1>3 DEF Contains
  <2>3. Tail(s) = <<"secret", "env", "up">>
    BY <1>3
  <2>4. \A x : Contains(Tail(s), x) <=> x \in {"secret", "env", "up"}
    <3>1. \A x : Contains(<<"secret", "env", "up">>, x) <=> x \in {"secret", "env", "up"}
      BY DEF Contains
    <3> QED
      BY <2>3, <3>1, Zenon
  <2>5. Tail(s) \in R \/ Tail(s) = <<>>
    BY <1>a, <2>3
  <2> HIDE <1>3
  <2> QED
    BY <2>1, <2>2, <2>4, <2>5, SMTT(30) DEF Fits, R, Linking
<1>4. CASE s = <<"secret", "env", "up">>
  <2>1. /\ s \in Seq(Steps) /\ s # <<>> /\ Len(s) = 3 /\ Head(s) = "secret"
        /\ Tail(s) # <<>> /\ Head(Tail(s)) = "env"
    BY <1>4 DEF Steps
  <2>2. \A x : Contains(s, x) <=> x \in {"secret", "env", "up"}
    BY <1>4 DEF Contains
  <2>3. Tail(s) = <<"env", "up">>
    BY <1>4
  <2>4. \A x : Contains(Tail(s), x) <=> x \in {"env", "up"}
    <3>1. \A x : Contains(<<"env", "up">>, x) <=> x \in {"env", "up"}
      BY DEF Contains
    <3> QED
      BY <2>3, <3>1, Zenon
  <2>5. Tail(s) \in R \/ Tail(s) = <<>>
    BY <1>a, <2>3
  <2> HIDE <1>4
  <2> QED
    BY <2>1, <2>2, <2>4, <2>5, SMTT(30) DEF Fits, R, Linking
<1>5. CASE s = <<"env", "up">>
  <2>1. /\ s \in Seq(Steps) /\ s # <<>> /\ Len(s) = 2 /\ Head(s) = "env"
        /\ Tail(s) # <<>> /\ Head(Tail(s)) = "up"
    BY <1>5 DEF Steps
  <2>2. \A x : Contains(s, x) <=> x \in {"env", "up"}
    BY <1>5 DEF Contains
  <2>3. Tail(s) = <<"up">>
    BY <1>5
  <2>4. \A x : Contains(Tail(s), x) <=> x \in {"up"}
    <3>1. \A x : Contains(<<"up">>, x) <=> x \in {"up"}
      BY DEF Contains
    <3> QED
      BY <2>3, <3>1, Zenon
  <2>5. Tail(s) \in R \/ Tail(s) = <<>>
    BY <1>a, <2>3
  <2> HIDE <1>5
  <2> QED
    BY <2>1, <2>2, <2>4, <2>5, SMTT(30) DEF Fits, R, Linking
<1>6. CASE s = <<"up">>
  <2>1. /\ s \in Seq(Steps) /\ s # <<>> /\ Len(s) = 1 /\ Head(s) = "up"
    BY <1>6 DEF Steps
  <2>2. \A x : Contains(s, x) <=> x \in {"up"}
    BY <1>6 DEF Contains
  <2>3. Tail(s) = <<>>
    BY <1>6
  <2>4. \A x : Contains(Tail(s), x) <=> x \in {}
    <3>1. \A x : Contains(<<>>, x) <=> x \in {}
      BY DEF Contains
    <3> QED
      BY <2>3, <3>1, Zenon
  <2>5. Tail(s) \in R \/ Tail(s) = <<>>
    BY <1>a, <2>3
  <2> HIDE <1>6
  <2> QED
    BY <2>1, <2>2, <2>3, <2>4, <2>5 DEF Fits, R, Linking
<1> QED
  BY <1>a, <1>1, <1>2, <1>3, <1>4, <1>5, <1>6 DEF R

\* The steps of delete_integration_connection_service.
LEMMA UnlinkFits ==
    ASSUME NEW s \in Rest["unlink"]
    PROVE  Fits("unlink", s)
<1> DEFINE R == Rest["unlink"]
<1>a. R = {<<"load", "save", "env", "up", "disconnect">>,
           <<"save", "env", "up", "disconnect">>,
           <<"env", "up", "disconnect">>,
           <<"up", "disconnect">>,
           <<"disconnect">>}
  BY DEF Rest, Ops, Unlink
<1> HIDE DEF R
<1>1. CASE s = <<"load", "save", "env", "up", "disconnect">>
  <2>1. /\ s \in Seq(Steps) /\ s # <<>> /\ Len(s) = 5 /\ Head(s) = "load"
        /\ Tail(s) # <<>> /\ Head(Tail(s)) = "save"
    BY <1>1 DEF Steps
  <2>2. \A x : Contains(s, x) <=> x \in {"load", "save", "env", "up", "disconnect"}
    BY <1>1 DEF Contains
  <2>3. Tail(s) = <<"save", "env", "up", "disconnect">>
    BY <1>1
  <2>4. \A x : Contains(Tail(s), x) <=> x \in {"save", "env", "up", "disconnect"}
    <3>1. \A x : Contains(<<"save", "env", "up", "disconnect">>, x) <=> x \in {"save", "env", "up", "disconnect"}
      BY DEF Contains
    <3> QED
      BY <2>3, <3>1, Zenon
  <2>5. Tail(s) \in R \/ Tail(s) = <<>>
    BY <1>a, <2>3
  <2> HIDE <1>1
  <2> QED
    BY <2>1, <2>2, <2>4, <2>5, SMTT(30) DEF Fits, R, Linking
<1>2. CASE s = <<"save", "env", "up", "disconnect">>
  <2>1. /\ s \in Seq(Steps) /\ s # <<>> /\ Len(s) = 4 /\ Head(s) = "save"
        /\ Tail(s) # <<>> /\ Head(Tail(s)) = "env"
    BY <1>2 DEF Steps
  <2>2. \A x : Contains(s, x) <=> x \in {"save", "env", "up", "disconnect"}
    BY <1>2 DEF Contains
  <2>3. Tail(s) = <<"env", "up", "disconnect">>
    BY <1>2
  <2>4. \A x : Contains(Tail(s), x) <=> x \in {"env", "up", "disconnect"}
    <3>1. \A x : Contains(<<"env", "up", "disconnect">>, x) <=> x \in {"env", "up", "disconnect"}
      BY DEF Contains
    <3> QED
      BY <2>3, <3>1, Zenon
  <2>5. Tail(s) \in R \/ Tail(s) = <<>>
    BY <1>a, <2>3
  <2> HIDE <1>2
  <2> QED
    BY <2>1, <2>2, <2>4, <2>5, SMTT(30) DEF Fits, R, Linking
<1>3. CASE s = <<"env", "up", "disconnect">>
  <2>1. /\ s \in Seq(Steps) /\ s # <<>> /\ Len(s) = 3 /\ Head(s) = "env"
        /\ Tail(s) # <<>> /\ Head(Tail(s)) = "up"
    BY <1>3 DEF Steps
  <2>2. \A x : Contains(s, x) <=> x \in {"env", "up", "disconnect"}
    BY <1>3 DEF Contains
  <2>3. Tail(s) = <<"up", "disconnect">>
    BY <1>3
  <2>4. \A x : Contains(Tail(s), x) <=> x \in {"up", "disconnect"}
    <3>1. \A x : Contains(<<"up", "disconnect">>, x) <=> x \in {"up", "disconnect"}
      BY DEF Contains
    <3> QED
      BY <2>3, <3>1, Zenon
  <2>5. Tail(s) \in R \/ Tail(s) = <<>>
    BY <1>a, <2>3
  <2> HIDE <1>3
  <2> QED
    BY <2>1, <2>2, <2>4, <2>5, SMTT(30) DEF Fits, R, Linking
<1>4. CASE s = <<"up", "disconnect">>
  <2>1. /\ s \in Seq(Steps) /\ s # <<>> /\ Len(s) = 2 /\ Head(s) = "up"
        /\ Tail(s) # <<>> /\ Head(Tail(s)) = "disconnect"
    BY <1>4 DEF Steps
  <2>2. \A x : Contains(s, x) <=> x \in {"up", "disconnect"}
    BY <1>4 DEF Contains
  <2>3. Tail(s) = <<"disconnect">>
    BY <1>4
  <2>4. \A x : Contains(Tail(s), x) <=> x \in {"disconnect"}
    <3>1. \A x : Contains(<<"disconnect">>, x) <=> x \in {"disconnect"}
      BY DEF Contains
    <3> QED
      BY <2>3, <3>1, Zenon
  <2>5. Tail(s) \in R \/ Tail(s) = <<>>
    BY <1>a, <2>3
  <2> HIDE <1>4
  <2> QED
    BY <2>1, <2>2, <2>4, <2>5, SMTT(30) DEF Fits, R, Linking
<1>5. CASE s = <<"disconnect">>
  <2>1. /\ s \in Seq(Steps) /\ s # <<>> /\ Len(s) = 1 /\ Head(s) = "disconnect"
    BY <1>5 DEF Steps
  <2>2. \A x : Contains(s, x) <=> x \in {"disconnect"}
    BY <1>5 DEF Contains
  <2>3. Tail(s) = <<>>
    BY <1>5
  <2>4. \A x : Contains(Tail(s), x) <=> x \in {}
    <3>1. \A x : Contains(<<>>, x) <=> x \in {}
      BY DEF Contains
    <3> QED
      BY <2>3, <3>1, Zenon
  <2>5. Tail(s) \in R \/ Tail(s) = <<>>
    BY <1>a, <2>3
  <2> HIDE <1>5
  <2> QED
    BY <2>1, <2>2, <2>3, <2>4, <2>5 DEF Fits, R, Linking
<1> QED
  BY <1>a, <1>1, <1>2, <1>3, <1>4, <1>5 DEF R

\* The steps of update_runtime_skills.
LEMMA SkillsFits ==
    ASSUME NEW s \in Rest["skills"]
    PROVE  Fits("skills", s)
<1> DEFINE R == Rest["skills"]
<1>a. R = {<<"load", "save">>,
           <<"save">>}
  BY DEF Rest, Ops, SaveSkills
<1> HIDE DEF R
<1>1. CASE s = <<"load", "save">>
  <2>1. /\ s \in Seq(Steps) /\ s # <<>> /\ Len(s) = 2 /\ Head(s) = "load"
        /\ Tail(s) # <<>> /\ Head(Tail(s)) = "save"
    BY <1>1 DEF Steps
  <2>2. \A x : Contains(s, x) <=> x \in {"load", "save"}
    BY <1>1 DEF Contains
  <2>3. Tail(s) = <<"save">>
    BY <1>1
  <2>4. \A x : Contains(Tail(s), x) <=> x \in {"save"}
    <3>1. \A x : Contains(<<"save">>, x) <=> x \in {"save"}
      BY DEF Contains
    <3> QED
      BY <2>3, <3>1, Zenon
  <2>5. Tail(s) \in R \/ Tail(s) = <<>>
    BY <1>a, <2>3
  <2> HIDE <1>1
  <2> QED
    BY <2>1, <2>2, <2>4, <2>5, SMTT(30) DEF Fits, R, Linking
<1>2. CASE s = <<"save">>
  <2>1. /\ s \in Seq(Steps) /\ s # <<>> /\ Len(s) = 1 /\ Head(s) = "save"
    BY <1>2 DEF Steps
  <2>2. \A x : Contains(s, x) <=> x \in {"save"}
    BY <1>2 DEF Contains
  <2>3. Tail(s) = <<>>
    BY <1>2
  <2>4. \A x : Contains(Tail(s), x) <=> x \in {}
    <3>1. \A x : Contains(<<>>, x) <=> x \in {}
      BY DEF Contains
    <3> QED
      BY <2>3, <3>1, Zenon
  <2>5. Tail(s) \in R \/ Tail(s) = <<>>
    BY <1>a, <2>3
  <2> HIDE <1>2
  <2> QED
    BY <2>1, <2>2, <2>3, <2>4, <2>5 DEF Fits, R, Linking
<1> QED
  BY <1>a, <1>1, <1>2 DEF R

\* The steps of update_runtime_limits.
LEMMA LimitsFits ==
    ASSUME NEW s \in Rest["limits"]
    PROVE  Fits("limits", s)
<1> DEFINE R == Rest["limits"]
<1>a. R = {<<"load", "save">>,
           <<"save">>,
           <<"load", "save", "env", "up">>,
           <<"save", "env", "up">>,
           <<"env", "up">>,
           <<"up">>}
  BY DEF Rest, Ops
<1> HIDE DEF R
<1>1. CASE s = <<"load", "save">>
  <2>1. /\ s \in Seq(Steps) /\ s # <<>> /\ Len(s) = 2 /\ Head(s) = "load"
        /\ Tail(s) # <<>> /\ Head(Tail(s)) = "save"
    BY <1>1 DEF Steps
  <2>2. \A x : Contains(s, x) <=> x \in {"load", "save"}
    BY <1>1 DEF Contains
  <2>3. Tail(s) = <<"save">>
    BY <1>1
  <2>4. \A x : Contains(Tail(s), x) <=> x \in {"save"}
    <3>1. \A x : Contains(<<"save">>, x) <=> x \in {"save"}
      BY DEF Contains
    <3> QED
      BY <2>3, <3>1, Zenon
  <2>5. Tail(s) \in R \/ Tail(s) = <<>>
    BY <1>a, <2>3
  <2> HIDE <1>1
  <2> QED
    BY <2>1, <2>2, <2>4, <2>5, SMTT(30) DEF Fits, R, Linking
<1>2. CASE s = <<"save">>
  <2>1. /\ s \in Seq(Steps) /\ s # <<>> /\ Len(s) = 1 /\ Head(s) = "save"
    BY <1>2 DEF Steps
  <2>2. \A x : Contains(s, x) <=> x \in {"save"}
    BY <1>2 DEF Contains
  <2>3. Tail(s) = <<>>
    BY <1>2
  <2>4. \A x : Contains(Tail(s), x) <=> x \in {}
    <3>1. \A x : Contains(<<>>, x) <=> x \in {}
      BY DEF Contains
    <3> QED
      BY <2>3, <3>1, Zenon
  <2>5. Tail(s) \in R \/ Tail(s) = <<>>
    BY <1>a, <2>3
  <2> HIDE <1>2
  <2> QED
    BY <2>1, <2>2, <2>3, <2>4, <2>5 DEF Fits, R, Linking
<1>3. CASE s = <<"load", "save", "env", "up">>
  <2>1. /\ s \in Seq(Steps) /\ s # <<>> /\ Len(s) = 4 /\ Head(s) = "load"
        /\ Tail(s) # <<>> /\ Head(Tail(s)) = "save"
    BY <1>3 DEF Steps
  <2>2. \A x : Contains(s, x) <=> x \in {"load", "save", "env", "up"}
    BY <1>3 DEF Contains
  <2>3. Tail(s) = <<"save", "env", "up">>
    BY <1>3
  <2>4. \A x : Contains(Tail(s), x) <=> x \in {"save", "env", "up"}
    <3>1. \A x : Contains(<<"save", "env", "up">>, x) <=> x \in {"save", "env", "up"}
      BY DEF Contains
    <3> QED
      BY <2>3, <3>1, Zenon
  <2>5. Tail(s) \in R \/ Tail(s) = <<>>
    BY <1>a, <2>3
  <2> HIDE <1>3
  <2> QED
    BY <2>1, <2>2, <2>4, <2>5, SMTT(30) DEF Fits, R, Linking
<1>4. CASE s = <<"save", "env", "up">>
  <2>1. /\ s \in Seq(Steps) /\ s # <<>> /\ Len(s) = 3 /\ Head(s) = "save"
        /\ Tail(s) # <<>> /\ Head(Tail(s)) = "env"
    BY <1>4 DEF Steps
  <2>2. \A x : Contains(s, x) <=> x \in {"save", "env", "up"}
    BY <1>4 DEF Contains
  <2>3. Tail(s) = <<"env", "up">>
    BY <1>4
  <2>4. \A x : Contains(Tail(s), x) <=> x \in {"env", "up"}
    <3>1. \A x : Contains(<<"env", "up">>, x) <=> x \in {"env", "up"}
      BY DEF Contains
    <3> QED
      BY <2>3, <3>1, Zenon
  <2>5. Tail(s) \in R \/ Tail(s) = <<>>
    BY <1>a, <2>3
  <2> HIDE <1>4
  <2> QED
    BY <2>1, <2>2, <2>4, <2>5, SMTT(30) DEF Fits, R, Linking
<1>5. CASE s = <<"env", "up">>
  <2>1. /\ s \in Seq(Steps) /\ s # <<>> /\ Len(s) = 2 /\ Head(s) = "env"
        /\ Tail(s) # <<>> /\ Head(Tail(s)) = "up"
    BY <1>5 DEF Steps
  <2>2. \A x : Contains(s, x) <=> x \in {"env", "up"}
    BY <1>5 DEF Contains
  <2>3. Tail(s) = <<"up">>
    BY <1>5
  <2>4. \A x : Contains(Tail(s), x) <=> x \in {"up"}
    <3>1. \A x : Contains(<<"up">>, x) <=> x \in {"up"}
      BY DEF Contains
    <3> QED
      BY <2>3, <3>1, Zenon
  <2>5. Tail(s) \in R \/ Tail(s) = <<>>
    BY <1>a, <2>3
  <2> HIDE <1>5
  <2> QED
    BY <2>1, <2>2, <2>4, <2>5, SMTT(30) DEF Fits, R, Linking
<1>6. CASE s = <<"up">>
  <2>1. /\ s \in Seq(Steps) /\ s # <<>> /\ Len(s) = 1 /\ Head(s) = "up"
    BY <1>6 DEF Steps
  <2>2. \A x : Contains(s, x) <=> x \in {"up"}
    BY <1>6 DEF Contains
  <2>3. Tail(s) = <<>>
    BY <1>6
  <2>4. \A x : Contains(Tail(s), x) <=> x \in {}
    <3>1. \A x : Contains(<<>>, x) <=> x \in {}
      BY DEF Contains
    <3> QED
      BY <2>3, <3>1, Zenon
  <2>5. Tail(s) \in R \/ Tail(s) = <<>>
    BY <1>a, <2>3
  <2> HIDE <1>6
  <2> QED
    BY <2>1, <2>2, <2>3, <2>4, <2>5 DEF Fits, R, Linking
<1> QED
  BY <1>a, <1>1, <1>2, <1>3, <1>4, <1>5, <1>6 DEF R

\* The steps of create_or_update_runtime.
LEMMA ProvisionFits ==
    ASSUME NEW s \in Rest["provision"]
    PROVE  Fits("provision", s)
<1> DEFINE R == Rest["provision"]
<1>a. R = {<<"enter", "secret", "env", "relink", "up", "commit">>,
           <<"secret", "env", "relink", "up", "commit">>,
           <<"env", "relink", "up", "commit">>,
           <<"relink", "up", "commit">>,
           <<"up", "commit">>,
           <<"commit">>}
  BY DEF Rest, Ops, Provision
<1> HIDE DEF R
<1>1. CASE s = <<"enter", "secret", "env", "relink", "up", "commit">>
  <2>1. /\ s \in Seq(Steps) /\ s # <<>> /\ Len(s) = 6 /\ Head(s) = "enter"
        /\ Tail(s) # <<>> /\ Head(Tail(s)) = "secret"
    BY <1>1 DEF Steps
  <2>2. \A x : Contains(s, x) <=> x \in {"enter", "secret", "env", "relink", "up", "commit"}
    BY <1>1 DEF Contains
  <2>3. Tail(s) = <<"secret", "env", "relink", "up", "commit">>
    BY <1>1
  <2>4. \A x : Contains(Tail(s), x) <=> x \in {"secret", "env", "relink", "up", "commit"}
    <3>1. \A x : Contains(<<"secret", "env", "relink", "up", "commit">>, x) <=> x \in {"secret", "env", "relink", "up", "commit"}
      BY DEF Contains
    <3> QED
      BY <2>3, <3>1, Zenon
  <2>5. Tail(s) \in R \/ Tail(s) = <<>>
    BY <1>a, <2>3
  <2> HIDE <1>1
  <2> QED
    BY <2>1, <2>2, <2>4, <2>5, SMTT(30) DEF Fits, R, Linking
<1>2. CASE s = <<"secret", "env", "relink", "up", "commit">>
  <2>1. /\ s \in Seq(Steps) /\ s # <<>> /\ Len(s) = 5 /\ Head(s) = "secret"
        /\ Tail(s) # <<>> /\ Head(Tail(s)) = "env"
    BY <1>2 DEF Steps
  <2>2. \A x : Contains(s, x) <=> x \in {"secret", "env", "relink", "up", "commit"}
    BY <1>2 DEF Contains
  <2>3. Tail(s) = <<"env", "relink", "up", "commit">>
    BY <1>2
  <2>4. \A x : Contains(Tail(s), x) <=> x \in {"env", "relink", "up", "commit"}
    <3>1. \A x : Contains(<<"env", "relink", "up", "commit">>, x) <=> x \in {"env", "relink", "up", "commit"}
      BY DEF Contains
    <3> QED
      BY <2>3, <3>1, Zenon
  <2>5. Tail(s) \in R \/ Tail(s) = <<>>
    BY <1>a, <2>3
  <2> HIDE <1>2
  <2> QED
    BY <2>1, <2>2, <2>4, <2>5, SMTT(30) DEF Fits, R, Linking
<1>3. CASE s = <<"env", "relink", "up", "commit">>
  <2>1. /\ s \in Seq(Steps) /\ s # <<>> /\ Len(s) = 4 /\ Head(s) = "env"
        /\ Tail(s) # <<>> /\ Head(Tail(s)) = "relink"
    BY <1>3 DEF Steps
  <2>2. \A x : Contains(s, x) <=> x \in {"env", "relink", "up", "commit"}
    BY <1>3 DEF Contains
  <2>3. Tail(s) = <<"relink", "up", "commit">>
    BY <1>3
  <2>4. \A x : Contains(Tail(s), x) <=> x \in {"relink", "up", "commit"}
    <3>1. \A x : Contains(<<"relink", "up", "commit">>, x) <=> x \in {"relink", "up", "commit"}
      BY DEF Contains
    <3> QED
      BY <2>3, <3>1, Zenon
  <2>5. Tail(s) \in R \/ Tail(s) = <<>>
    BY <1>a, <2>3
  <2> HIDE <1>3
  <2> QED
    BY <2>1, <2>2, <2>4, <2>5, SMTT(30) DEF Fits, R, Linking
<1>4. CASE s = <<"relink", "up", "commit">>
  <2>1. /\ s \in Seq(Steps) /\ s # <<>> /\ Len(s) = 3 /\ Head(s) = "relink"
        /\ Tail(s) # <<>> /\ Head(Tail(s)) = "up"
    BY <1>4 DEF Steps
  <2>2. \A x : Contains(s, x) <=> x \in {"relink", "up", "commit"}
    BY <1>4 DEF Contains
  <2>3. Tail(s) = <<"up", "commit">>
    BY <1>4
  <2>4. \A x : Contains(Tail(s), x) <=> x \in {"up", "commit"}
    <3>1. \A x : Contains(<<"up", "commit">>, x) <=> x \in {"up", "commit"}
      BY DEF Contains
    <3> QED
      BY <2>3, <3>1, Zenon
  <2>5. Tail(s) \in R \/ Tail(s) = <<>>
    BY <1>a, <2>3
  <2> HIDE <1>4
  <2> QED
    BY <2>1, <2>2, <2>4, <2>5, SMTT(30) DEF Fits, R, Linking
<1>5. CASE s = <<"up", "commit">>
  <2>1. /\ s \in Seq(Steps) /\ s # <<>> /\ Len(s) = 2 /\ Head(s) = "up"
        /\ Tail(s) # <<>> /\ Head(Tail(s)) = "commit"
    BY <1>5 DEF Steps
  <2>2. \A x : Contains(s, x) <=> x \in {"up", "commit"}
    BY <1>5 DEF Contains
  <2>3. Tail(s) = <<"commit">>
    BY <1>5
  <2>4. \A x : Contains(Tail(s), x) <=> x \in {"commit"}
    <3>1. \A x : Contains(<<"commit">>, x) <=> x \in {"commit"}
      BY DEF Contains
    <3> QED
      BY <2>3, <3>1, Zenon
  <2>5. Tail(s) \in R \/ Tail(s) = <<>>
    BY <1>a, <2>3
  <2> HIDE <1>5
  <2> QED
    BY <2>1, <2>2, <2>4, <2>5, SMTT(30) DEF Fits, R, Linking
<1>6. CASE s = <<"commit">>
  <2>1. /\ s \in Seq(Steps) /\ s # <<>> /\ Len(s) = 1 /\ Head(s) = "commit"
    BY <1>6 DEF Steps
  <2>2. \A x : Contains(s, x) <=> x \in {"commit"}
    BY <1>6 DEF Contains
  <2>3. Tail(s) = <<>>
    BY <1>6
  <2>4. \A x : Contains(Tail(s), x) <=> x \in {}
    <3>1. \A x : Contains(<<>>, x) <=> x \in {}
      BY DEF Contains
    <3> QED
      BY <2>3, <3>1, Zenon
  <2>5. Tail(s) \in R \/ Tail(s) = <<>>
    BY <1>a, <2>3
  <2> HIDE <1>6
  <2> QED
    BY <2>1, <2>2, <2>3, <2>4, <2>5 DEF Fits, R, Linking
<1> QED
  BY <1>a, <1>1, <1>2, <1>3, <1>4, <1>5, <1>6 DEF R

\* The steps of backfill_runtime_related_records.
LEMMA BackfillFits ==
    ASSUME NEW s \in Rest["backfill"]
    PROVE  Fits("backfill", s)
<1> DEFINE R == Rest["backfill"]
<1>a. R = {<<"load", "relink">>,
           <<"relink">>}
  BY DEF Rest, Ops, Backfill
<1> HIDE DEF R
<1>1. CASE s = <<"load", "relink">>
  <2>1. /\ s \in Seq(Steps) /\ s # <<>> /\ Len(s) = 2 /\ Head(s) = "load"
        /\ Tail(s) # <<>> /\ Head(Tail(s)) = "relink"
    BY <1>1 DEF Steps
  <2>2. \A x : Contains(s, x) <=> x \in {"load", "relink"}
    BY <1>1 DEF Contains
  <2>3. Tail(s) = <<"relink">>
    BY <1>1
  <2>4. \A x : Contains(Tail(s), x) <=> x \in {"relink"}
    <3>1. \A x : Contains(<<"relink">>, x) <=> x \in {"relink"}
      BY DEF Contains
    <3> QED
      BY <2>3, <3>1, Zenon
  <2>5. Tail(s) \in R \/ Tail(s) = <<>>
    BY <1>a, <2>3
  <2> HIDE <1>1
  <2> QED
    BY <2>1, <2>2, <2>4, <2>5, SMTT(30) DEF Fits, R, Linking
<1>2. CASE s = <<"relink">>
  <2>1. /\ s \in Seq(Steps) /\ s # <<>> /\ Len(s) = 1 /\ Head(s) = "relink"
    BY <1>2 DEF Steps
  <2>2. \A x : Contains(s, x) <=> x \in {"relink"}
    BY <1>2 DEF Contains
  <2>3. Tail(s) = <<>>
    BY <1>2
  <2>4. \A x : Contains(Tail(s), x) <=> x \in {}
    <3>1. \A x : Contains(<<>>, x) <=> x \in {}
      BY DEF Contains
    <3> QED
      BY <2>3, <3>1, Zenon
  <2>5. Tail(s) \in R \/ Tail(s) = <<>>
    BY <1>a, <2>3
  <2> HIDE <1>2
  <2> QED
    BY <2>1, <2>2, <2>3, <2>4, <2>5 DEF Fits, R, Linking
<1> QED
  BY <1>a, <1>1, <1>2 DEF R

\* What an operation has before it is one of the lists above.
LEMMA StepsFit ==
    ASSUME NEW o \in Ops, NEW s \in Rest[o]
    PROVE  Fits(o, s)
<1> HIDE DEF Fits, Rest
<1> QED
  BY IntegrateFits, StoreFits, UnlinkFits, SkillsFits, LimitsFits, ProvisionFits, BackfillFits
  DEF Ops

\* So is what a request has before it.
LEMMA Where ==
    ASSUME TypeOK, Flow, NEW p \in Procs, Busy(p)
    PROVE  /\ job[p] \in Job /\ job[p].op \in Ops /\ Fits(job[p].op, todo[p])
           /\ todo[p] # <<>> /\ Contains(todo[p], Head(todo[p]))
<1>1. job[p] \in Job /\ job[p].op \in Ops
  BY DEF TypeOK, Job
<1>2. todo[p] \in Seq(Steps) /\ todo[p] # <<>>
  BY DEF Flow, Busy
<1>3. Contains(todo[p], Head(todo[p]))
  BY <1>2, NextOrLater
<1> QED
  BY <1>1, <1>2, <1>3, StepsFit DEF Flow

\* Is the next step the last one?
AtLast(p) == Len(todo[p]) = 1

\* What the steps that are before an operation say of each other.
LEMMA Stands ==
    ASSUME TypeOK, Flow, NEW p \in Procs, Busy(p)
    PROVE  /\ \A x, y : At(p, x) /\ At(p, y) => x = y
           /\ \A x : At(p, x) => Before(p, x)
           /\ Before(p, "commit") <=> job[p].op = "provision"
           /\ Before(p, "enter") <=> At(p, "enter")
           /\ Before(p, "connect") => job[p].op \in {"integrate", "secret"}
           /\ Before(p, "save") => job[p].op \notin {"provision", "backfill"}
           /\ Before(p, "up") => job[p].op # "backfill"
           /\ At(p, "connect") \/ At(p, "disconnect") => job[p].op \in Linking
           /\ At(p, "disconnect") => job[p].op = "unlink"
           /\ At(p, "relink") => job[p].op \in {"provision", "backfill"}
           /\ At(p, "load") => job[p].op # "provision"
           /\ Before(p, "env") => Before(p, "up")
           /\ Before(p, "secret") => Before(p, "env")
           /\ Before(p, "connect") => Before(p, "save")
           /\ Before(p, "save") /\ job[p].op \in Linking => Before(p, "env")
           /\ Before(p, "up") /\ ~Before(p, "env") => ~Before(p, "save")
           /\ At(p, "load") =>
                 /\ job[p].op # "backfill" => Before(p, "save")
                 /\ job[p].op \in {"integrate", "secret"} => Before(p, "connect")
           /\ At(p, "enter") => /\ job[p].op = "provision"
                               /\ Before(p, "secret") /\ Before(p, "relink")
           /\ At(p, "save") \/ At(p, "env") \/ At(p, "up") => ~Before(p, "connect")
           /\ At(p, "env") \/ At(p, "up") \/ At(p, "disconnect") \/ At(p, "relink") =>
                 ~Before(p, "save")
           /\ At(p, "relink") \/ At(p, "up") \/ At(p, "commit") => ~Before(p, "env")
           /\ At(p, "up") \/ At(p, "commit") => ~Before(p, "relink")
           /\ AtLast(p) => \/ At(p, "save") \/ At(p, "up") \/ At(p, "disconnect")
                         \/ At(p, "relink") \/ At(p, "commit")
           /\ AtLast(p) /\ At(p, "save") => job[p].op \in {"skills", "limits"}
           /\ AtLast(p) /\ At(p, "up") => job[p].op \in {"integrate", "secret", "limits"}
           /\ ~AtLast(p) /\ At(p, "up") => job[p].op \notin {"integrate", "secret"}
           /\ At(p, "relink") => (AtLast(p) <=> job[p].op = "backfill")
           /\ At(p, "disconnect") \/ At(p, "commit") => AtLast(p)
           /\ AtLast(p) => \A x : Before(p, x) => At(p, x)
<1> DEFINE s == todo[p] o == job[p].op
<1>1. Fits(o, s) /\ s # <<>> /\ Contains(s, Head(s))
  BY Where
<1>2. \A x : Before(p, x) <=> Contains(s, x)
  BY DEF Before
<1>3. \A x : At(p, x) <=> x = Head(s)
  BY <1>1 DEF At, Busy
<1>4. AtLast(p) <=> Len(s) = 1
  BY DEF AtLast
<1> HIDE DEF s, o
<1>5. /\ \A x, y : At(p, x) /\ At(p, y) => x = y
      /\ \A x : At(p, x) => Before(p, x)
  BY <1>1, <1>2, <1>3, Zenon
<1>6. AtLast(p) => \A x : Before(p, x) => At(p, x)
  <2>1. s \in Seq(Steps) /\ (Len(s) = 1 => Tail(s) = <<>>)
    BY <1>1 DEF Fits
  <2>2. \A x : Contains(s, x) <=> x = Head(s) \/ Contains(Tail(s), x)
    BY <1>1, <2>1, NextOrLater
  <2>3. \A x : ~Contains(<<>>, x)
    BY DEF Contains
  <2> QED
    BY <1>2, <1>3, <1>4, <2>1, <2>2, <2>3, Zenon
<1> QED
  BY <1>1, <1>2, <1>3, <1>4, <1>5, <1>6 DEF Fits, o

\* An idle process has nothing before it.
LEMMA Nothing ==
    ASSUME NEW p \in Procs, ~Busy(p)
    PROVE  \A x : ~Before(p, x) /\ ~At(p, x)
  BY DEF Contains, Busy, Before, At

\* What others have before them is the same.
OthersStay(p) ==
    \A q \in Procs \ {p} :
        /\ todo'[q] = todo[q]
        /\ Busy(q)' <=> Busy(q)
        /\ \A x : (Before(q, x)' <=> Before(q, x)) /\ (At(q, x)' <=> At(q, x))

\* When no list changes, nobody has other steps before it.
LEMMA AllStay ==
    ASSUME todo' = todo
    PROVE  \A q \in Procs :
               /\ Busy(q)' <=> Busy(q)
               /\ \A x : (Before(q, x)' <=> Before(q, x)) /\ (At(q, x)' <=> At(q, x))
  BY DEF Busy, Before, At

\* A step is taken off the list of an operation.
LEMMA Advances ==
    ASSUME TypeOK, Flow, NEW p \in Procs, NEW step, At(p, step),
           todo' = [todo EXCEPT ![p] = Tail(todo[p])]
    PROVE  /\ todo' \in [Procs -> Seq(Steps)]
           /\ OthersStay(p)
           /\ \A x : Before(p, x)' <=> Before(p, x) /\ x # step
           /\ Busy(p)' <=> ~AtLast(p)
           /\ ~At(p, "load")' /\ ~At(p, "enter")'
           /\ Busy(p)' => todo'[p] \in Rest[job[p].op]
<1>1. /\ todo \in [Procs -> Seq(Steps)] /\ todo[p] \in Seq(Steps) /\ todo[p] # <<>>
      /\ todo'[p] = Tail(todo[p]) /\ \A q \in Procs \ {p} : todo'[q] = todo[q]
      /\ step = Head(todo[p]) /\ Busy(p)
  BY DEF Flow, Busy, At
<1>2. Tail(todo[p]) \in Seq(Steps)
  BY <1>1
<1>3. todo' \in [Procs -> Seq(Steps)]
  BY <1>1, <1>2
<1>4. Fits(job[p].op, todo[p])
  BY <1>1, Where
<1>5. \A x : Contains(todo[p], x) <=> x = Head(todo[p]) \/ Contains(Tail(todo[p]), x)
  BY <1>1, NextOrLater
<1>6. ~Contains(Tail(todo[p]), Head(todo[p]))
  BY <1>4 DEF Fits
<1>7. \A x : Contains(Tail(todo[p]), x) <=> Contains(todo[p], x) /\ x # step
  BY <1>1, <1>5, <1>6, Zenon
<1>8. /\ Tail(todo[p]) = <<>> <=> Len(todo[p]) = 1
      /\ Tail(todo[p]) # <<>> => /\ Head(Tail(todo[p])) # "load"
                                 /\ Head(Tail(todo[p])) # "enter"
                                 /\ Tail(todo[p]) \in Rest[job[p].op]
  BY <1>4 DEF Fits
<1>9. \A x : Contains(todo'[p], x) <=> Contains(todo[p], x) /\ x # step
  BY <1>1, <1>7, Zenon
<1>10. /\ Busy(p)' <=> ~AtLast(p)
       /\ ~At(p, "load")' /\ ~At(p, "enter")'
       /\ Busy(p)' => todo'[p] \in Rest[job[p].op]
  BY <1>1, <1>8, Zenon DEF Busy, At, AtLast
<1>11. \A x : Before(p, x)' <=> Before(p, x) /\ x # step
  BY <1>9, Zenon DEF Before
<1>12. OthersStay(p)
  BY <1>1, Zenon DEF OthersStay, Before, At, Busy
<1> QED
  BY <1>3, <1>10, <1>11, <1>12, Zenon

\* The same, for the job and what is in memory.
LEMMA DoneMeans ==
    ASSUME TypeOK, NEW p \in Procs, Done(p)
    PROVE  /\ todo' = [todo EXCEPT ![p] = Tail(todo[p])]
           /\ job' \in [Procs -> Job] /\ mine' \in [Procs -> SUBSET Items]
           /\ \A q \in Procs \ {p} : job'[q] = job[q] /\ mine'[q] = mine[q]
           /\ AtLast(p) => job'[p] = NoJob
           /\ ~AtLast(p) => job'[p] = job[p] /\ mine'[p] = mine[p]
<1>1. NoJob \in Job
  BY DEF NoJob, Job, Ops
<1> QED
  BY <1>1 DEF Done, TypeOK, AtLast

\* What is left of a list is steps.
LEMMA OnlySteps ==
    ASSUME NEW s \in Seq(Steps)
    PROVE  ToSet(s) \subseteq Steps
  BY DEF ToSet

\* A runtime is loaded.
LEMMA LoadStep ==
    ASSUME NEW p \in Procs, IInv,
           Load(p), UNCHANGED requests
    PROVE  IInv'
<1> USE ChannelAssumption DEF Served, Items, Settings
<1>w. Busy(p) /\ At(p, "load") /\ TypeOK /\ Flow
  BY DEF IInv, At, Load
<1>x. job[p] \in Job
  BY <1>w DEF TypeOK
<1>a. /\ Busy(p) /\ At(p, "load") /\ Before(p, "load")
      /\ job[p].op # "provision" /\ ~AtLast(p) /\ ~Before(p, "commit") /\ ~At(p, "enter")
      /\ job[p].op \in Linking => Before(p, "save")
      /\ job[p].op \in {"integrate", "secret"} => Before(p, "connect")
      /\ Before(p, "up") => Before(p, "env")
      /\ Before(p, "env") => Before(p, "save")
  BY <1>w, <1>x, Stands DEF Linking, Job, Ops
<1>y. todo' = [todo EXCEPT ![p] = Tail(todo[p])]
  BY <1>w DEF Load
<1>b. /\ todo' \in [Procs -> Seq(Steps)] /\ OthersStay(p)
      /\ Busy(p)'
      /\ \A x : Before(p, x)' <=> Before(p, x) /\ x # "load"
      /\ ~At(p, "load")' /\ ~At(p, "enter")'
      /\ Busy(p)' => todo'[p] \in Rest[job[p].op]
  BY <1>w, <1>y, <1>a, Advances, Zenon
<1>d. /\ mine'[p] = Committed /\ \A q \in Procs \ {p} : mine'[q] = mine[q]
      /\ mine' \in [Procs -> SUBSET Items]
      /\ stale'[p] = FALSE /\ \A q \in Procs \ {p} : stale'[q] = stale[q]
      /\ stale' \in [Procs -> BOOLEAN]
      /\ row' = row /\ conn' = conn /\ writer' = writer /\ old' = old
      /\ secret' = secret /\ env' = env /\ gateway' = gateway /\ job' = job
      /\ alone' = alone /\ apart' = apart /\ trouble' = trouble /\ requests' = requests
  BY <1>w DEF TypeOK, rowVars, Load, Committed
<1>k. \A q \in Procs : /\ Connected(q)' => Connected(q)
                       /\ Saved(q)' => Saved(q)
                       /\ Connected(q)' \/ Saved(q)' => Busy(q) /\ job'[q] = job[q]
  BY <1>a, <1>b, <1>d DEF Connected, Saved, OthersStay
<1>s. \A q \in Procs : /\ Busy(q)' => Busy(q)
                       /\ \A x : x # "load" => (Before(q, x)' <=> Before(q, x))
                       /\ Before(q, "load")' => Before(q, "load")
  BY <1>a, <1>b DEF OthersStay
<1>r. /\ Committed' = Committed /\ Links' = Links /\ apart \subseteq apart'
      /\ writer' = writer /\ row' = row /\ conn' = conn /\ old' = old
      /\ \A q \in Procs : alone'[q] => alone[q]
  BY <1>d DEF Committed, Links
<1>j. \A q \in Procs : Busy(q) => Busy(q)' /\ job'[q] = job[q]
  BY <1>a, <1>b, <1>d DEF OthersStay
<1>t. \A q \in Procs : writer = q <=> Before(q, "commit") /\ ~At(q, "enter")
  BY <1>w DEF TypeOK
<1>1. TypeOK'
  <2>1. \A q \in Procs : ToSet(todo'[q]) \subseteq Steps
    BY <1>b, OnlySteps
  <2>2. \A q \in Procs : (Before(q, "commit") /\ ~At(q, "enter"))' <=> writer' = q
    BY <1>a, <1>b, <1>d, <1>t DEF OthersStay
  <2> QED
    BY <1>a, <1>b, <1>d, <1>t, <2>1, <2>2 DEF IInv, TypeOK
<1>2. Flow'
  <2>1. \A q \in Procs : Busy(q)' => todo'[q] \in Rest[job'[q].op]
    BY <1>a, <1>b, <1>d, <1>t DEF IInv, Flow, OthersStay
  <2> QED
    BY <1>b, <1>d, <2>1 DEF IInv, Flow
<1>3. Asked'
  <2>1. \A q \in Procs : Busy(q)' => Busy(q) /\ job'[q] = job[q]
    BY <1>a, <1>b, <1>d DEF OthersStay
  <2> QED
    BY <2>1 DEF IInv, Asked
<1>4. Counted'
  <2>1. \A q \in Procs : Before(q, "secret")' <=> Before(q, "secret")
    BY <1>s
  <2>2. Pending' = Pending
    BY <2>1 DEF Pending
  <2> QED
    BY <1>d, <2>2 DEF IInv, Counted
<1>5. Lonely'
  <2>1. \A q \in Procs : Busy(q)' => Busy(q)
    BY <1>a, <1>b DEF OthersStay
  <2>2. \A q \in Procs : alone'[q] => alone[q]
    BY <1>d
  <2> QED
    BY <2>1, <2>2 DEF IInv, Lonely
<1>6. MineCurrent'
  BY <1>a, <1>b, <1>d, <1>t DEF IInv, MineCurrent, Committed, OthersStay
<1>7. Overtaken'
  BY <1>a, <1>b, <1>d, <1>t DEF IInv, Overtaken, OthersStay
<1>8. EnvKept'
  BY <1>a, <1>b, <1>d, <1>t DEF IInv, EnvKept, Committed, OthersStay
<1>9. GatewayLags'
  BY <1>a, <1>b, <1>d, <1>t DEF IInv, GatewayLags, OthersStay
<1>10. SecretsLag'
  BY <1>a, <1>b, <1>d, <1>t DEF IInv, SecretsLag, OthersStay
<1>11. Aside'
  BY <1>s, <1>r DEF IInv, Aside
<1>12. Noticed'
  BY <1>k, <1>s, <1>r DEF IInv, Noticed
<1>13. Progress'
  BY <1>k, <1>r DEF IInv, Progress
<1>14. InOrder'
  BY <1>s, <1>r, <1>j DEF IInv, InOrder
<1> QED
  BY <1>1, <1>2, <1>3, <1>4, <1>5, <1>6, <1>7, <1>8, <1>9, <1>10, <1>11,
      <1>12, <1>13, <1>14
  DEF IInv

\* A connection is made or changed.
LEMMA ConnectStep ==
    ASSUME NEW p \in Procs, IInv,
           Connect(p), UNCHANGED requests
    PROVE  IInv'
<1> USE ChannelAssumption DEF Served, Items, Settings
<1>w. Busy(p) /\ At(p, "connect") /\ TypeOK /\ Flow
  BY DEF IInv, At, Connect
<1>x. job[p] \in Job
  BY <1>w DEF TypeOK
<1>a. /\ Busy(p) /\ At(p, "connect") /\ Before(p, "connect")
      /\ job[p].op \in {"integrate", "secret"} /\ ~AtLast(p)
      /\ ~Before(p, "commit") /\ ~At(p, "enter") /\ ~At(p, "load") /\ Before(p, "save")
  BY <1>w, <1>x, Stands DEF Linking, Job, Ops
<1>y. todo' = [todo EXCEPT ![p] = Tail(todo[p])]
  BY <1>w DEF Connect, Done
<1>b. /\ todo' \in [Procs -> Seq(Steps)] /\ OthersStay(p)
      /\ Busy(p)'
      /\ \A x : Before(p, x)' <=> Before(p, x) /\ x # "connect"
      /\ ~At(p, "load")' /\ ~At(p, "enter")'
      /\ Busy(p)' => todo'[p] \in Rest[job[p].op]
  BY <1>w, <1>y, <1>a, Advances, Zenon
<1>c. job' = job /\ mine' = mine
  BY <1>a DEF Connect, Done, AtLast
<1>i. job[p].item \in Served
  BY <1>a DEF IInv, Asked, Linking
<1>e. PICK blank \in BOOLEAN :
         /\ blank => ~job[p].on
         /\ conn' = [conn EXCEPT ![job[p].item] =
                        IF job[p].on \/ blank THEN "configured" ELSE "disabled"]
         /\ apart' = apart \cup (IF blank THEN {job[p].item} ELSE {job[p].item} \cap Clash(p))
         /\ alone' = IF blank THEN [alone EXCEPT ![p] = FALSE] ELSE alone
  BY DEF Connect
<1>d. /\ writer = NoProc /\ row' = row /\ writer' = writer /\ old' = old /\ secret' = secret
      /\ env' = env /\ gateway' = gateway /\ stale' = stale /\ trouble' = trouble
      /\ requests' = requests
      /\ \A q \in Procs : alone'[q] => alone[q]
  BY <1>e, <1>w DEF Connect, TypeOK
<1>f. /\ \A i \in Served \ {job[p].item} : conn'[i] = conn[i]
      /\ conn' \in [Served -> Status \cup {None}]
      /\ conn'[job[p].item] = IF job[p].on \/ blank THEN "configured" ELSE "disabled"
  BY <1>e, <1>i, <1>w DEF TypeOK, Status
<1>g. /\ apart \subseteq apart' /\ apart' \subseteq Served /\ apart' \subseteq apart \cup {job[p].item}
      /\ job[p].item \notin apart' =>
            ~blank /\ \A q \in Procs \ {p} : Busy(q) => job[q].item # job[p].item
  <2>1. \A q \in Procs \ {p} : Busy(q) => job[q].item \in Clash(p)
    BY DEF Clash
  <2>2. CASE blank
    BY <1>e, <1>i, <1>w, <2>2 DEF TypeOK
  <2>3. CASE ~blank
    <3>1. apart' = apart \cup ({job[p].item} \cap Clash(p))
      BY <1>e, <2>3
    <3> QED
      BY <1>i, <1>w, <2>1, <2>3, <3>1 DEF TypeOK
  <2> QED
    BY <2>2, <2>3
<1>h. /\ \A q \in Procs \ {p} : alone'[q] = alone[q]
      /\ alone' \in [Procs -> BOOLEAN] /\ (blank => ~alone'[p])
  BY <1>e, <1>w DEF TypeOK
<1>k. \A q \in Procs : /\ Connected(q)' => Connected(q) \/ q = p
                       /\ Saved(q)' => Saved(q)
                       /\ Connected(q)' \/ Saved(q)' => Busy(q) /\ job'[q] = job[q]
  BY <1>a, <1>b, <1>c DEF Connected, Saved, OthersStay
<1>s. \A q \in Procs : /\ Busy(q)' => Busy(q)
                       /\ \A x : x # "connect" => (Before(q, x)' <=> Before(q, x))
                       /\ Before(q, "connect")' => Before(q, "connect")
  BY <1>a, <1>b DEF OthersStay
<1>t. \A q \in Procs : writer = q <=> Before(q, "commit") /\ ~At(q, "enter")
  BY <1>w DEF TypeOK
<1>1. TypeOK'
  <2>1. \A q \in Procs : ToSet(todo'[q]) \subseteq Steps
    BY <1>b, OnlySteps
  <2>2. \A q \in Procs : (Before(q, "commit") /\ ~At(q, "enter"))' <=> writer' = q
    BY <1>a, <1>b, <1>c, <1>d, <1>t DEF OthersStay
  <2> QED
    BY <1>a, <1>b, <1>c, <1>d, <1>t, <1>f, <1>g, <1>h, <2>1, <2>2 DEF IInv, TypeOK
<1>2. Flow'
  <2>1. \A q \in Procs : Busy(q)' => todo'[q] \in Rest[job'[q].op]
    BY <1>a, <1>b, <1>c, <1>d, <1>t DEF IInv, Flow, OthersStay
  <2> QED
    BY <1>b, <1>d, <2>1 DEF IInv, Flow
<1>3. Asked'
  <2>1. \A q \in Procs : Busy(q)' => Busy(q) /\ job'[q] = job[q]
    BY <1>a, <1>b, <1>c DEF OthersStay
  <2> QED
    BY <2>1 DEF IInv, Asked
<1>4. Counted'
  <2>1. \A q \in Procs : Before(q, "secret")' <=> Before(q, "secret")
    BY <1>s
  <2>2. Pending' = Pending
    BY <2>1 DEF Pending
  <2> QED
    BY <1>d, <2>2 DEF IInv, Counted
<1>5. Lonely'
  <2>1. \A q \in Procs : Busy(q)' => Busy(q)
    BY <1>a, <1>b DEF OthersStay
  <2>2. \A q \in Procs : alone'[q] => alone[q]
    BY <1>d
  <2> QED
    BY <2>1, <2>2 DEF IInv, Lonely
<1>6. MineCurrent'
  BY <1>a, <1>b, <1>c, <1>d, <1>t DEF IInv, MineCurrent, Committed, OthersStay
<1>7. Overtaken'
  BY <1>a, <1>b, <1>c, <1>d, <1>t DEF IInv, Overtaken, OthersStay
<1>8. EnvKept'
  BY <1>a, <1>b, <1>c, <1>d, <1>t DEF IInv, EnvKept, Committed, OthersStay
<1>9. GatewayLags'
  BY <1>a, <1>b, <1>c, <1>d, <1>t DEF IInv, GatewayLags, OthersStay
<1>10. SecretsLag'
  BY <1>a, <1>b, <1>c, <1>d, <1>t DEF IInv, SecretsLag, OthersStay
<1>11. Aside'
  BY <1>a, <1>b, <1>c, <1>d, <1>t DEF IInv, Aside, OthersStay
<1>12. Noticed'
  BY <1>k, <1>a, <1>b, <1>c, <1>d, <1>t DEF IInv, Noticed, OthersStay
<1>13. Progress'
  <2> SUFFICES ASSUME NEW q \in Procs, ~(job[q].item \in apart' /\ ~alone'[q]),
                      Connected(q)' \/ Saved(q)'
               PROVE  /\ Connected(q)' => IF job[q].on THEN conn'[job[q].item] \in {"configured", "tested"}
                                          ELSE conn'[job[q].item] # "configured"
                      /\ Saved(q)' => (job[q].item \in row <=> job[q].on)
    BY <1>c, <1>d DEF Progress, Links, Committed
  <2>1. CASE q = p
    <3>1. ~Saved(p)'
      BY <1>a, <1>s DEF Saved
    <3>2. ~blank
      BY <1>g, <1>h, <2>1
    <3> QED
      BY <1>f, <2>1, <3>1, <3>2
  <2>2. CASE q # p
    <3>1. Busy(q) /\ (Connected(q)' => Connected(q)) /\ (Saved(q)' => Saved(q))
      BY <1>k, <2>2
    <3>2. ~alone[q] /\ ~alone'[q]
      BY <1>a, <1>h, <2>2, <3>1 DEF IInv, Lonely
    <3>3. job[q].item \notin apart' /\ job[q].item # job[p].item
      BY <1>g, <2>2, <3>1, <3>2
    <3>4. job[q].op \in Linking
      BY <3>1 DEF Connected, Saved, Linking
    <3>5. job[q].item \in Served
      BY <3>1, <3>4 DEF IInv, Asked
    <3>6. conn'[job[q].item] = conn[job[q].item]
      BY <1>f, <3>3, <3>5
    <3> QED
      BY <1>d, <1>g, <3>1, <3>2, <3>3, <3>6 DEF IInv, Progress, Links, Committed
  <2> QED
    BY <2>1, <2>2
<1>14. InOrder'
  <2>1. \A q \in Procs : Busy(q) => Busy(q)'
    BY <1>b DEF OthersStay
  <2> QED
    BY <1>a, <1>b, <1>c, <1>d, <1>f, <1>g, <2>1 DEF IInv, InOrder, Committed, Links
<1> QED
  BY <1>1, <1>2, <1>3, <1>4, <1>5, <1>6, <1>7, <1>8, <1>9, <1>10, <1>11,
      <1>12, <1>13, <1>14
  DEF IInv

\* Secrets are stored.
LEMMA StoreSecretStep ==
    ASSUME NEW p \in Procs, IInv,
           StoreSecret(p), UNCHANGED requests
    PROVE  IInv'
<1> USE ChannelAssumption DEF Served, Items, Settings
<1>w. Busy(p) /\ At(p, "secret") /\ TypeOK /\ Flow
  BY DEF IInv, At, StoreSecret
<1>x. job[p] \in Job
  BY <1>w DEF TypeOK
<1>a. /\ Busy(p) /\ At(p, "secret") /\ Before(p, "secret")
      /\ ~AtLast(p) /\ Before(p, "env") /\ Before(p, "up") /\ ~At(p, "enter") /\ ~At(p, "load")
  BY <1>w, <1>x, Stands DEF Linking, Job, Ops
<1>y. todo' = [todo EXCEPT ![p] = Tail(todo[p])]
  BY <1>w DEF StoreSecret, Done
<1>b. /\ todo' \in [Procs -> Seq(Steps)] /\ OthersStay(p)
      /\ Busy(p)'
      /\ \A x : Before(p, x)' <=> Before(p, x) /\ x # "secret"
      /\ ~At(p, "load")' /\ ~At(p, "enter")'
      /\ Busy(p)' => todo'[p] \in Rest[job[p].op]
  BY <1>w, <1>y, <1>a, Advances, Zenon
<1>c. job' = job /\ mine' = mine
  BY <1>a DEF StoreSecret, Done, AtLast
<1>d. /\ row' = row /\ conn' = conn /\ writer' = writer /\ old' = old
      /\ env' = env /\ gateway' = gateway /\ stale' = stale /\ alone' = alone
      /\ apart' = apart /\ trouble' = trouble /\ requests' = requests
      /\ DOMAIN secret' = Kinds /\ secret \in [Kinds -> Nat]
      /\ \A k \in Kinds : secret'[k] \in {secret[k], secret[k] + 1}
      /\ secret' = [k \in Kinds |-> secret'[k]]
  BY <1>w DEF TypeOK, rowVars, StoreSecret
<1>k. \A q \in Procs : /\ Connected(q)' => Connected(q)
                       /\ Saved(q)' => Saved(q)
                       /\ Connected(q)' \/ Saved(q)' => Busy(q) /\ job'[q] = job[q]
  BY <1>a, <1>b, <1>c DEF Connected, Saved, OthersStay
<1>s. \A q \in Procs : /\ Busy(q)' => Busy(q)
                       /\ \A x : x # "secret" => (Before(q, x)' <=> Before(q, x))
                       /\ Before(q, "secret")' => Before(q, "secret")
  BY <1>a, <1>b DEF OthersStay
<1>r. /\ Committed' = Committed /\ Links' = Links /\ apart \subseteq apart'
      /\ writer' = writer /\ row' = row /\ conn' = conn /\ old' = old
      /\ \A q \in Procs : alone'[q] => alone[q]
  BY <1>d DEF Committed, Links
<1>j. \A q \in Procs : Busy(q) => Busy(q)' /\ job'[q] = job[q]
  BY <1>a, <1>b, <1>c DEF OthersStay
<1>t. \A q \in Procs : writer = q <=> Before(q, "commit") /\ ~At(q, "enter")
  BY <1>w DEF TypeOK
<1>z. /\ Counted' /\ secret' \in [Kinds -> 0 .. MaxRequests]
  <2>1. Pending' = Pending \ {p} /\ p \in Pending
    BY <1>a, <1>b DEF Pending, OthersStay
  <2>2. IsFiniteSet(Pending) /\ \A k \in Kinds : secret[k] + Cardinality(Pending) <= requests
    BY DEF IInv, Counted
  <2>3. /\ IsFiniteSet(Pending') /\ Cardinality(Pending') = Cardinality(Pending) - 1
        /\ Cardinality(Pending) \in Nat /\ Cardinality(Pending') \in Nat
    BY <2>1, <2>2, FS_RemoveElement, FS_CardinalityType
  <2>4. requests \in 0 .. MaxRequests
    BY <1>w DEF TypeOK
  <2>5. ASSUME NEW k \in Kinds
        PROVE  /\ secret'[k] + Cardinality(Pending') <= requests'
               /\ secret'[k] \in 0 .. MaxRequests
    BY <1>d, <2>2, <2>3, <2>4
  <2>6. secret' \in [Kinds -> 0 .. MaxRequests]
    BY <1>d, <2>5
  <2> QED
    BY <2>3, <2>5, <2>6 DEF Counted
<1>1. TypeOK'
  <2>1. \A q \in Procs : ToSet(todo'[q]) \subseteq Steps
    BY <1>b, OnlySteps
  <2>2. \A q \in Procs : (Before(q, "commit") /\ ~At(q, "enter"))' <=> writer' = q
    BY <1>a, <1>b, <1>c, <1>d, <1>t DEF OthersStay
  <2> QED
    BY <1>a, <1>b, <1>c, <1>d, <1>t, <1>z, <2>1, <2>2 DEF IInv, TypeOK
<1>2. Flow'
  <2>1. \A q \in Procs : Busy(q)' => todo'[q] \in Rest[job'[q].op]
    BY <1>a, <1>b, <1>c, <1>d, <1>t DEF IInv, Flow, OthersStay
  <2> QED
    BY <1>b, <1>d, <2>1 DEF IInv, Flow
<1>3. Asked'
  <2>1. \A q \in Procs : Busy(q)' => Busy(q) /\ job'[q] = job[q]
    BY <1>a, <1>b, <1>c DEF OthersStay
  <2> QED
    BY <2>1 DEF IInv, Asked
<1>4. Counted'
  BY <1>z
<1>5. Lonely'
  <2>1. \A q \in Procs : Busy(q)' => Busy(q)
    BY <1>a, <1>b DEF OthersStay
  <2>2. \A q \in Procs : alone'[q] => alone[q]
    BY <1>d
  <2> QED
    BY <2>1, <2>2 DEF IInv, Lonely
<1>6. MineCurrent'
  BY <1>a, <1>b, <1>c, <1>d, <1>t DEF IInv, MineCurrent, Committed, OthersStay
<1>7. Overtaken'
  BY <1>a, <1>b, <1>c, <1>d, <1>t DEF IInv, Overtaken, OthersStay
<1>8. EnvKept'
  BY <1>a, <1>b, <1>c, <1>d, <1>t DEF IInv, EnvKept, Committed, OthersStay
<1>9. GatewayLags'
  BY <1>a, <1>b, <1>c, <1>d, <1>t DEF IInv, GatewayLags, OthersStay
<1>10. SecretsLag'
  BY <1>a, <1>b, <1>c, <1>d, <1>t DEF IInv, SecretsLag, OthersStay
<1>11. Aside'
  BY <1>s, <1>r DEF IInv, Aside
<1>12. Noticed'
  BY <1>k, <1>s, <1>r DEF IInv, Noticed
<1>13. Progress'
  BY <1>k, <1>r DEF IInv, Progress
<1>14. InOrder'
  BY <1>s, <1>r, <1>j DEF IInv, InOrder
<1> QED
  BY <1>1, <1>2, <1>3, <1>4, <1>5, <1>6, <1>7, <1>8, <1>9, <1>10, <1>11,
      <1>12, <1>13, <1>14
  DEF IInv

\* The env file is written.
LEMMA WriteEnvStep ==
    ASSUME NEW p \in Procs, IInv,
           WriteEnv(p), UNCHANGED requests
    PROVE  IInv'
<1> USE ChannelAssumption DEF Served, Items, Settings
<1>w. Busy(p) /\ At(p, "env") /\ TypeOK /\ Flow
  BY DEF IInv, At, WriteEnv
<1>x. job[p] \in Job
  BY <1>w DEF TypeOK
<1>a. /\ Busy(p) /\ At(p, "env") /\ Before(p, "env")
      /\ ~AtLast(p) /\ Before(p, "up") /\ ~Before(p, "save") /\ ~At(p, "enter") /\ ~At(p, "load")
  BY <1>w, <1>x, Stands DEF Linking, Job, Ops
<1>y. todo' = [todo EXCEPT ![p] = Tail(todo[p])]
  BY <1>w DEF WriteEnv, Done
<1>b. /\ todo' \in [Procs -> Seq(Steps)] /\ OthersStay(p)
      /\ Busy(p)'
      /\ \A x : Before(p, x)' <=> Before(p, x) /\ x # "env"
      /\ ~At(p, "load")' /\ ~At(p, "enter")'
      /\ Busy(p)' => todo'[p] \in Rest[job[p].op]
  BY <1>w, <1>y, <1>a, Advances, Zenon
<1>c. job' = job /\ mine' = mine
  BY <1>a DEF WriteEnv, Done, AtLast
<1>d. /\ row' = row /\ conn' = conn /\ writer' = writer /\ old' = old
      /\ secret' = secret /\ gateway' = gateway /\ stale' = stale /\ alone' = alone
      /\ apart' = apart /\ requests' = requests
      /\ env' = mine[p] \cap Served /\ env' \subseteq Served
      /\ stale[p] => "env" \in trouble'
      /\ trouble' \subseteq {"env", "secret"}
      /\ "secret" \in trouble' <=> "secret" \in trouble
  BY <1>w DEF TypeOK, rowVars, WriteEnv
<1>k. \A q \in Procs : /\ Connected(q)' => Connected(q)
                       /\ Saved(q)' => Saved(q)
                       /\ Connected(q)' \/ Saved(q)' => Busy(q) /\ job'[q] = job[q]
  BY <1>a, <1>b, <1>c DEF Connected, Saved, OthersStay
<1>s. \A q \in Procs : /\ Busy(q)' => Busy(q)
                       /\ \A x : x # "env" => (Before(q, x)' <=> Before(q, x))
                       /\ Before(q, "env")' => Before(q, "env")
  BY <1>a, <1>b DEF OthersStay
<1>r. /\ Committed' = Committed /\ Links' = Links /\ apart \subseteq apart'
      /\ writer' = writer /\ row' = row /\ conn' = conn /\ old' = old
      /\ \A q \in Procs : alone'[q] => alone[q]
  BY <1>d DEF Committed, Links
<1>j. \A q \in Procs : Busy(q) => Busy(q)' /\ job'[q] = job[q]
  BY <1>a, <1>b, <1>c DEF OthersStay
<1>t. \A q \in Procs : writer = q <=> Before(q, "commit") /\ ~At(q, "enter")
  BY <1>w DEF TypeOK
<1>m. "env" \notin trouble' =>
          /\ env' = (IF writer = p THEN row ELSE Committed) \cap Served
          /\ writer \in {p, NoProc}
  <2>1. writer # NoProc /\ writer # p => stale[p]
    BY <1>a DEF IInv, Overtaken
  <2>2. ~stale[p] => mine[p] = IF writer = p THEN row ELSE Committed
    BY <1>a DEF IInv, MineCurrent
  <2> QED
    BY <1>d, <2>1, <2>2
<1>1. TypeOK'
  <2>1. \A q \in Procs : ToSet(todo'[q]) \subseteq Steps
    BY <1>b, OnlySteps
  <2>2. \A q \in Procs : (Before(q, "commit") /\ ~At(q, "enter"))' <=> writer' = q
    BY <1>a, <1>b, <1>c, <1>d, <1>t DEF OthersStay
  <2> QED
    BY <1>a, <1>b, <1>c, <1>d, <1>t, <2>1, <2>2 DEF IInv, TypeOK
<1>2. Flow'
  <2>1. \A q \in Procs : Busy(q)' => todo'[q] \in Rest[job'[q].op]
    BY <1>a, <1>b, <1>c, <1>d, <1>t DEF IInv, Flow, OthersStay
  <2> QED
    BY <1>b, <1>d, <2>1 DEF IInv, Flow
<1>3. Asked'
  <2>1. \A q \in Procs : Busy(q)' => Busy(q) /\ job'[q] = job[q]
    BY <1>a, <1>b, <1>c DEF OthersStay
  <2> QED
    BY <2>1 DEF IInv, Asked
<1>4. Counted'
  <2>1. \A q \in Procs : Before(q, "secret")' <=> Before(q, "secret")
    BY <1>s
  <2>2. Pending' = Pending
    BY <2>1 DEF Pending
  <2> QED
    BY <1>d, <2>2 DEF IInv, Counted
<1>5. Lonely'
  <2>1. \A q \in Procs : Busy(q)' => Busy(q)
    BY <1>a, <1>b DEF OthersStay
  <2>2. \A q \in Procs : alone'[q] => alone[q]
    BY <1>d
  <2> QED
    BY <2>1, <2>2 DEF IInv, Lonely
<1>6. MineCurrent'
  BY <1>a, <1>b, <1>c, <1>d, <1>t DEF IInv, MineCurrent, Committed, OthersStay
<1>7. Overtaken'
  BY <1>a, <1>b, <1>c, <1>d, <1>t DEF IInv, Overtaken, OthersStay
<1>8. EnvKept'
  <2> SUFFICES ASSUME "env" \notin trouble'
               PROVE  /\ writer = p \/ env' = Committed \cap Served
                      /\ \A q \in Procs : writer = q /\ ~Before(q, "env")' => env' = row \cap Served
    BY <1>b, <1>r DEF EnvKept
  <2> QED
    BY <1>m
<1>9. GatewayLags'
  BY <1>a, <1>b DEF GatewayLags
<1>10. SecretsLag'
  BY <1>s, <1>d DEF IInv, SecretsLag
<1>11. Aside'
  BY <1>s, <1>r DEF IInv, Aside
<1>12. Noticed'
  BY <1>k, <1>s, <1>r DEF IInv, Noticed
<1>13. Progress'
  BY <1>k, <1>r DEF IInv, Progress
<1>14. InOrder'
  BY <1>s, <1>r, <1>j DEF IInv, InOrder
<1> QED
  BY <1>1, <1>2, <1>3, <1>4, <1>5, <1>6, <1>7, <1>8, <1>9, <1>10, <1>11,
      <1>12, <1>13, <1>14
  DEF IInv

\* The gateway is created anew.
LEMMA UpStep ==
    ASSUME NEW p \in Procs, IInv,
           Up(p), UNCHANGED requests
    PROVE  IInv'
<1> USE ChannelAssumption DEF Served, Items, Settings
<1>w. Busy(p) /\ At(p, "up") /\ TypeOK /\ Flow
  BY DEF IInv, At, Up
<1>x. job[p] \in Job
  BY <1>w DEF TypeOK
<1>a. /\ Busy(p) /\ At(p, "up") /\ Before(p, "up")
      /\ ~Before(p, "save") /\ ~Before(p, "env") /\ ~Before(p, "connect") /\ ~Before(p, "relink")
      /\ ~At(p, "enter") /\ ~At(p, "load")
      /\ AtLast(p) => job[p].op \in {"integrate", "secret", "limits"}
      /\ ~AtLast(p) => job[p].op \notin {"integrate", "secret"}
      /\ job[p].op = "provision" => ~AtLast(p)
      /\ Before(p, "commit") <=> job[p].op = "provision"
  BY <1>w, <1>x, Stands DEF Linking, Job, Ops
<1>y. todo' = [todo EXCEPT ![p] = Tail(todo[p])]
  BY <1>w DEF Up, Done
<1>b. /\ todo' \in [Procs -> Seq(Steps)] /\ OthersStay(p)
      /\ Busy(p)' <=> ~AtLast(p)
      /\ \A x : Before(p, x)' <=> Before(p, x) /\ x # "up"
      /\ ~At(p, "load")' /\ ~At(p, "enter")'
      /\ Busy(p)' => todo'[p] \in Rest[job[p].op]
  BY <1>w, <1>y, Advances, Zenon
<1>c. /\ job' \in [Procs -> Job] /\ mine' \in [Procs -> SUBSET Items]
      /\ \A q \in Procs \ {p} : job'[q] = job[q] /\ mine'[q] = mine[q]
      /\ AtLast(p) => job'[p] = NoJob
      /\ ~AtLast(p) => job'[p] = job[p] /\ mine'[p] = mine[p]
  BY <1>w, DoneMeans DEF Up
<1>d. /\ row' = row /\ conn' = conn /\ writer' = writer /\ old' = old
      /\ secret' = secret /\ env' = env /\ stale' = stale /\ alone' = alone
      /\ requests' = requests
      /\ gateway' = [env |-> env, secret |-> secret]
      /\ trouble' = trouble \ {"secret"} /\ apart' = apart \ Mends(p)
  BY <1>w DEF TypeOK, rowVars, Up
<1>k. \A q \in Procs : /\ Connected(q)' => Connected(q)
                       /\ Saved(q)' => Saved(q)
                       /\ Connected(q)' \/ Saved(q)' => Busy(q) /\ job'[q] = job[q]
  BY <1>a, <1>b, <1>c DEF Connected, Saved, OthersStay
<1>s. \A q \in Procs : /\ Busy(q)' => Busy(q)
                       /\ \A x : x # "up" => (Before(q, x)' <=> Before(q, x))
                       /\ Before(q, "up")' => Before(q, "up")
  BY <1>a, <1>b DEF OthersStay
<1>t. \A q \in Procs : writer = q <=> Before(q, "commit") /\ ~At(q, "enter")
  BY <1>w DEF TypeOK
<1>m. /\ apart' \subseteq apart
      /\ \A i \in apart : i \notin apart' => AtLast(p) /\ alone[p] /\ i = job[p].item
  BY <1>d DEF Mends, AtLast
<1>r. Committed' = Committed /\ Links' = Links
  BY <1>d DEF Committed, Links
<1>n. \A q \in Procs \ {p} : Busy(q) => ~alone[p] /\ ~alone[q] /\ apart' = apart
  BY <1>a, <1>m DEF IInv, Lonely
<1>l. \A q \in Procs \ {p} : Busy(q) => Busy(q)' /\ job'[q] = job[q]
  BY <1>b, <1>c DEF OthersStay
<1>1. TypeOK'
  <2>1. \A q \in Procs : ToSet(todo'[q]) \subseteq Steps
    BY <1>b, OnlySteps
  <2>2. \A q \in Procs : (Before(q, "commit") /\ ~At(q, "enter"))' <=> writer' = q
    BY <1>a, <1>b, <1>c, <1>d, <1>t DEF OthersStay
  <2> QED
    BY <1>a, <1>b, <1>c, <1>d, <1>t, <2>1, <2>2 DEF IInv, TypeOK
<1>2. Flow'
  <2>1. \A q \in Procs : Busy(q)' => todo'[q] \in Rest[job'[q].op]
    BY <1>b, <1>c DEF IInv, Flow, OthersStay
  <2>2. gateway' \in [env : SUBSET Served, secret : [Kinds -> 0 .. MaxRequests]]
    BY <1>d, <1>w DEF TypeOK
  <2> QED
    BY <1>b, <1>d, <2>1, <2>2 DEF IInv, Flow
<1>3. Asked'
  <2>1. \A q \in Procs : Busy(q)' => Busy(q) /\ job'[q] = job[q]
    BY <1>a, <1>b, <1>c DEF OthersStay
  <2> QED
    BY <2>1 DEF IInv, Asked
<1>4. Counted'
  <2>1. \A q \in Procs : Before(q, "secret")' <=> Before(q, "secret")
    BY <1>s
  <2>2. Pending' = Pending
    BY <2>1 DEF Pending
  <2> QED
    BY <1>d, <2>2 DEF IInv, Counted
<1>5. Lonely'
  <2>1. \A q \in Procs : Busy(q)' => Busy(q)
    BY <1>a, <1>b DEF OthersStay
  <2>2. \A q \in Procs : alone'[q] => alone[q]
    BY <1>d
  <2> QED
    BY <2>1, <2>2 DEF IInv, Lonely
<1>6. MineCurrent'
  BY <1>a, <1>b, <1>c, <1>d, <1>t DEF IInv, MineCurrent, Committed, OthersStay
<1>7. Overtaken'
  BY <1>a, <1>b, <1>c, <1>d, <1>t DEF IInv, Overtaken, OthersStay
<1>8. EnvKept'
  BY <1>a, <1>s, <1>b, <1>d, <1>r DEF IInv, EnvKept, OthersStay
<1>9. GatewayLags'
  BY <1>d DEF GatewayLags
<1>10. SecretsLag'
  BY <1>d DEF SecretsLag
<1>11. Aside'
  <2> SUFFICES ASSUME NEW q \in Procs, writer = q
               PROVE  \A i \in Served :
                         /\ i \in old.row /\ i \notin row => i \in apart'
                         /\ conn[i] = IF i \in row /\ ~Before(q, "relink") THEN "configured"
                                      ELSE old.conn[i]
    BY <1>s, <1>d DEF Aside
  <2>1. apart' = apart
    <3>1. CASE q = p
      BY <1>a, <1>m, <1>t, <3>1
    <3>2. CASE q # p
      <4>1. Busy(q)
        BY <1>t, Nothing
      <4> QED
        BY <1>n, <3>2, <4>1
    <3> QED
      BY <3>1, <3>2
  <2> QED
    BY <2>1 DEF IInv, Aside
<1>12. Noticed'
  <2> SUFFICES ASSUME NEW w \in Procs, NEW q \in Procs,
                      writer = w /\ ~Before(w, "relink") /\ q # w,
                      Connected(q) \/ Saved(q), Busy(q), job[q].item \in row
               PROVE  job[q].item \in apart'
    BY <1>k, <1>s, <1>d DEF Noticed
  <2>1. job[q].item \in apart
    BY DEF IInv, Noticed
  <2>2. Busy(w)
    BY <1>t, Nothing
  <2> QED
    BY <1>n, <2>1, <2>2
<1>13. Progress'
  <2>1. \A q \in Procs : Connected(q)' \/ Saved(q)' => apart' = apart
    BY <1>k, <1>n, <1>m, <1>b DEF Connected, Saved
  <2> QED
    BY <1>k, <1>r, <1>d, <2>1 DEF IInv, Progress
<1>14. InOrder'
  <2> SUFFICES ASSUME NEW i \in Served \ apart', ~\E q \in Procs : Busy(q)' /\ job'[q].item = i
               PROVE  IF i \in Committed THEN Links[i] \in {"configured", "tested"}
                      ELSE Links[i] # "configured"
    BY <1>r DEF InOrder
  <2>1. \A q \in Procs \ {p} : Busy(q) => job[q].item # i
    BY <1>l
  <2>2. CASE job[p].item # i
    BY <1>m, <2>1, <2>2 DEF IInv, InOrder
  <2>3. CASE job[p].item = i
    <3>1. AtLast(p)
      BY <1>b, <1>c, <2>3
    <3>2. job[p].op # "limits"
      BY <1>a, <2>3 DEF IInv, Asked
    <3>3. Connected(p) /\ Saved(p)
      BY <1>a, <3>1, <3>2 DEF Connected, Saved, Linking
    <3>4. ~(i \in apart /\ ~alone[p])
      BY <1>m, <2>3
    <3> QED
      BY <2>3, <3>3, <3>4 DEF IInv, Progress
  <2> QED
    BY <2>2, <2>3
<1> QED
  BY <1>1, <1>2, <1>3, <1>4, <1>5, <1>6, <1>7, <1>8, <1>9, <1>10, <1>11,
      <1>12, <1>13, <1>14
  DEF IInv

\* A connection is deleted.
LEMMA DisconnectStep ==
    ASSUME NEW p \in Procs, IInv,
           Disconnect(p), UNCHANGED requests
    PROVE  IInv'
<1> USE ChannelAssumption DEF Served, Items, Settings
<1>w. Busy(p) /\ At(p, "disconnect") /\ TypeOK /\ Flow
  BY DEF IInv, At, Disconnect
<1>x. job[p] \in Job
  BY <1>w DEF TypeOK
<1>a. /\ Busy(p) /\ At(p, "disconnect") /\ Before(p, "disconnect")
      /\ job[p].op = "unlink" /\ AtLast(p) /\ ~Before(p, "save") /\ ~Before(p, "commit")
      /\ ~At(p, "enter") /\ ~At(p, "load") /\ ~Before(p, "up") /\ ~Before(p, "env")
  BY <1>w, <1>x, Stands DEF Linking, Job, Ops
<1>y. todo' = [todo EXCEPT ![p] = Tail(todo[p])]
  BY <1>w DEF Disconnect, Done
<1>b. /\ todo' \in [Procs -> Seq(Steps)] /\ OthersStay(p)
      /\ ~Busy(p)'
      /\ \A x : Before(p, x)' <=> Before(p, x) /\ x # "disconnect"
      /\ \A x : ~Before(p, x)'
      /\ ~At(p, "load")' /\ ~At(p, "enter")'
  <2>1. /\ todo' \in [Procs -> Seq(Steps)] /\ OthersStay(p) /\ ~Busy(p)'
        /\ \A x : Before(p, x)' <=> Before(p, x) /\ x # "disconnect"
        /\ ~At(p, "load")' /\ ~At(p, "enter")'
    BY <1>w, <1>y, <1>a, Advances, Zenon
  <2>2. \A x : Before(p, x) => x = "disconnect"
    BY <1>w, <1>a, Stands
  <2> QED
    BY <2>1, <2>2, Zenon
<1>c. /\ job' \in [Procs -> Job] /\ mine' \in [Procs -> SUBSET Items]
      /\ \A q \in Procs \ {p} : job'[q] = job[q] /\ mine'[q] = mine[q]
      /\ job'[p] = NoJob
  BY <1>w, <1>a, DoneMeans DEF Disconnect
<1>d. /\ writer = NoProc
      /\ row' = row /\ writer' = writer /\ old' = old /\ secret' = secret
      /\ env' = env /\ gateway' = gateway /\ stale' = stale /\ alone' = alone
      /\ trouble' = trouble /\ requests' = requests
      /\ conn' = [conn EXCEPT ![job[p].item] = None]
      /\ apart' = (apart \ Mends(p)) \cup ({job[p].item} \cap Clash(p))
  BY <1>w DEF TypeOK, rowVars, Disconnect
<1>k. \A q \in Procs : /\ Connected(q)' => Connected(q)
                       /\ Saved(q)' => Saved(q)
                       /\ Connected(q)' \/ Saved(q)' => Busy(q) /\ job'[q] = job[q]
  BY <1>a, <1>b, <1>c DEF Connected, Saved, OthersStay
<1>s. \A q \in Procs : /\ Busy(q)' => Busy(q)
                       /\ \A x : x # "disconnect" => (Before(q, x)' <=> Before(q, x))
                       /\ Before(q, "disconnect")' => Before(q, "disconnect")
  BY <1>a, <1>b DEF OthersStay
<1>t. \A q \in Procs : writer = q <=> Before(q, "commit") /\ ~At(q, "enter")
  BY <1>w DEF TypeOK
<1>i. job[p].item \in Served
  BY <1>a DEF IInv, Asked, Linking
<1>e. /\ conn'[job[p].item] = None /\ \A i \in Served \ {job[p].item} : conn'[i] = conn[i]
      /\ conn' \in [Served -> Status \cup {None}]
  BY <1>d, <1>i, <1>w DEF TypeOK
<1>m. /\ apart' \subseteq apart \cup {job[p].item} /\ \A i \in apart : i # job[p].item => i \in apart'
      /\ alone[p] \/ apart \subseteq apart'
      /\ job[p].item \notin apart' => \A q \in Procs \ {p} : Busy(q) => job[q].item # job[p].item
  <2>1. \A q \in Procs \ {p} : Busy(q) => job[q].item \in Clash(p)
    BY DEF Clash
  <2>2. Mends(p) \subseteq {job[p].item} /\ (~alone[p] => Mends(p) = {})
    BY DEF Mends
  <2> HIDE DEF Mends, Clash
  <2>3. apart' \subseteq apart \cup {job[p].item} /\ \A i \in apart : i # job[p].item => i \in apart'
    BY <1>d, <2>2
  <2>4. alone[p] \/ apart \subseteq apart'
    BY <1>d, <2>2
  <2>5. job[p].item \notin apart' => job[p].item \notin Clash(p)
    BY <1>d
  <2> QED
    BY <2>1, <2>3, <2>4, <2>5
<1>n. \A q \in Procs \ {p} : Busy(q) => ~alone[p] /\ ~alone[q]
  BY <1>a DEF IInv, Lonely
<1>l. \A q \in Procs \ {p} : Busy(q) => Busy(q)' /\ job'[q] = job[q]
  BY <1>b, <1>c DEF OthersStay
<1>1. TypeOK'
  <2>1. \A q \in Procs : ToSet(todo'[q]) \subseteq Steps
    BY <1>b, OnlySteps
  <2>2. \A q \in Procs : (Before(q, "commit") /\ ~At(q, "enter"))' <=> writer' = q
    BY <1>a, <1>b, <1>c, <1>d, <1>t DEF OthersStay
  <2> QED
    BY <1>a, <1>b, <1>c, <1>d, <1>t, <1>e, <1>m, <1>i, <2>1, <2>2 DEF IInv, TypeOK
<1>2. Flow'
  <2>1. \A q \in Procs : Busy(q)' => todo'[q] \in Rest[job'[q].op]
    BY <1>b, <1>c, Zenon DEF IInv, Flow, OthersStay
  <2> QED
    BY <1>b, <1>d, <2>1 DEF IInv, Flow
<1>3. Asked'
  <2>1. \A q \in Procs : Busy(q)' => Busy(q) /\ job'[q] = job[q]
    BY <1>a, <1>b, <1>c DEF OthersStay
  <2> QED
    BY <2>1 DEF IInv, Asked
<1>4. Counted'
  <2>1. \A q \in Procs : Before(q, "secret")' <=> Before(q, "secret")
    BY <1>s
  <2>2. Pending' = Pending
    BY <2>1 DEF Pending
  <2> QED
    BY <1>d, <2>2 DEF IInv, Counted
<1>5. Lonely'
  <2>1. \A q \in Procs : Busy(q)' => Busy(q)
    BY <1>a, <1>b DEF OthersStay
  <2>2. \A q \in Procs : alone'[q] => alone[q]
    BY <1>d
  <2> QED
    BY <2>1, <2>2 DEF IInv, Lonely
<1>6. MineCurrent'
  BY <1>a, <1>b, <1>c, <1>d, <1>t DEF IInv, MineCurrent, Committed, OthersStay
<1>7. Overtaken'
  BY <1>a, <1>b, <1>c, <1>d, <1>t DEF IInv, Overtaken, OthersStay
<1>8. EnvKept'
  BY <1>a, <1>b, <1>c, <1>d, <1>t DEF IInv, EnvKept, Committed, OthersStay
<1>9. GatewayLags'
  BY <1>a, <1>b, <1>c, <1>d, <1>t DEF IInv, GatewayLags, OthersStay
<1>10. SecretsLag'
  BY <1>a, <1>b, <1>c, <1>d, <1>t DEF IInv, SecretsLag, OthersStay
<1>11. Aside'
  BY <1>d DEF Aside
<1>12. Noticed'
  BY <1>d DEF Noticed
<1>13. Progress'
  <2> SUFFICES ASSUME NEW q \in Procs, ~(job'[q].item \in apart' /\ ~alone[q]),
                      Connected(q)' \/ Saved(q)'
               PROVE  /\ Connected(q)' => IF job'[q].on THEN conn'[job'[q].item] \in {"configured", "tested"}
                                          ELSE conn'[job'[q].item] # "configured"
                      /\ Saved(q)' => (job'[q].item \in row <=> job'[q].on)
    BY <1>d DEF Progress, Links, Committed
  <2>1. /\ Busy(q) /\ job'[q] = job[q] /\ q # p
        /\ (Connected(q)' => Connected(q)) /\ (Saved(q)' => Saved(q))
    BY <1>k, <1>b DEF Connected, Saved
  <2>2. ~alone[q] /\ ~alone[p]
    BY <1>n, <2>1
  <2>3. job[q].item \notin apart' /\ job[q].item # job[p].item /\ job[q].item \notin apart
    BY <1>m, <2>1, <2>2
  <2>4. job[q].op \in Linking
    BY <2>1 DEF Connected, Saved, Linking
  <2>5. conn'[job[q].item] = conn[job[q].item]
    BY <1>e, <2>1, <2>3, <2>4 DEF IInv, Asked
  <2> QED
    BY <1>d, <2>1, <2>3, <2>5 DEF IInv, Progress, Links, Committed
<1>14. InOrder'
  <2> SUFFICES ASSUME NEW i \in Served \ apart', ~\E q \in Procs : Busy(q)' /\ job'[q].item = i
               PROVE  IF i \in row THEN conn'[i] \in {"configured", "tested"}
                      ELSE conn'[i] # "configured"
    BY <1>d DEF InOrder, Committed, Links
  <2>1. \A q \in Procs \ {p} : Busy(q) => job[q].item # i
    BY <1>l
  <2>2. CASE job[p].item # i
    <3>1. conn'[i] = conn[i] /\ i \notin apart
      BY <1>e, <1>m, <2>2
    <3> QED
      BY <1>d, <2>1, <2>2, <3>1 DEF IInv, InOrder, Committed, Links
  <2>3. CASE job[p].item = i
    <3>1. Saved(p) /\ ~job[p].on
      BY <1>a DEF Saved, Linking, IInv, Asked
    <3>2. ~(i \in apart /\ ~alone[p])
      BY <1>m, <2>3
    <3>3. i \notin row
      BY <1>d, <2>3, <3>1, <3>2 DEF IInv, Progress, Committed
    <3> QED
      BY <1>e, <2>3, <3>3 DEF Status
  <2> QED
    BY <2>2, <2>3
<1> QED
  BY <1>1, <1>2, <1>3, <1>4, <1>5, <1>6, <1>7, <1>8, <1>9, <1>10, <1>11,
      <1>12, <1>13, <1>14
  DEF IInv

\* A runtime is saved.
LEMMA SaveStep ==
    ASSUME NEW p \in Procs, IInv,
           Save(p), UNCHANGED requests
    PROVE  IInv'
<1> USE ChannelAssumption DEF Served, Items, Settings
<1>w. Busy(p) /\ At(p, "save") /\ TypeOK /\ Flow
  BY DEF IInv, At, Save
<1>x. job[p] \in Job
  BY <1>w DEF TypeOK
<1>a. /\ Busy(p) /\ At(p, "save") /\ Before(p, "save")
      /\ ~Before(p, "commit") /\ ~At(p, "enter") /\ ~At(p, "load") /\ ~Before(p, "connect")
      /\ job[p].op \in Linking \cup {"skills", "limits"}
      /\ Before(p, "env") => Before(p, "up")
      /\ job[p].op \in Linking => Before(p, "env") /\ ~AtLast(p)
  BY <1>w, <1>x, Stands DEF Linking, Job, Ops
<1>y. todo' = [todo EXCEPT ![p] = Tail(todo[p])]
  BY <1>w DEF Save
<1>b. /\ todo' \in [Procs -> Seq(Steps)] /\ OthersStay(p)
      /\ Busy(p)' <=> ~AtLast(p)
      /\ \A x : Before(p, x)' <=> Before(p, x) /\ x # "save"
      /\ ~At(p, "load")' /\ ~At(p, "enter")'
      /\ Busy(p)' => todo'[p] \in Rest[job[p].op]
  BY <1>w, <1>y, Advances, Zenon
<1>d. /\ writer = NoProc /\ conn' = conn /\ writer' = writer /\ old' = old /\ secret' = secret
      /\ env' = env /\ gateway' = gateway /\ alone' = alone /\ requests' = requests
      /\ job' \in [Procs -> Job] /\ \A q \in Procs \ {p} : job'[q] = job[q]
      /\ AtLast(p) => job'[p] = NoJob
      /\ ~AtLast(p) => job'[p] = job[p]
      /\ stale'[p] = stale[p] /\ \A q \in Procs \ {p} : stale'[q] = Busy(q)
      /\ stale' \in [Procs -> BOOLEAN]
  <2>1. NoJob \in Job
    BY DEF NoJob, Job, Ops
  <2>2. stale' \in [Procs -> BOOLEAN] /\ stale'[p] = stale[p]
        /\ \A q \in Procs \ {p} : stale'[q] = Busy(q)
    BY <1>w DEF TypeOK, Save, Changed, Busy
  <2>3. /\ job' \in [Procs -> Job] /\ \A q \in Procs \ {p} : job'[q] = job[q]
        /\ AtLast(p) => job'[p] = NoJob
        /\ ~AtLast(p) => job'[p] = job[p]
    BY <1>w, <2>1 DEF TypeOK, Save, AtLast
  <2> QED
    BY <1>w, <2>2, <2>3 DEF Save
<1> DEFINE item == job[p].item
           wish == IF job[p].on THEN mine[p] \cup {item} ELSE mine[p] \ {item}
           lost == {i \in Served \ {item} : (i \in row) # (i \in row')}
<1>e. /\ row' = (row \ Columns(p)) \cup (wish \cap Columns(p))
      /\ apart' = apart \cup lost \cup ({item} \cap Clash(p) \cap Served)
      /\ trouble' = IF lost # {} /\ ~Before(p, "env") THEN trouble \cup {"env"} ELSE trouble
  BY DEF Save
<1>f. /\ Columns(p) \subseteq Items /\ item \in Columns(p) \cup {None} /\ None \notin Items
      /\ item \in Served => job[p].op \in Linking
      /\ item = None => ~job[p].on
  <2>1. job[p].op \in Linking => item \in Served
    BY <1>a DEF IInv, Asked
  <2>2. job[p].op = "skills" => item = Skills
    BY <1>a DEF IInv, Asked
  <2>3. job[p].op = "limits" => item = None /\ ~job[p].on
    BY <1>a DEF IInv, Asked
  <2>4. Columns(p) \subseteq Items
    BY DEF Columns
  <2>5. item \in Columns(p) \cup {None}
    BY <1>a, <2>1, <2>2, <2>3 DEF Columns, Linking
  <2> QED
    BY <1>a, <2>1, <2>2, <2>3, <2>4, <2>5
<1>g. /\ mine' \in [Procs -> SUBSET Items] /\ \A q \in Procs \ {p} : mine'[q] = mine[q]
      /\ ~AtLast(p) => mine'[p] = wish \cap Items
  <2>1. CASE AtLast(p)
    <3>1. mine' = [mine EXCEPT ![p] = {}]
      BY <2>1 DEF Save, AtLast
    <3> QED
      BY <1>w, <2>1, <3>1 DEF TypeOK
  <2>2. CASE ~AtLast(p)
    <3>1. mine' = [mine EXCEPT ![p] = wish \cap Items]
      BY <2>2 DEF Save, AtLast
    <3> HIDE DEF wish
    <3> QED
      BY <1>w, <3>1 DEF TypeOK
  <2> QED
    BY <2>1, <2>2
<1>h. /\ row' \subseteq Items /\ apart \subseteq apart' /\ apart' \subseteq Served
      /\ trouble \subseteq trouble' /\ trouble' \subseteq {"env", "secret"}
      /\ "secret" \in trouble' <=> "secret" \in trouble
  BY <1>e, <1>f, <1>w DEF TypeOK
<1>m. /\ \A i \in Served \ {item} : i \notin apart' => (i \in row <=> i \in row')
      /\ item \in Served /\ item \notin apart' =>
            \A q \in Procs \ {p} : Busy(q) => job[q].item # item
      /\ item \in Served => (item \in row' <=> job[p].on)
  <2>1. \A q \in Procs \ {p} : Busy(q) => job[q].item \in Clash(p)
    BY DEF Clash
  <2>2. \A i \in Served \ {item} : i \notin apart' => (i \in row <=> i \in row')
    BY <1>e
  <2>3. item \in Served => (item \in row' <=> job[p].on)
    BY <1>e, <1>f
  <2> HIDE DEF lost, wish
  <2>4. item \in Served /\ item \in Clash(p) => item \in apart'
    BY <1>e
  <2> QED
    BY <2>1, <2>2, <2>3, <2>4
<1>n. ~stale[p] => mine[p] = row /\ wish \cap Items = row'
  <2> SUFFICES ASSUME ~stale[p]
               PROVE  mine[p] = row /\ wish \cap Items = row'
    OBVIOUS
  <2>1. mine[p] = row /\ row \subseteq Items
    BY <1>a, <1>d, <1>w DEF IInv, MineCurrent, Committed, TypeOK
  <2> QED
    BY <1>e, <1>f, <2>1
<1>o. "env" \notin trouble' /\ ~Before(p, "env") => row' \cap Served = row \cap Served
  <2>1. ~Before(p, "env") => item \notin Served
    BY <1>a, <1>f
  <2> QED
    BY <1>e, <2>1
<1> HIDE DEF item, wish, lost
<1>k. \A q \in Procs : /\ Connected(q)' => Connected(q)
                       /\ Saved(q)' => Saved(q) \/ q = p
                       /\ Connected(q)' \/ Saved(q)' => Busy(q) /\ job'[q] = job[q]
  BY <1>a, <1>b, <1>d DEF Connected, Saved, OthersStay
<1>s. \A q \in Procs : /\ Busy(q)' => Busy(q)
                       /\ \A x : x # "save" => (Before(q, x)' <=> Before(q, x))
                       /\ Before(q, "save")' => Before(q, "save")
  BY <1>a, <1>b DEF OthersStay
<1>t. \A q \in Procs : writer = q <=> Before(q, "commit") /\ ~At(q, "enter")
  BY <1>w DEF TypeOK
<1>1. TypeOK'
  <2>1. \A q \in Procs : ToSet(todo'[q]) \subseteq Steps
    BY <1>b, OnlySteps
  <2>2. \A q \in Procs : (Before(q, "commit") /\ ~At(q, "enter"))' <=> writer' = q
    BY <1>a, <1>b, <1>d, <1>t DEF OthersStay
  <2> QED
    BY <1>a, <1>b, <1>d, <1>t, <1>g, <1>h, <2>1, <2>2 DEF IInv, TypeOK
<1>2. Flow'
  <2>1. \A q \in Procs : Busy(q)' => todo'[q] \in Rest[job'[q].op]
    BY <1>a, <1>b, <1>d, <1>t DEF IInv, Flow, OthersStay
  <2> QED
    BY <1>b, <1>d, <2>1 DEF IInv, Flow
<1>3. Asked'
  <2>1. \A q \in Procs : Busy(q)' => Busy(q) /\ job'[q] = job[q]
    BY <1>a, <1>b, <1>d DEF OthersStay
  <2> QED
    BY <2>1 DEF IInv, Asked
<1>4. Counted'
  <2>1. \A q \in Procs : Before(q, "secret")' <=> Before(q, "secret")
    BY <1>s
  <2>2. Pending' = Pending
    BY <2>1 DEF Pending
  <2> QED
    BY <1>d, <2>2 DEF IInv, Counted
<1>5. Lonely'
  <2>1. \A q \in Procs : Busy(q)' => Busy(q)
    BY <1>a, <1>b DEF OthersStay
  <2>2. \A q \in Procs : alone'[q] => alone[q]
    BY <1>d
  <2> QED
    BY <2>1, <2>2 DEF IInv, Lonely
<1>6. MineCurrent'
  <2>1. ASSUME NEW q \in Procs, Busy(q)', ~stale'[q]
        PROVE  mine'[q] = row'
    <3>1. q = p
      BY <1>b, <1>d, <2>1 DEF OthersStay
    <3> QED
      BY <1>b, <1>d, <1>g, <1>n, <2>1, <3>1
  <2> QED
    BY <1>d, <2>1 DEF MineCurrent, Committed
<1>7. Overtaken'
  BY <1>d DEF Overtaken
<1>8. EnvKept'
  <2> SUFFICES ASSUME "env" \notin trouble'
               PROVE  \/ \E q \in Procs : /\ writer # q /\ ~At(q, "enter")'
                                          /\ Before(q, "env")' /\ ~Before(q, "save")'
                      \/ env = row' \cap Served
    BY <1>d DEF EnvKept, Committed
  <2>1. CASE Before(p, "env")
    BY <1>b, <1>d, <2>1
  <2>2. CASE ~Before(p, "env")
    <3>1. row' \cap Served = row \cap Served
      BY <1>o, <2>2
    <3>2. \/ \E q \in Procs : /\ writer # q /\ ~At(q, "enter")
                              /\ Before(q, "env") /\ ~Before(q, "save")
          \/ env = row \cap Served
      BY <1>h, <1>d DEF IInv, EnvKept, Committed
    <3> QED
      BY <1>b, <2>2, <3>1, <3>2 DEF OthersStay
  <2> QED
    BY <2>1, <2>2
<1>9. GatewayLags'
  BY <1>s, <1>d, <1>h DEF IInv, GatewayLags
<1>10. SecretsLag'
  BY <1>s, <1>d, <1>h DEF IInv, SecretsLag
<1>11. Aside'
  BY <1>d DEF Aside
<1>12. Noticed'
  BY <1>d DEF Noticed
<1>13. Progress'
  <2> SUFFICES ASSUME NEW q \in Procs, ~(job[q].item \in apart' /\ ~alone[q]),
                      Connected(q)' \/ Saved(q)'
               PROVE  /\ Connected(q)' => IF job[q].on THEN conn[job[q].item] \in {"configured", "tested"}
                                          ELSE conn[job[q].item] # "configured"
                      /\ Saved(q)' => (job[q].item \in row' <=> job[q].on)
    BY <1>k, <1>d DEF Progress, Links, Committed
  <2>1. Busy(q) /\ job[q].op \in Linking /\ job[q].item \in Served
    <3>1. Busy(q) /\ job'[q] = job[q]
      BY <1>k
    <3>2. job[q].op \in Linking
      BY <3>1 DEF Connected, Saved, Linking
    <3> QED
      BY <3>1, <3>2 DEF IInv, Asked
  <2>2. Connected(q)' => IF job[q].on THEN conn[job[q].item] \in {"configured", "tested"}
                         ELSE conn[job[q].item] # "configured"
    BY <1>k, <1>h, <1>d DEF IInv, Progress, Links
  <2>3. Saved(q)' => (job[q].item \in row' <=> job[q].on)
    <3>1. CASE q = p
      BY <1>m, <2>1, <3>1 DEF item
    <3>2. CASE q # p
      <4>1. ~alone[q] /\ job[q].item \notin apart'
        BY <1>a, <2>1, <3>2 DEF IInv, Lonely
      <4>2. job[q].item # item
        BY <1>m, <2>1, <3>2, <4>1
      <4>3. job[q].item \in row <=> job[q].item \in row'
        BY <1>m, <2>1, <4>1, <4>2
      <4>4. Saved(q)' => Saved(q)
        BY <1>k, <3>2
      <4> QED
        BY <1>h, <1>d, <4>1, <4>3, <4>4 DEF IInv, Progress, Committed
    <3> QED
      BY <3>1, <3>2
  <2> QED
    BY <2>2, <2>3
<1>14. InOrder'
  <2> SUFFICES ASSUME NEW i \in Served \ apart', ~\E q \in Procs : Busy(q)' /\ job'[q].item = i
               PROVE  IF i \in row' THEN conn[i] \in {"configured", "tested"}
                      ELSE conn[i] # "configured"
    BY <1>d DEF InOrder, Committed, Links
  <2>1. \A q \in Procs \ {p} : Busy(q) => job[q].item # i
    BY <1>b, <1>d DEF OthersStay
  <2>2. item # i
    <3>1. SUFFICES ASSUME item = i
                   PROVE  FALSE
      OBVIOUS
    <3>2. Busy(p)' /\ job'[p] = job[p]
      BY <1>a, <1>b, <1>d, <1>f, <3>1
    <3> QED
      BY <3>1, <3>2 DEF item
  <2>3. i \in row <=> i \in row'
    BY <1>m, <2>2
  <2>4. i \notin apart
    BY <1>h
  <2>5. \A q \in Procs : Busy(q) => job[q].item # i
    BY <2>1, <2>2 DEF item
  <2> QED
    BY <1>d, <2>3, <2>4, <2>5 DEF IInv, InOrder, Committed, Links
<1> QED
  BY <1>1, <1>2, <1>3, <1>4, <1>5, <1>6, <1>7, <1>8, <1>9, <1>10, <1>11,
      <1>12, <1>13, <1>14
  DEF IInv

\* A transaction begins.
LEMMA EnterStep ==
    ASSUME NEW p \in Procs, IInv,
           Enter(p), UNCHANGED requests
    PROVE  IInv'
<1> USE ChannelAssumption DEF Served, Items, Settings
<1>w. Busy(p) /\ At(p, "enter") /\ TypeOK /\ Flow
  BY DEF IInv, At, Enter
<1>x. job[p] \in Job
  BY <1>w DEF TypeOK
<1>a. /\ Busy(p) /\ At(p, "enter") /\ Before(p, "enter")
      /\ job[p].op = "provision" /\ ~AtLast(p) /\ Before(p, "commit")
      /\ Before(p, "env") /\ Before(p, "relink")
  BY <1>w, <1>x, Stands DEF Linking, Job, Ops
<1>y. todo' = [todo EXCEPT ![p] = Tail(todo[p])]
  BY <1>w DEF Enter
<1>b. /\ todo' \in [Procs -> Seq(Steps)] /\ OthersStay(p)
      /\ Busy(p)'
      /\ \A x : Before(p, x)' <=> Before(p, x) /\ x # "enter"
      /\ ~At(p, "load")' /\ ~At(p, "enter")'
      /\ Busy(p)' => todo'[p] \in Rest[job[p].op]
  BY <1>w, <1>y, <1>a, Advances, Zenon
<1>d. /\ writer = NoProc /\ conn' = conn /\ writer' = p /\ old' = [row |-> row, conn |-> conn]
      /\ secret' = secret /\ env' = env /\ gateway' = gateway /\ alone' = alone
      /\ requests' = requests /\ job' = job /\ trouble' = trouble
      /\ row' \subseteq Items /\ mine'[p] = row' /\ \A q \in Procs \ {p} : mine'[q] = mine[q]
      /\ mine' \in [Procs -> SUBSET Items]
      /\ apart' = apart \cup ((row \ row') \cap Served)
      /\ stale' \in [Procs -> BOOLEAN] /\ \A q \in Procs \ {p} : stale'[q] = Busy(q)
  <2>1. PICK new \in Resolved(p) : /\ row' = new
                                   /\ mine' = [mine EXCEPT ![p] = new]
                                   /\ apart' = apart \cup ((row \ new) \cap Served)
    BY DEF Enter
  <2>2. new \subseteq Items
    BY <1>w, <2>1 DEF Resolved, TypeOK
  <2>3. /\ row' \subseteq Items /\ mine'[p] = row' /\ \A q \in Procs \ {p} : mine'[q] = mine[q]
        /\ mine' \in [Procs -> SUBSET Items]
        /\ apart' = apart \cup ((row \ row') \cap Served)
    BY <1>w, <2>1, <2>2 DEF TypeOK
  <2>4. stale' \in [Procs -> BOOLEAN] /\ \A q \in Procs \ {p} : stale'[q] = Busy(q)
    <3>1. stale' = [q \in Procs |-> IF q = p THEN stale[p] ELSE Busy(q)]
      BY DEF Enter, Changed
    <3> QED
      BY <1>w, <3>1 DEF TypeOK, Busy
  <2> QED
    BY <2>3, <2>4 DEF Enter, Lock
<1>r. /\ Committed' = Committed /\ Links' = Links /\ apart \subseteq apart' /\ apart' \subseteq Served
      /\ writer' # NoProc
  BY <1>d, <1>w DEF Committed, Links, TypeOK
<1>k. \A q \in Procs : /\ Connected(q)' => Connected(q)
                       /\ Saved(q)' => Saved(q)
                       /\ Connected(q)' \/ Saved(q)' => Busy(q) /\ job'[q] = job[q]
  BY <1>a, <1>b, <1>d DEF Connected, Saved, OthersStay
<1>s. \A q \in Procs : /\ Busy(q)' => Busy(q)
                       /\ \A x : x # "enter" => (Before(q, x)' <=> Before(q, x))
                       /\ Before(q, "enter")' => Before(q, "enter")
  BY <1>a, <1>b DEF OthersStay
<1>t. \A q \in Procs : writer = q <=> Before(q, "commit") /\ ~At(q, "enter")
  BY <1>w DEF TypeOK
<1>1. TypeOK'
  <2>1. \A q \in Procs : ToSet(todo'[q]) \subseteq Steps
    BY <1>b, OnlySteps
  <2>2. \A q \in Procs : (Before(q, "commit") /\ ~At(q, "enter"))' <=> writer' = q
    BY <1>a, <1>b, <1>d, <1>t DEF OthersStay
  <2> QED
    BY <1>a, <1>b, <1>d, <1>t, <1>r, <2>1, <2>2 DEF IInv, TypeOK
<1>2. Flow'
  <2>1. \A q \in Procs : Busy(q)' => todo'[q] \in Rest[job'[q].op]
    BY <1>b, <1>d DEF IInv, Flow, OthersStay
  <2>2. old' \in [row : SUBSET Items, conn : [Served -> Status \cup {None}]]
    BY <1>d, <1>w DEF TypeOK
  <2> QED
    BY <1>b, <1>d, <2>1, <2>2 DEF IInv, Flow
<1>3. Asked'
  <2>1. \A q \in Procs : Busy(q)' => Busy(q) /\ job'[q] = job[q]
    BY <1>a, <1>b, <1>d DEF OthersStay
  <2> QED
    BY <2>1 DEF IInv, Asked
<1>4. Counted'
  <2>1. \A q \in Procs : Before(q, "secret")' <=> Before(q, "secret")
    BY <1>s
  <2>2. Pending' = Pending
    BY <2>1 DEF Pending
  <2> QED
    BY <1>d, <2>2 DEF IInv, Counted
<1>5. Lonely'
  <2>1. \A q \in Procs : Busy(q)' => Busy(q)
    BY <1>a, <1>b DEF OthersStay
  <2>2. \A q \in Procs : alone'[q] => alone[q]
    BY <1>d
  <2> QED
    BY <2>1, <2>2 DEF IInv, Lonely
<1>6. MineCurrent'
  <2>1. \A q \in Procs : Busy(q)' /\ q # p => stale'[q]
    BY <1>b, <1>d DEF OthersStay
  <2> QED
    BY <1>d, <2>1 DEF MineCurrent
<1>7. Overtaken'
  <2>1. \A q \in Procs \ {p} : Before(q, "env")' => stale'[q]
    BY <1>b, <1>d, Nothing DEF OthersStay
  <2> QED
    BY <1>d, <2>1 DEF Overtaken
<1>8. EnvKept'
  <2> SUFFICES ASSUME "env" \notin trouble
               PROVE  \/ \E q \in Procs : /\ p # q /\ ~At(q, "enter")'
                                          /\ Before(q, "env")' /\ ~Before(q, "save")'
                      \/ env = Committed \cap Served
    BY <1>a, <1>b, <1>d, <1>r DEF EnvKept
  <2>1. \/ \E q \in Procs : /\ ~At(q, "enter")
                            /\ Before(q, "env") /\ ~Before(q, "save")
        \/ env = Committed \cap Served
    BY <1>d DEF IInv, EnvKept
  <2> QED
    BY <1>a, <1>b, <2>1 DEF OthersStay
<1>9. GatewayLags'
  BY <1>s, <1>d DEF IInv, GatewayLags
<1>10. SecretsLag'
  BY <1>s, <1>d DEF IInv, SecretsLag
<1>11. Aside'
  BY <1>a, <1>b, <1>d DEF Aside
<1>12. Noticed'
  BY <1>a, <1>b, <1>d DEF Noticed
<1>13. Progress'
  BY <1>k, <1>r, <1>d DEF IInv, Progress
<1>14. InOrder'
  <2>1. \A q \in Procs : Busy(q) => Busy(q)' /\ job'[q] = job[q]
    BY <1>a, <1>b, <1>d DEF OthersStay
  <2> QED
    BY <1>r, <2>1 DEF IInv, InOrder
<1> QED
  BY <1>1, <1>2, <1>3, <1>4, <1>5, <1>6, <1>7, <1>8, <1>9, <1>10, <1>11,
      <1>12, <1>13, <1>14
  DEF IInv

\* The connections of what is on are made.
LEMMA RelinkStep ==
    ASSUME NEW p \in Procs, IInv,
           Relink(p), UNCHANGED requests
    PROVE  IInv'
<1> USE ChannelAssumption DEF Served, Items, Settings
<1>w. Busy(p) /\ At(p, "relink") /\ TypeOK /\ Flow
  BY DEF IInv, At, Relink
<1>x. job[p] \in Job
  BY <1>w DEF TypeOK
<1>a. /\ Busy(p) /\ At(p, "relink") /\ Before(p, "relink")
      /\ job[p].op \in {"provision", "backfill"} /\ job[p].op \notin Linking
      /\ Before(p, "commit") <=> job[p].op = "provision"
      /\ AtLast(p) <=> job[p].op = "backfill"
      /\ ~Before(p, "save") /\ ~Before(p, "env") /\ ~At(p, "enter") /\ ~At(p, "load")
  BY <1>w, <1>x, Stands DEF Linking, Job, Ops
<1>y. todo' = [todo EXCEPT ![p] = Tail(todo[p])]
  BY <1>w DEF Relink, Done
<1>b. /\ todo' \in [Procs -> Seq(Steps)] /\ OthersStay(p)
      /\ Busy(p)' <=> ~AtLast(p)
      /\ \A x : Before(p, x)' <=> Before(p, x) /\ x # "relink"
      /\ ~At(p, "load")' /\ ~At(p, "enter")'
      /\ Busy(p)' => todo'[p] \in Rest[job[p].op]
  BY <1>w, <1>y, Advances, Zenon
<1>c. /\ job' \in [Procs -> Job] /\ mine' \in [Procs -> SUBSET Items]
      /\ \A q \in Procs \ {p} : job'[q] = job[q] /\ mine'[q] = mine[q]
      /\ AtLast(p) => job'[p] = NoJob
      /\ ~AtLast(p) => job'[p] = job[p] /\ mine'[p] = mine[p]
  BY <1>w, DoneMeans DEF Relink
<1>d. /\ writer \in {p, NoProc}
      /\ row' = row /\ writer' = writer /\ old' = old /\ secret' = secret
      /\ env' = env /\ gateway' = gateway /\ stale' = stale /\ alone' = alone
      /\ trouble' = trouble /\ requests' = requests
      /\ conn' = [i \in Served |-> IF i \in mine[p] \cap Served THEN "configured" ELSE conn[i]]
      /\ apart' = apart \cup (IF stale[p] THEN mine[p] \cap Served ELSE mine[p] \cap Served \cap Clash(p))
  BY <1>w DEF TypeOK, rowVars, Relink
<1>k. \A q \in Procs : /\ Connected(q)' => Connected(q)
                       /\ Saved(q)' => Saved(q)
                       /\ Connected(q)' \/ Saved(q)' => Busy(q) /\ job'[q] = job[q]
  BY <1>a, <1>b, <1>c DEF Connected, Saved, OthersStay
<1>s. \A q \in Procs : /\ Busy(q)' => Busy(q)
                       /\ \A x : x # "relink" => (Before(q, x)' <=> Before(q, x))
                       /\ Before(q, "relink")' => Before(q, "relink")
  BY <1>a, <1>b DEF OthersStay
<1>t. \A q \in Procs : writer = q <=> Before(q, "commit") /\ ~At(q, "enter")
  BY <1>w DEF TypeOK
<1>e. /\ conn' \in [Served -> Status \cup {None}]
      /\ \A i \in Served : conn'[i] = IF i \in mine[p] THEN "configured" ELSE conn[i]
  BY <1>d, <1>w DEF TypeOK, Status
<1>m. /\ apart \subseteq apart' /\ apart' \subseteq Served
      /\ stale[p] => mine[p] \cap Served \subseteq apart'
      /\ \A q \in Procs \ {p} : Busy(q) /\ job[q].item \in mine[p] \cap Served => job[q].item \in apart'
  <2>1. \A q \in Procs \ {p} : Busy(q) => job[q].item \in Clash(p)
    BY DEF Clash
  <2>2. apart \subseteq apart' /\ apart' \subseteq Served
    BY <1>d, <1>w DEF TypeOK
  <2>3. stale[p] => mine[p] \cap Served \subseteq apart'
    BY <1>d
  <2>4. mine[p] \cap Served \cap Clash(p) \subseteq apart'
    BY <1>d
  <2> QED
    BY <2>1, <2>2, <2>3, <2>4
<1>n. job[p].item = None
  BY <1>a DEF IInv, Asked
<1>r. Committed' = Committed /\ (writer # NoProc => Links' = Links)
  BY <1>d DEF Committed, Links
<1>l. \A q \in Procs \ {p} : Busy(q) => Busy(q)' /\ job'[q] = job[q]
  BY <1>b, <1>c DEF OthersStay
<1>o. \A q \in Procs : Connected(q)' \/ Saved(q)' => q # p /\ Busy(q) /\ job[q].item \in Served
  <2>1. \A q \in Procs : Connected(q)' \/ Saved(q)' => Busy(q) /\ job[q].op \in Linking
    BY <1>k DEF Connected, Saved, Linking
  <2> QED
    BY <1>a, <2>1 DEF IInv, Asked
<1>v. writer # p => writer = NoProc /\ (~stale[p] => mine[p] = row)
  BY <1>a, <1>d DEF IInv, MineCurrent, Committed
<1>u. writer = p => mine[p] = row /\ writer # NoProc
  BY <1>w DEF IInv, MineCurrent
<1>1. TypeOK'
  <2>1. \A q \in Procs : ToSet(todo'[q]) \subseteq Steps
    BY <1>b, OnlySteps
  <2>2. \A q \in Procs : (Before(q, "commit") /\ ~At(q, "enter"))' <=> writer' = q
    BY <1>a, <1>b, <1>c, <1>d, <1>t DEF OthersStay
  <2> QED
    BY <1>a, <1>b, <1>c, <1>d, <1>t, <1>e, <1>m, <2>1, <2>2 DEF IInv, TypeOK
<1>2. Flow'
  <2>1. \A q \in Procs : Busy(q)' => todo'[q] \in Rest[job'[q].op]
    BY <1>a, <1>b, <1>c, <1>d, <1>t DEF IInv, Flow, OthersStay
  <2> QED
    BY <1>b, <1>d, <2>1 DEF IInv, Flow
<1>3. Asked'
  <2>1. \A q \in Procs : Busy(q)' => Busy(q) /\ job'[q] = job[q]
    BY <1>a, <1>b, <1>c DEF OthersStay
  <2> QED
    BY <2>1 DEF IInv, Asked
<1>4. Counted'
  <2>1. \A q \in Procs : Before(q, "secret")' <=> Before(q, "secret")
    BY <1>s
  <2>2. Pending' = Pending
    BY <2>1 DEF Pending
  <2> QED
    BY <1>d, <2>2 DEF IInv, Counted
<1>5. Lonely'
  <2>1. \A q \in Procs : Busy(q)' => Busy(q)
    BY <1>a, <1>b DEF OthersStay
  <2>2. \A q \in Procs : alone'[q] => alone[q]
    BY <1>d
  <2> QED
    BY <2>1, <2>2 DEF IInv, Lonely
<1>6. MineCurrent'
  BY <1>a, <1>b, <1>c, <1>d, <1>t DEF IInv, MineCurrent, Committed, OthersStay
<1>7. Overtaken'
  BY <1>a, <1>b, <1>c, <1>d, <1>t DEF IInv, Overtaken, OthersStay
<1>8. EnvKept'
  BY <1>s, <1>b, <1>a, <1>d, <1>r DEF IInv, EnvKept, OthersStay
<1>9. GatewayLags'
  BY <1>a, <1>b, <1>c, <1>d, <1>t DEF IInv, GatewayLags, OthersStay
<1>10. SecretsLag'
  BY <1>a, <1>b, <1>c, <1>d, <1>t DEF IInv, SecretsLag, OthersStay
<1>11. Aside'
  <2>0. ~Before(p, "relink")'
    BY <1>b
  <2> SUFFICES ASSUME NEW q \in Procs, writer' = q, NEW i \in Served
               PROVE  /\ i \in old'.row /\ i \notin row' => i \in apart'
                      /\ conn'[i] = IF i \in row' /\ ~Before(q, "relink")' THEN "configured"
                                    ELSE old'.conn[i]
    BY DEF Aside
  <2>1. writer = p /\ q = p
    BY <1>d
  <2>2. /\ i \in old.row /\ i \notin row => i \in apart
        /\ conn[i] = old.conn[i]
    BY <1>a, <2>1 DEF IInv, Aside
  <2>3. conn'[i] = IF i \in row THEN "configured" ELSE old.conn[i]
    BY <1>e, <1>u, <2>1, <2>2
  <2>4. row' = row /\ old' = old /\ apart \subseteq apart'
    BY <1>d, <1>m
  <2> QED
    BY <2>0, <2>1, <2>2, <2>3, <2>4
<1>12. Noticed'
  <2> SUFFICES ASSUME writer = p, NEW q \in Procs \ {p}, Connected(q)' \/ Saved(q)',
                      job[q].item \in row
               PROVE  job[q].item \in apart'
    BY <1>k, <1>d DEF Noticed
  <2>1. Busy(q) /\ job[q].item \in Served
    BY <1>o
  <2> QED
    BY <1>m, <1>u, <2>1
<1>13. Progress'
  <2>1. CASE writer = p
    BY <1>k, <1>r, <1>d, <1>m, <1>u, <2>1 DEF IInv, Progress
  <2>2. CASE writer # p
    <3> SUFFICES ASSUME NEW q \in Procs, ~(job[q].item \in apart' /\ ~alone[q]),
                        Connected(q)' \/ Saved(q)'
                 PROVE  /\ Connected(q)' => IF job[q].on THEN conn'[job[q].item] \in {"configured", "tested"}
                                            ELSE conn'[job[q].item] # "configured"
                        /\ Saved(q)' => (job[q].item \in row <=> job[q].on)
      BY <1>k, <1>d, <1>v, <2>2 DEF Progress, Links, Committed
    <3>1. q # p /\ Busy(q) /\ job[q].item \in Served
      BY <1>o
    <3>2. ~alone[q] /\ job[q].item \notin apart'
      BY <1>a, <3>1 DEF IInv, Lonely
    <3>3. conn'[job[q].item] = conn[job[q].item]
      BY <1>e, <1>m, <3>1, <3>2
    <3> QED
      BY <1>k, <1>m, <1>v, <2>2, <3>2, <3>3 DEF IInv, Progress, Links, Committed
  <2> QED
    BY <2>1, <2>2
<1>14. InOrder'
  <2> SUFFICES ASSUME NEW i \in Served \ apart', ~\E q \in Procs : Busy(q)' /\ job'[q].item = i
               PROVE  IF i \in Committed THEN Links'[i] \in {"configured", "tested"}
                      ELSE Links'[i] # "configured"
    BY <1>r DEF InOrder
  <2>1. \A q \in Procs : Busy(q) => job[q].item # i
    BY <1>l, <1>n
  <2>2. IF i \in Committed THEN Links[i] \in {"configured", "tested"} ELSE Links[i] # "configured"
    BY <1>m, <2>1 DEF IInv, InOrder
  <2>3. CASE writer = p
    BY <1>r, <1>u, <2>2, <2>3
  <2>4. CASE writer # p
    <3>1. Committed = row /\ Links = conn /\ Links' = conn'
      BY <1>d, <1>v, <2>4 DEF Committed, Links
    <3>2. i \in mine[p] => i \in row
      BY <1>m, <1>v, <2>4
    <3> QED
      BY <1>e, <2>2, <3>1, <3>2
  <2> QED
    BY <2>3, <2>4
<1> QED
  BY <1>1, <1>2, <1>3, <1>4, <1>5, <1>6, <1>7, <1>8, <1>9, <1>10, <1>11,
      <1>12, <1>13, <1>14
  DEF IInv

\* A transaction is committed.
LEMMA CommitStep ==
    ASSUME NEW p \in Procs, IInv,
           Commit(p), UNCHANGED requests
    PROVE  IInv'
<1> USE ChannelAssumption DEF Served, Items, Settings
<1>w. Busy(p) /\ At(p, "commit") /\ TypeOK /\ Flow
  BY DEF IInv, At, Commit
<1>x. job[p] \in Job
  BY <1>w DEF TypeOK
<1>a. /\ Busy(p) /\ At(p, "commit") /\ Before(p, "commit")
      /\ job[p].op = "provision" /\ job[p].op \notin Linking /\ AtLast(p)
      /\ ~Before(p, "env") /\ ~Before(p, "relink") /\ ~Before(p, "up") /\ ~At(p, "enter") /\ ~At(p, "load")
  BY <1>w, <1>x, Stands DEF Linking, Job, Ops
<1>y. todo' = [todo EXCEPT ![p] = Tail(todo[p])]
  BY <1>w DEF Commit, Done
<1>b. /\ todo' \in [Procs -> Seq(Steps)] /\ OthersStay(p)
      /\ ~Busy(p)'
      /\ \A x : Before(p, x)' <=> Before(p, x) /\ x # "commit"
      /\ \A x : ~Before(p, x)'
      /\ ~At(p, "load")' /\ ~At(p, "enter")'
  <2>1. /\ todo' \in [Procs -> Seq(Steps)] /\ OthersStay(p) /\ ~Busy(p)'
        /\ \A x : Before(p, x)' <=> Before(p, x) /\ x # "commit"
        /\ ~At(p, "load")' /\ ~At(p, "enter")'
    BY <1>w, <1>y, <1>a, Advances, Zenon
  <2>2. \A x : Before(p, x) => x = "commit"
    BY <1>w, <1>a, Stands
  <2> QED
    BY <2>1, <2>2, Zenon
<1>c. /\ job' \in [Procs -> Job] /\ mine' \in [Procs -> SUBSET Items]
      /\ \A q \in Procs \ {p} : job'[q] = job[q] /\ mine'[q] = mine[q]
      /\ job'[p] = NoJob
  BY <1>w, <1>a, DoneMeans DEF Commit
<1>d. /\ writer' = NoProc /\ old' = [row |-> row, conn |-> conn]
      /\ row' = row /\ conn' = conn /\ secret' = secret /\ env' = env
      /\ gateway' = gateway /\ alone' = alone /\ apart' = apart /\ trouble' = trouble
      /\ requests' = requests
      /\ stale' \in [Procs -> BOOLEAN] /\ \A q \in Procs \ {p} : stale'[q] = Busy(q)
  BY <1>w DEF TypeOK, rowVars, Commit, Changed, Busy
<1>k. \A q \in Procs : /\ Connected(q)' => Connected(q)
                       /\ Saved(q)' => Saved(q)
                       /\ Connected(q)' \/ Saved(q)' => Busy(q) /\ job'[q] = job[q]
  BY <1>a, <1>b, <1>c DEF Connected, Saved, OthersStay
<1>s. \A q \in Procs : /\ Busy(q)' => Busy(q)
                       /\ \A x : x # "commit" => (Before(q, x)' <=> Before(q, x))
                       /\ Before(q, "commit")' => Before(q, "commit")
  BY <1>a, <1>b DEF OthersStay
<1>t. \A q \in Procs : writer = q <=> Before(q, "commit") /\ ~At(q, "enter")
  BY <1>w DEF TypeOK
<1>e. writer = p /\ writer # NoProc /\ old.row \subseteq Items
  BY <1>a, <1>w DEF TypeOK
<1>n. job[p].item = None
  BY <1>a DEF IInv, Asked
<1>r. /\ Committed' = row /\ Links' = conn /\ Committed = old.row /\ Links = old.conn
  BY <1>d, <1>e DEF Committed, Links
<1>l. \A q \in Procs \ {p} : Busy(q) => Busy(q)' /\ job'[q] = job[q]
  BY <1>b, <1>c DEF OthersStay
<1>m. \A i \in Served \ apart :
         /\ i \in old.row => i \in row
         /\ conn[i] = IF i \in row THEN "configured" ELSE old.conn[i]
  BY <1>a, <1>e DEF IInv, Aside
<1>1. TypeOK'
  <2>1. \A q \in Procs : ToSet(todo'[q]) \subseteq Steps
    BY <1>b, OnlySteps
  <2>2. \A q \in Procs : (Before(q, "commit") /\ ~At(q, "enter"))' <=> writer' = q
    BY <1>a, <1>b, <1>c, <1>d, <1>t DEF OthersStay
  <2> QED
    BY <1>a, <1>b, <1>c, <1>d, <1>t, <1>e, <2>1, <2>2 DEF IInv, TypeOK
<1>2. Flow'
  <2>1. \A q \in Procs : Busy(q)' => todo'[q] \in Rest[job'[q].op]
    BY <1>b, <1>c, Zenon DEF IInv, Flow, OthersStay
  <2>2. old' \in [row : SUBSET Items, conn : [Served -> Status \cup {None}]]
    BY <1>d, <1>w DEF TypeOK
  <2> QED
    BY <1>b, <1>d, <2>1, <2>2 DEF IInv, Flow
<1>3. Asked'
  <2>1. \A q \in Procs : Busy(q)' => Busy(q) /\ job'[q] = job[q]
    BY <1>a, <1>b, <1>c DEF OthersStay
  <2> QED
    BY <2>1 DEF IInv, Asked
<1>4. Counted'
  <2>1. \A q \in Procs : Before(q, "secret")' <=> Before(q, "secret")
    BY <1>s
  <2>2. Pending' = Pending
    BY <2>1 DEF Pending
  <2> QED
    BY <1>d, <2>2 DEF IInv, Counted
<1>5. Lonely'
  <2>1. \A q \in Procs : Busy(q)' => Busy(q)
    BY <1>a, <1>b DEF OthersStay
  <2>2. \A q \in Procs : alone'[q] => alone[q]
    BY <1>d
  <2> QED
    BY <2>1, <2>2 DEF IInv, Lonely
<1>6. MineCurrent'
  <2>1. \A q \in Procs : Busy(q)' => stale'[q]
    BY <1>b, <1>d DEF OthersStay
  <2> QED
    BY <1>d, <2>1 DEF MineCurrent
<1>7. Overtaken'
  BY <1>d DEF Overtaken
<1>8. EnvKept'
  BY <1>a, <1>d, <1>e, <1>r DEF IInv, EnvKept
<1>9. GatewayLags'
  BY <1>s, <1>d DEF IInv, GatewayLags
<1>10. SecretsLag'
  BY <1>s, <1>d DEF IInv, SecretsLag
<1>11. Aside'
  BY <1>d DEF Aside
<1>12. Noticed'
  BY <1>d DEF Noticed
<1>13. Progress'
  <2> SUFFICES ASSUME NEW q \in Procs, ~(job[q].item \in apart /\ ~alone[q]),
                      Connected(q)' \/ Saved(q)'
               PROVE  /\ Connected(q)' => IF job[q].on THEN conn[job[q].item] \in {"configured", "tested"}
                                          ELSE conn[job[q].item] # "configured"
                      /\ Saved(q)' => (job[q].item \in row <=> job[q].on)
    BY <1>k, <1>d, <1>r DEF Progress
  <2>1. Busy(q) /\ job[q].op \in Linking /\ (Connected(q) \/ Saved(q))
    BY <1>k DEF Connected, Saved, Linking
  <2>2. job[q].item \in Served /\ q # p
    BY <1>a, <2>1 DEF IInv, Asked
  <2>3. job[q].item \in Served \ apart
    BY <1>a, <2>1, <2>2 DEF IInv, Lonely
  <2>4. job[q].item \notin row
    BY <1>a, <1>e, <2>1, <2>2, <2>3 DEF IInv, Noticed
  <2>5. conn[job[q].item] = old.conn[job[q].item] /\ job[q].item \notin old.row
    BY <1>m, <2>3, <2>4
  <2> QED
    BY <1>k, <1>r, <2>3, <2>4, <2>5 DEF IInv, Progress
<1>14. InOrder'
  <2> SUFFICES ASSUME NEW i \in Served \ apart, ~\E q \in Procs : Busy(q)' /\ job'[q].item = i
               PROVE  IF i \in row THEN conn[i] \in {"configured", "tested"}
                      ELSE conn[i] # "configured"
    BY <1>d, <1>r DEF InOrder
  <2>1. \A q \in Procs : Busy(q) => job[q].item # i
    BY <1>l, <1>n
  <2>2. IF i \in old.row THEN old.conn[i] \in {"configured", "tested"}
        ELSE old.conn[i] # "configured"
    BY <1>r, <2>1 DEF IInv, InOrder
  <2> QED
    BY <1>m, <2>2
<1> QED
  BY <1>1, <1>2, <1>3, <1>4, <1>5, <1>6, <1>7, <1>8, <1>9, <1>10, <1>11,
      <1>12, <1>13, <1>14
  DEF IInv

\* An operation breaks off.
LEMMA FailStep ==
    ASSUME NEW p \in Procs, IInv,
           Fail(p), UNCHANGED requests
    PROVE  IInv'
<1> USE ChannelAssumption DEF Served, Items, Settings
<1>w. Busy(p) /\ TypeOK /\ Flow
  BY DEF IInv, Fail
<1>a. /\ Before(p, "up") /\ ~Before(p, "env") => ~Before(p, "save") /\ ~At(p, "enter")
      /\ Before(p, "env") => Before(p, "up")
  BY <1>w, Stands
<1>b. /\ todo' \in [Procs -> Seq(Steps)] /\ OthersStay(p) /\ ~Busy(p)'
      /\ \A x : ~Before(p, x)' /\ ~At(p, x)'
  <2>1. todo' = [todo EXCEPT ![p] = <<>>] /\ todo \in [Procs -> Seq(Steps)]
    BY <1>w DEF Fail, Flow
  <2>2. /\ todo' \in [Procs -> Seq(Steps)] /\ todo'[p] = <<>>
        /\ \A q \in Procs \ {p} : todo'[q] = todo[q]
    BY <2>1
  <2>3. OthersStay(p)
    BY <2>2, Zenon DEF OthersStay, Before, At, Busy
  <2>4. \A x : ~Before(p, x)' /\ ~At(p, x)'
    BY <2>2 DEF Before, At, Busy, Contains
  <2> QED
    BY <2>2, <2>3, <2>4 DEF Busy
<1>c. /\ job' \in [Procs -> Job] /\ mine' \in [Procs -> SUBSET Items]
      /\ \A q \in Procs \ {p} : job'[q] = job[q] /\ mine'[q] = mine[q]
  <2>1. NoJob \in Job
    BY DEF NoJob, Job, Ops
  <2> QED
    BY <1>w, <2>1 DEF TypeOK, Fail
<1>d. /\ old' = old /\ secret' = secret /\ env' = env /\ gateway' = gateway
      /\ stale' = stale /\ alone' = alone /\ requests' = requests
      /\ writer' = IF writer = p THEN NoProc ELSE writer
      /\ row' = IF writer = p THEN old.row ELSE row
      /\ conn' = IF writer = p THEN old.conn ELSE conn
      /\ apart' = apart \cup ({job[p].item} \cap Served)
  BY DEF Fail
<1>e. /\ trouble \subseteq trouble' /\ trouble' \subseteq {"env", "secret"}
      /\ "env" \notin trouble' =>
            /\ ~(Before(p, "up") /\ ~Before(p, "env"))
            /\ writer = p => Before(p, "env")
            /\ ~(writer # p /\ ~At(p, "enter") /\ Before(p, "env") /\ ~Before(p, "save"))
      /\ "secret" \notin trouble' => ~Before(p, "up")
  <2>1. CASE writer = p
    <3>1. trouble' = IF Before(p, "env") THEN trouble \cup {"secret"}
                     ELSE trouble \cup {"env", "secret"}
      BY <2>1 DEF Fail
    <3> QED
      BY <1>w, <2>1, <3>1 DEF TypeOK
  <2>2. CASE writer # p
    <3>1. trouble' = IF Before(p, "up") /\ ~Before(p, "save") /\ ~At(p, "enter")
                     THEN trouble \cup {"env", "secret"}
                     ELSE IF Before(p, "up") THEN trouble \cup {"secret"} ELSE trouble
      BY <2>2 DEF Fail
    <3> QED
      BY <1>a, <1>w, <2>2, <3>1 DEF TypeOK
  <2> QED
    BY <2>1, <2>2
<1>t. \A q \in Procs : writer = q <=> Before(q, "commit") /\ ~At(q, "enter")
  BY <1>w DEF TypeOK
<1>r. /\ Committed' = Committed /\ Links' = Links /\ apart \subseteq apart'
      /\ \A q \in Procs : writer' = q => q # p /\ writer = q /\ row' = row /\ conn' = conn
      /\ writer' # NoProc => writer' = writer /\ writer # p
      /\ \A q \in Procs \ {p} : writer = q => writer' = q
  BY <1>d DEF Committed, Links
<1>k. \A q \in Procs : /\ Busy(q)' => q # p /\ Busy(q)
                       /\ Connected(q)' => Connected(q)
                       /\ Saved(q)' => Saved(q)
                       /\ Connected(q)' \/ Saved(q)' => q # p /\ Busy(q)' /\ job'[q] = job[q]
  BY <1>b, <1>c DEF Connected, Saved, OthersStay
<1>s. \A q \in Procs : \A x : Before(q, x)' => q # p /\ Before(q, x)
  BY <1>b DEF OthersStay
<1>1. TypeOK'
  <2>1. \A q \in Procs : ToSet(todo'[q]) \subseteq Steps
    BY <1>b, OnlySteps
  <2>2. \A q \in Procs : (Before(q, "commit") /\ ~At(q, "enter"))' <=> writer' = q
    BY <1>b, <1>d, <1>t DEF OthersStay
  <2>3. /\ row' \subseteq Items /\ conn' \in [Served -> Status \cup {None}]
        /\ writer' \in Procs \cup {NoProc} /\ apart' \subseteq Served
    BY <1>d, <1>w DEF TypeOK
  <2> QED
    BY <1>c, <1>d, <1>e, <2>1, <2>2, <2>3 DEF IInv, TypeOK
<1>2. Flow'
  <2>1. \A q \in Procs : Busy(q)' => todo'[q] \in Rest[job'[q].op]
    BY <1>b, <1>c DEF IInv, Flow, OthersStay
  <2> QED
    BY <1>b, <1>d, <2>1 DEF IInv, Flow
<1>3. Asked'
  BY <1>k, <1>c DEF IInv, Asked
<1>4. Counted'
  <2>1. Pending' \subseteq Pending
    BY <1>s DEF Pending
  <2>2. IsFiniteSet(Pending') /\ Cardinality(Pending') <= Cardinality(Pending)
    BY <2>1, FS_Subset DEF IInv, Counted
  <2>3. Cardinality(Pending) \in Nat /\ Cardinality(Pending') \in Nat /\ requests \in Nat
    BY <1>w, <2>2, FS_CardinalityType DEF IInv, Counted, TypeOK
  <2>4. \A k \in Kinds : secret[k] \in Nat /\ secret[k] + Cardinality(Pending) <= requests
    BY <1>w DEF IInv, Counted, TypeOK
  <2>5. \A k \in Kinds : secret[k] + Cardinality(Pending') <= requests
    BY <2>2, <2>3, <2>4
  <2> QED
    BY <1>d, <2>2, <2>5 DEF Counted
<1>5. Lonely'
  BY <1>k, <1>d DEF IInv, Lonely
<1>6. MineCurrent'
  <2> SUFFICES ASSUME NEW q \in Procs
               PROVE  /\ writer' = q => mine'[q] = row'
                      /\ Busy(q)' /\ ~At(q, "load")' /\ ~At(q, "enter")' /\ ~stale'[q] /\ writer' # q
                         => mine'[q] = Committed'
    BY DEF MineCurrent
  <2>1. writer' = q => mine'[q] = row'
    BY <1>r, <1>c DEF IInv, MineCurrent
  <2>2. ASSUME Busy(q)', ~At(q, "load")', ~At(q, "enter")', ~stale'[q], writer' # q
        PROVE  mine'[q] = Committed'
    <3>1. q # p /\ Busy(q) /\ ~At(q, "load") /\ ~At(q, "enter")
      BY <1>b, <2>2 DEF OthersStay
    <3> QED
      BY <1>c, <1>d, <1>r, <2>2, <3>1 DEF IInv, MineCurrent
  <2> QED
    BY <2>1, <2>2
<1>7. Overtaken'
  BY <1>b, <1>d, <1>r DEF IInv, Overtaken, OthersStay
<1>8. EnvKept'
  <2> SUFFICES ASSUME "env" \notin trouble'
               PROVE  /\ \/ \E q \in Procs :
                               \/ /\ writer' # q /\ ~At(q, "enter")'
                                  /\ Before(q, "env")' /\ ~Before(q, "save")'
                               \/ writer' = q /\ ~Before(q, "env")'
                         \/ env = Committed \cap Served
                      /\ \A q \in Procs : writer' = q /\ ~Before(q, "env")' => env = row' \cap Served
    BY <1>d, <1>r DEF EnvKept
  <2>1. "env" \notin trouble
    BY <1>e
  <2>2. \A q \in Procs : writer' = q /\ ~Before(q, "env")' => env = row' \cap Served
    BY <1>b, <1>r, <2>1 DEF IInv, EnvKept, OthersStay
  <2>3. CASE env = Committed \cap Served
    BY <2>2, <2>3
  <2>4. CASE env # Committed \cap Served
    <3>1. PICK q \in Procs : \/ /\ writer # q /\ ~At(q, "enter")
                                /\ Before(q, "env") /\ ~Before(q, "save")
                             \/ writer = q /\ ~Before(q, "env")
      BY <2>1, <2>4 DEF IInv, EnvKept
    <3>2. q # p
      BY <1>e, <3>1
    <3>3. \/ /\ writer' # q /\ ~At(q, "enter")'
             /\ Before(q, "env")' /\ ~Before(q, "save")'
          \/ writer' = q /\ ~Before(q, "env")'
      BY <1>b, <1>r, <3>1, <3>2 DEF OthersStay
    <3> QED
      BY <2>2, <3>3
  <2> QED
    BY <2>3, <2>4
<1>9. GatewayLags'
  BY <1>b, <1>d, <1>e DEF IInv, GatewayLags, OthersStay
<1>10. SecretsLag'
  BY <1>b, <1>d, <1>e DEF IInv, SecretsLag, OthersStay
<1>11. Aside'
  <2>1. \A q \in Procs \ {p} : Before(q, "relink")' <=> Before(q, "relink")
    BY <1>b DEF OthersStay
  <2> QED
    BY <2>1, <1>d, <1>r DEF IInv, Aside
<1>12. Noticed'
  <2>1. \A q \in Procs \ {p} : Before(q, "relink")' <=> Before(q, "relink")
    BY <1>b DEF OthersStay
  <2> QED
    BY <2>1, <1>k, <1>r DEF IInv, Noticed
<1>13. Progress'
  BY <1>k, <1>d, <1>r DEF IInv, Progress
<1>14. InOrder'
  <2> SUFFICES ASSUME NEW i \in Served \ apart', ~\E q \in Procs : Busy(q)' /\ job'[q].item = i
               PROVE  IF i \in Committed THEN Links[i] \in {"configured", "tested"}
                      ELSE Links[i] # "configured"
    BY <1>r DEF InOrder
  <2>1. \A q \in Procs \ {p} : Busy(q) => job[q].item # i
    BY <1>b, <1>c DEF OthersStay
  <2>2. job[p].item # i
    BY <1>d
  <2> QED
    BY <1>r, <2>1, <2>2 DEF IInv, InOrder
<1> QED
  BY <1>1, <1>2, <1>3, <1>4, <1>5, <1>6, <1>7, <1>8, <1>9, <1>10, <1>11,
      <1>12, <1>13, <1>14
  DEF IInv

\* The container restarts.
LEMMA RestartStep ==
    ASSUME IInv,
           Restart
    PROVE  IInv'
<1> USE ChannelAssumption DEF Served, Items, Settings
<1>w. TypeOK /\ Flow
  BY DEF IInv
<1>d. /\ row' = row /\ conn' = conn /\ writer' = writer /\ old' = old
      /\ secret' = secret /\ env' = env /\ apart' = apart /\ trouble' = trouble
      /\ todo' = todo /\ job' = job /\ requests' = requests /\ mine' = mine
      /\ stale' = stale /\ alone' = alone
      /\ gateway' = [gateway EXCEPT !.secret = secret]
  BY DEF rowVars, procVars, Restart
<1>a. \A q \in Procs :
         /\ Busy(q)' <=> Busy(q)
         /\ \A x : (Before(q, x)' <=> Before(q, x)) /\ (At(q, x)' <=> At(q, x))
  BY <1>d, AllStay
<1>k. \A q \in Procs : (Connected(q)' <=> Connected(q)) /\ (Saved(q)' <=> Saved(q))
  BY <1>a, <1>d DEF Connected, Saved
<1>r. Committed' = Committed /\ Links' = Links
  BY <1>d DEF Committed, Links
<1>g. /\ gateway'.env = gateway.env /\ gateway'.secret = secret
      /\ gateway' \in [env : SUBSET Served, secret : [Kinds -> 0 .. MaxRequests]]
  BY <1>d, <1>w DEF Flow, TypeOK
<1>1. TypeOK'
  <2>1. \A q \in Procs : (Before(q, "commit") /\ ~At(q, "enter"))' <=> writer' = q
    BY <1>a, <1>d, <1>w DEF TypeOK
  <2> QED
    BY <1>d, <1>g, <1>w, <2>1 DEF TypeOK
<1>2. Flow'
  BY <1>a, <1>d, <1>g DEF IInv, Flow
<1>3. Asked'
  BY <1>a, <1>d DEF IInv, Asked, OthersStay
<1>4. Counted'
  <2>1. Pending' = Pending
    BY <1>a DEF Pending
  <2> QED
    BY <1>d, <2>1 DEF IInv, Counted
<1>5. Lonely'
  BY <1>a, <1>d DEF IInv, Lonely
<1>6. MineCurrent'
  BY <1>a, <1>d, <1>r DEF IInv, MineCurrent
<1>7. Overtaken'
  BY <1>a, <1>d DEF IInv, Overtaken, OthersStay
<1>8. EnvKept'
  BY <1>a, <1>d, <1>r DEF IInv, EnvKept
<1>9. GatewayLags'
  BY <1>a, <1>d, <1>g DEF IInv, GatewayLags
<1>10. SecretsLag'
  BY <1>d, <1>g DEF SecretsLag
<1>11. Aside'
  BY <1>a, <1>d DEF IInv, Aside, OthersStay
<1>12. Noticed'
  BY <1>a, <1>d, <1>k DEF IInv, Noticed
<1>13. Progress'
  BY <1>d, <1>k, <1>r DEF IInv, Progress
<1>14. InOrder'
  BY <1>a, <1>d, <1>r DEF IInv, InOrder
<1> QED
  BY <1>1, <1>2, <1>3, <1>4, <1>5, <1>6, <1>7, <1>8, <1>9, <1>10, <1>11,
      <1>12, <1>13, <1>14
  DEF IInv

\* A connection is tested.
LEMMA TestStep ==
    ASSUME IInv,
           Test
    PROVE  IInv'
<1> USE ChannelAssumption DEF Served, Items, Settings
<1>w. TypeOK /\ Flow
  BY DEF IInv
<1>d. /\ writer = NoProc
      /\ row' = row /\ writer' = writer /\ old' = old /\ secret' = secret
      /\ env' = env /\ gateway' = gateway /\ apart' = apart /\ trouble' = trouble
      /\ todo' = todo /\ job' = job /\ requests' = requests /\ mine' = mine
      /\ stale' = stale /\ alone' = alone
  BY DEF procVars, Test
<1>a. \A q \in Procs :
         /\ Busy(q)' <=> Busy(q)
         /\ \A x : (Before(q, x)' <=> Before(q, x)) /\ (At(q, x)' <=> At(q, x))
  BY <1>d, AllStay
<1>k. \A q \in Procs : (Connected(q)' <=> Connected(q)) /\ (Saved(q)' <=> Saved(q))
  BY <1>a, <1>d DEF Connected, Saved
<1>e. PICK i \in Served : conn' = [conn EXCEPT ![i] = "tested"]
  BY DEF Test
<1>c. /\ conn' \in [Served -> Status \cup {None}] /\ conn'[i] = "tested"
      /\ \A j \in Served \ {i} : conn'[j] = conn[j]
  BY <1>e, <1>w DEF TypeOK, Status
<1>r. Committed' = Committed /\ Links = conn /\ Links' = conn'
  BY <1>d DEF Committed, Links
<1>1. TypeOK'
  <2>1. \A q \in Procs : (Before(q, "commit") /\ ~At(q, "enter"))' <=> writer' = q
    BY <1>a, <1>d, <1>w DEF TypeOK
  <2> QED
    BY <1>c, <1>d, <1>w, <2>1 DEF TypeOK
<1>2. Flow'
  BY <1>a, <1>d DEF IInv, Flow
<1>3. Asked'
  BY <1>a, <1>d DEF IInv, Asked, OthersStay
<1>4. Counted'
  <2>1. Pending' = Pending
    BY <1>a DEF Pending
  <2> QED
    BY <1>d, <2>1 DEF IInv, Counted
<1>5. Lonely'
  BY <1>a, <1>d DEF IInv, Lonely
<1>6. MineCurrent'
  BY <1>a, <1>d, <1>r DEF IInv, MineCurrent
<1>7. Overtaken'
  BY <1>a, <1>d DEF IInv, Overtaken, OthersStay
<1>8. EnvKept'
  BY <1>a, <1>d, <1>r DEF IInv, EnvKept
<1>9. GatewayLags'
  BY <1>a, <1>d DEF IInv, GatewayLags, OthersStay
<1>10. SecretsLag'
  BY <1>a, <1>d DEF IInv, SecretsLag, OthersStay
<1>11. Aside'
  BY <1>d DEF Aside
<1>12. Noticed'
  BY <1>d DEF Noticed
<1>13. Progress'
  <2> SUFFICES ASSUME NEW q \in Procs, ~(job[q].item \in apart /\ ~alone[q]),
                      Connected(q) \/ Saved(q)
               PROVE  /\ Connected(q) => IF job[q].on THEN conn'[job[q].item] \in {"configured", "tested"}
                                         ELSE conn'[job[q].item] # "configured"
                      /\ Saved(q) => (job[q].item \in Committed <=> job[q].on)
    BY <1>d, <1>k, <1>r DEF Progress
  <2>1. Busy(q) /\ job[q].op \in Linking
    BY DEF Connected, Saved, Linking
  <2>2. job[q].item \in Served
    BY <2>1 DEF IInv, Asked
  <2>3. conn'[job[q].item] \in {conn[job[q].item], "tested"}
    BY <1>c, <2>2
  <2> QED
    BY <1>r, <2>3 DEF IInv, Progress
<1>14. InOrder'
  <2> SUFFICES ASSUME NEW j \in Served \ apart, ~\E q \in Procs : Busy(q) /\ job[q].item = j
               PROVE  IF j \in Committed THEN conn'[j] \in {"configured", "tested"}
                      ELSE conn'[j] # "configured"
    BY <1>a, <1>d, <1>r DEF InOrder
  <2>1. IF j \in Committed THEN conn[j] \in {"configured", "tested"} ELSE conn[j] # "configured"
    BY <1>r DEF IInv, InOrder
  <2>2. conn'[j] \in {conn[j], "tested"}
    BY <1>c
  <2> QED
    BY <2>1, <2>2
<1> QED
  BY <1>1, <1>2, <1>3, <1>4, <1>5, <1>6, <1>7, <1>8, <1>9, <1>10, <1>11,
      <1>12, <1>13, <1>14
  DEF IInv

\* Nothing happens.
LEMMA StutterStep ==
    ASSUME IInv,
           UNCHANGED vars
    PROVE  IInv'
<1> USE ChannelAssumption DEF Served, Items, Settings
<1>w. TypeOK /\ Flow
  BY DEF IInv
<1>d. /\ row' = row /\ conn' = conn /\ writer' = writer /\ old' = old
      /\ secret' = secret /\ env' = env /\ gateway' = gateway /\ apart' = apart
      /\ trouble' = trouble /\ todo' = todo /\ job' = job /\ requests' = requests
      /\ mine' = mine /\ stale' = stale /\ alone' = alone
  BY DEF vars, rowVars, procVars
<1>a. \A q \in Procs :
         /\ Busy(q)' <=> Busy(q)
         /\ \A x : (Before(q, x)' <=> Before(q, x)) /\ (At(q, x)' <=> At(q, x))
  BY <1>d, AllStay
<1>k. \A q \in Procs : (Connected(q)' <=> Connected(q)) /\ (Saved(q)' <=> Saved(q))
  BY <1>a, <1>d DEF Connected, Saved
<1>r. Committed' = Committed /\ Links' = Links
  BY <1>d DEF Committed, Links
<1>1. TypeOK'
  <2>1. \A q \in Procs : (Before(q, "commit") /\ ~At(q, "enter"))' <=> writer' = q
    BY <1>a, <1>d, <1>w DEF TypeOK
  <2> QED
    BY <1>d, <1>w, <2>1 DEF TypeOK
<1>2. Flow'
  BY <1>a, <1>d DEF IInv, Flow
<1>3. Asked'
  BY <1>a, <1>d DEF IInv, Asked, OthersStay
<1>4. Counted'
  <2>1. Pending' = Pending
    BY <1>a DEF Pending
  <2> QED
    BY <1>d, <2>1 DEF IInv, Counted
<1>5. Lonely'
  BY <1>a, <1>d DEF IInv, Lonely
<1>6. MineCurrent'
  BY <1>a, <1>d, <1>r DEF IInv, MineCurrent
<1>7. Overtaken'
  BY <1>a, <1>d DEF IInv, Overtaken, OthersStay
<1>8. EnvKept'
  BY <1>a, <1>d, <1>r DEF IInv, EnvKept
<1>9. GatewayLags'
  BY <1>a, <1>d DEF IInv, GatewayLags, OthersStay
<1>10. SecretsLag'
  BY <1>a, <1>d DEF IInv, SecretsLag, OthersStay
<1>11. Aside'
  BY <1>a, <1>d DEF IInv, Aside, OthersStay
<1>12. Noticed'
  BY <1>a, <1>d, <1>k DEF IInv, Noticed
<1>13. Progress'
  BY <1>d, <1>k, <1>r DEF IInv, Progress
<1>14. InOrder'
  BY <1>a, <1>d, <1>r DEF IInv, InOrder
<1> QED
  BY <1>1, <1>2, <1>3, <1>4, <1>5, <1>6, <1>7, <1>8, <1>9, <1>10, <1>11,
      <1>12, <1>13, <1>14
  DEF IInv

-----------------------------------------------------------------------------
(***************************************************************************)
(* Requests                                                                *)
(***************************************************************************)

\* What a request asks for is an operation with the steps it begins with.
Sound(steps, o, i, on, kinds, replace) ==
    /\ o \in Ops /\ steps \in Rest[o] /\ Head(steps) \in {"load", "enter"}
    /\ i \in Items \cup {None} /\ on \in BOOLEAN /\ kinds \subseteq Kinds /\ replace \in BOOLEAN
    /\ o \in Linking => i \in Served
    /\ o = "secret" => on
    /\ o = "unlink" => ~on
    /\ o = "skills" => i = Skills
    /\ o \in {"limits", "provision", "backfill"} => i = None
    /\ o = "limits" => ~on

Starts(p) ==
    \E steps, o, i, on, kinds, replace :
        Asks(p, steps, o, i, on, kinds, replace) /\ Sound(steps, o, i, on, kinds, replace)

\* The lists that operations begin with.
LEMMA Beginnings ==
    /\ \A s \in {Integrate, IntegrateAllowing} :
          s \in Rest["integrate"] /\ Head(s) \in {"load", "enter"}
    /\ Store \in Rest["secret"] /\ Head(Store) \in {"load", "enter"}
    /\ Unlink \in Rest["unlink"] /\ Head(Unlink) \in {"load", "enter"}
    /\ SaveSkills \in Rest["skills"] /\ Head(SaveSkills) \in {"load", "enter"}
    /\ \A new \in BOOLEAN : SaveLimits(new) \in Rest["limits"] /\ Head(SaveLimits(new)) \in {"load", "enter"}
    /\ Provision \in Rest["provision"] /\ Head(Provision) \in {"load", "enter"}
    /\ Backfill \in Rest["backfill"] /\ Head(Backfill) \in {"load", "enter"}
<1>1. /\ Integrate \in Rest["integrate"] /\ IntegrateAllowing \in Rest["integrate"]
      /\ Store \in Rest["secret"] /\ Unlink \in Rest["unlink"] /\ SaveSkills \in Rest["skills"]
      /\ Provision \in Rest["provision"] /\ Backfill \in Rest["backfill"]
      /\ <<"load", "save">> \in Rest["limits"]
      /\ <<"load", "save", "env", "up">> \in Rest["limits"]
  BY DEF Rest, Ops
<1>2. /\ Head(Integrate) = "load" /\ Head(IntegrateAllowing) = "load" /\ Head(Store) = "load"
      /\ Head(Unlink) = "load" /\ Head(SaveSkills) = "load" /\ Head(Backfill) = "load"
      /\ Head(Provision) = "enter"
  BY DEF Integrate, IntegrateAllowing, Store, Unlink, SaveSkills, Backfill, Provision
<1>3. /\ SaveLimits(TRUE) = <<"load", "save", "env", "up">>
      /\ SaveLimits(FALSE) = <<"load", "save">>
  <2> DEFINE s == <<"load", "save">> \o <<"env", "up">>
             t == <<"load", "save", "env", "up">>
  <2>1. /\ <<"load", "save">> \in Seq(Steps) /\ <<"env", "up">> \in Seq(Steps)
        /\ Len(<<"load", "save">>) = 2 /\ Len(<<"env", "up">>) = 2
    BY DEF Steps
  <2>2. s \in Seq(Steps) /\ Len(s) = 4
    BY <2>1
  <2>3. t \in Seq(Steps) /\ Len(t) = 4
    BY DEF Steps
  <2>4. \A i \in 1 .. 4 : s[i] = t[i]
    BY <2>1
  <2>5. s = t
    BY <2>2, <2>3, <2>4, SeqEqual
  <2>6. SaveLimits(TRUE) = s
    BY DEF SaveLimits
  <2>7. <<"load", "save">> \o <<>> = <<"load", "save">>
    BY <2>1
  <2> QED
    BY <2>5, <2>6, <2>7 DEF SaveLimits
<1>4. \A new \in BOOLEAN : SaveLimits(new) \in Rest["limits"] /\ Head(SaveLimits(new)) = "load"
  <2>1. \A new \in BOOLEAN : new = TRUE \/ new = FALSE
    OBVIOUS
  <2>2. Head(<<"load", "save", "env", "up">>) = "load" /\ Head(<<"load", "save">>) = "load"
    OBVIOUS
  <2> QED
    BY <1>1, <1>3, <2>1, <2>2
<1> QED
  BY <1>1, <1>2, <1>4

\* Every request asks for one of them, with its item and its secrets.
LEMMA RequestMeans ==
    ASSUME NEW p \in Procs, Request(p)
    PROVE  Starts(p)
<1> USE ChannelAssumption DEF Served, Items, Settings
<1>1. ASSUME NEW steps, NEW o, NEW i, NEW on, NEW kinds, NEW replace,
             Asks(p, steps, o, i, on, kinds, replace),
             Sound(steps, o, i, on, kinds, replace)
      PROVE  Starts(p)
  BY <1>1 DEF Starts
<1>2. ASSUME Switch(p)  PROVE Starts(p)
  <2>1. PICK i \in Served, on \in BOOLEAN :
            \/ Asks(p, Integrate, "integrate", i, on, {}, FALSE)
            \/ /\ i = Telegram /\ on
               /\ Asks(p, IntegrateAllowing, "integrate", i, on, {AllowFrom}, FALSE)
    BY <1>2 DEF Switch
  <2>2. /\ Sound(Integrate, "integrate", i, on, {}, FALSE)
        /\ Sound(IntegrateAllowing, "integrate", i, on, {AllowFrom}, FALSE)
    BY Beginnings DEF Sound, Ops
  <2> QED
    BY <1>1, <2>1, <2>2
<1>3. ASSUME NEW k \in Kinds, Asks(p, Store, "secret", Owner[k], TRUE, {k}, FALSE)
      PROVE  Starts(p)
  <2>1. Sound(Store, "secret", Owner[k], TRUE, {k}, FALSE)
    BY Beginnings DEF Sound, Ops
  <2> QED
    BY <1>1, <1>3, <2>1
<1>4. ASSUME Delete(p)  PROVE Starts(p)
  <2>1. PICK i \in Served : Asks(p, Unlink, "unlink", i, FALSE, {}, FALSE)
    BY <1>4 DEF Delete
  <2>2. Sound(Unlink, "unlink", i, FALSE, {}, FALSE)
    BY Beginnings DEF Sound, Ops
  <2> QED
    BY <1>1, <2>1, <2>2
<1>5. ASSUME Rebuild(p)  PROVE Starts(p)
  <2>1. Sound(Backfill, "backfill", None, FALSE, {}, FALSE)
    BY Beginnings DEF Sound, Ops, Linking
  <2> QED
    BY <1>1, <1>5, <2>1 DEF Rebuild
<1>6. ASSUME NEW on \in BOOLEAN, NEW ks \in SUBSET Kinds, NEW replace \in BOOLEAN,
             Asks(p, Provision, "provision", None, on, ks, replace)
      PROVE  Starts(p)
  <2>1. Sound(Provision, "provision", None, on, ks, replace)
    BY Beginnings DEF Sound, Ops, Linking
  <2> QED
    BY <1>1, <1>6, <2>1
<1>7. ASSUME NEW on \in BOOLEAN, Asks(p, SaveSkills, "skills", Skills, on, {}, FALSE)
      PROVE  Starts(p)
  <2>1. Sound(SaveSkills, "skills", Skills, on, {}, FALSE)
    BY Beginnings DEF Sound, Ops, Linking
  <2> QED
    BY <1>1, <1>7, <2>1
<1>8. ASSUME NEW new \in BOOLEAN, Asks(p, SaveLimits(new), "limits", None, FALSE, {}, FALSE)
      PROVE  Starts(p)
  <2>1. Sound(SaveLimits(new), "limits", None, FALSE, {}, FALSE)
    BY Beginnings DEF Sound, Ops, Linking
  <2> QED
    BY <1>1, <1>8, <2>1
<1>9. ASSUME NEW i \in Served, Asks(p, Integrate, "integrate", i, conn[i] # "disabled", {}, FALSE)
      PROVE  Starts(p)
  <2>1. Sound(Integrate, "integrate", i, conn[i] # "disabled", {}, FALSE)
    BY Beginnings DEF Sound, Ops
  <2> QED
    BY <1>1, <1>9, <2>1
<1>10. ASSUME PutSecret(p)  PROVE Starts(p)
  BY <1>3, <1>10 DEF PutSecret
<1>11. ASSUME NEW skillKeys \in BOOLEAN, NEW replace \in BOOLEAN, Provisions(p, skillKeys, replace)
       PROVE  Starts(p)
  BY <1>6, <1>11 DEF Provisions
<1>12. ASSUME Rotate(p)  PROVE Starts(p)
  BY <1>6, <1>12 DEF Rotate
<1>13. ASSUME RuntimePage(p)  PROVE Starts(p)
  BY <1>2, <1>7, <1>8, <1>10, <1>12, <1>13 DEF RuntimePage
<1>14. ASSUME SecretsPage(p)  PROVE Starts(p)
  BY <1>3, <1>5, <1>10, <1>14 DEF SecretsPage
<1>15. ASSUME IntegrationsApi(p)  PROVE Starts(p)
  BY <1>2, <1>4, <1>9, <1>15 DEF IntegrationsApi
<1>16. ASSUME RuntimesApi(p) \/ RuntimeApi(p) \/ Wizard(p)  PROVE Starts(p)
  BY <1>11, <1>16 DEF RuntimesApi, RuntimeApi, Wizard
<1> QED
  BY <1>2, <1>4, <1>5, <1>10, <1>13, <1>14, <1>15, <1>16
  DEF Request, IntegrationsPage, SecretsApi

\* A request arrives.
LEMMA RequestStep ==
    ASSUME NEW p \in Procs, IInv,
           Request(p)
    PROVE  IInv'
<1> USE ChannelAssumption DEF Served, Items, Settings
<1>w. ~Busy(p) /\ TypeOK /\ Flow
  BY DEF IInv, Request
<1>n. \A x : ~Before(p, x) /\ ~At(p, x)
  BY <1>w, Nothing
<1>g. PICK steps, o, i, on, kinds, replace :
          Asks(p, steps, o, i, on, kinds, replace) /\ Sound(steps, o, i, on, kinds, replace)
  BY RequestMeans DEF Starts
<1> DEFINE j == [op |-> o, item |-> i, on |-> on, kinds |-> kinds, replace |-> replace]
<1>h. /\ todo' = [todo EXCEPT ![p] = steps] /\ job' = [job EXCEPT ![p] = j]
      /\ steps \in Rest[o] /\ Head(steps) \in {"load", "enter"}
  BY <1>g DEF Asks, Sound
<1>e. /\ j \in Job /\ j.op = o /\ j.item = i /\ j.on = on
      /\ o \in Ops
      /\ o \in Linking => i \in Served
      /\ o = "secret" => on
      /\ o = "unlink" => ~on
      /\ o = "skills" => i = Skills
      /\ o \in {"limits", "provision", "backfill"} => i = None
      /\ o = "limits" => ~on
  BY <1>g DEF Sound, Job
<1> HIDE DEF j
<1>f. Fits(o, steps)
  BY <1>h, <1>e, StepsFit
<1>b. /\ todo' \in [Procs -> Seq(Steps)] /\ OthersStay(p)
      /\ Busy(p)' /\ todo'[p] = steps
      /\ \A x : Before(p, x)' <=> Contains(steps, x)
      /\ \A x : At(p, x)' <=> x = Head(steps)
  <2>1. todo \in [Procs -> Seq(Steps)] /\ steps \in Seq(Steps) /\ steps # <<>>
    BY <1>w, <1>f DEF Flow, Fits
  <2>2. /\ todo' \in [Procs -> Seq(Steps)] /\ todo'[p] = steps
        /\ \A q \in Procs \ {p} : todo'[q] = todo[q]
    BY <1>h, <2>1
  <2>3. OthersStay(p)
    BY <2>2, Zenon DEF OthersStay, Before, At, Busy
  <2>4. Busy(p)' /\ \A x : At(p, x)' <=> x = Head(steps)
    BY <2>1, <2>2 DEF At, Busy
  <2>5. \A x : Before(p, x)' <=> Contains(steps, x)
    BY <2>2 DEF Before
  <2> QED
    BY <2>2, <2>3, <2>4, <2>5
<1>c. /\ job' \in [Procs -> Job] /\ job'[p] = j
      /\ \A q \in Procs \ {p} : job'[q] = job[q]
  BY <1>h, <1>e, <1>w DEF TypeOK
<1>d. /\ row' = row /\ conn' = conn /\ writer' = writer /\ old' = old /\ secret' = secret
      /\ env' = env /\ gateway' = gateway /\ mine' = mine /\ apart' = apart /\ trouble' = trouble
      /\ requests < MaxRequests /\ requests' = requests + 1
      /\ stale' = [stale EXCEPT ![p] = FALSE]
      /\ alone' = [q \in Procs |-> IF q = p THEN \A r \in Procs \ {p} : ~Busy(r) ELSE FALSE]
  BY DEF Request, rowVars
<1>a. /\ o = "provision" => At(p, "enter")'
      /\ Before(p, "commit")' => At(p, "enter")'
      /\ At(p, "load")' \/ At(p, "enter")'
      /\ Before(p, "env")' => At(p, "enter")' \/ Before(p, "save")'
      /\ Before(p, "up")' => Before(p, "env")'
      /\ writer # p
      /\ At(p, "enter")' => o = "provision" /\ Before(p, "env")'
      /\ At(p, "load")' => /\ o # "backfill" => Before(p, "save")'
                           /\ o \in {"integrate", "secret"} => Before(p, "connect")'
      /\ Before(p, "up")' => o # "backfill"
  <2>1. Fits(o, steps) /\ Head(steps) \in {"load", "enter"}
    BY <1>h, <1>f
  <2>2. writer # p
    BY <1>n, <1>w DEF TypeOK
  <2> QED
    BY <1>b, <2>1, <2>2 DEF Fits
<1>r. Committed' = Committed /\ Links' = Links
  BY <1>d DEF Committed, Links
<1>t. \A q \in Procs : writer = q <=> Before(q, "commit") /\ ~At(q, "enter")
  BY <1>w DEF TypeOK
<1>k. \A q \in Procs : /\ Connected(q)' => q # p /\ Connected(q)
                       /\ Saved(q)' => q # p /\ Saved(q)
  <2>1. ~Connected(p)' /\ ~Saved(p)'
    BY <1>a, <1>c, <1>e DEF Connected, Saved, Linking
  <2> QED
    BY <1>b, <1>c, <2>1 DEF Connected, Saved, OthersStay
<1>l. \A q \in Procs \ {p} : (Busy(q)' <=> Busy(q)) /\ job'[q] = job[q]
  BY <1>b, <1>c DEF OthersStay
<1>m. /\ \A q \in Procs : alone'[q] => q = p /\ \A r \in Procs \ {p} : ~Busy(r)
      /\ alone' \in [Procs -> BOOLEAN] /\ stale' \in [Procs -> BOOLEAN]
      /\ \A q \in Procs \ {p} : stale'[q] = stale[q]
  <2>1. \A r \in Procs : Busy(r) \in BOOLEAN
    BY DEF Busy
  <2> QED
    BY <1>d, <1>w, <2>1 DEF TypeOK
<1>1. TypeOK'
  <2>1. \A q \in Procs : ToSet(todo'[q]) \subseteq Steps
    BY <1>b, OnlySteps
  <2>2. \A q \in Procs : (Before(q, "commit") /\ ~At(q, "enter"))' <=> writer' = q
    BY <1>a, <1>b, <1>d, <1>t DEF OthersStay
  <2>3. requests' \in 0 .. MaxRequests
    BY <1>d, <1>w DEF TypeOK
  <2> QED
    BY <1>c, <1>d, <1>m, <1>w, <2>1, <2>2, <2>3 DEF TypeOK
<1>2. Flow'
  <2>1. \A q \in Procs : Busy(q)' => todo'[q] \in Rest[job'[q].op]
    BY <1>h, <1>b, <1>c, <1>e DEF IInv, Flow, OthersStay
  <2> QED
    BY <1>b, <1>d, <2>1 DEF IInv, Flow
<1>3. Asked'
  <2> SUFFICES ASSUME NEW q \in Procs, Busy(q)'
               PROVE  /\ job'[q].op \in Linking => job'[q].item \in Served
                      /\ job'[q].op = "secret" => job'[q].on
                      /\ job'[q].op = "unlink" => ~job'[q].on
                      /\ job'[q].op = "skills" => job'[q].item = Skills
                      /\ job'[q].op \in {"limits", "provision", "backfill"} => job'[q].item = None
                      /\ job'[q].op = "limits" => ~job'[q].on
    BY DEF Asked
  <2>1. CASE q = p
    BY <1>c, <1>e, <2>1
  <2>2. CASE q # p
    BY <1>l, <2>2 DEF IInv, Asked
  <2> QED
    BY <2>1, <2>2
<1>4. Counted'
  <2>1. Pending' \subseteq Pending \cup {p}
    BY <1>b DEF Pending, OthersStay
  <2>2. IsFiniteSet(Pending) /\ Cardinality(Pending) \in Nat
    BY FS_CardinalityType DEF IInv, Counted
  <2>3. /\ IsFiniteSet(Pending \cup {p})
        /\ Cardinality(Pending \cup {p}) <= Cardinality(Pending) + 1
        /\ Cardinality(Pending \cup {p}) \in Nat
    BY <2>2, FS_AddElement, FS_CardinalityType
  <2>4. IsFiniteSet(Pending') /\ Cardinality(Pending') <= Cardinality(Pending \cup {p})
    BY <2>1, <2>3, FS_Subset
  <2>5. Cardinality(Pending') \in Nat /\ requests \in Nat
    BY <1>w, <2>4, FS_CardinalityType DEF TypeOK
  <2>6. \A k \in Kinds : secret[k] \in Nat /\ secret[k] + Cardinality(Pending) <= requests
    BY <1>w DEF IInv, Counted, TypeOK
  <2>7. \A k \in Kinds : secret[k] + Cardinality(Pending') <= requests + 1
    BY <2>2, <2>3, <2>4, <2>5, <2>6
  <2> QED
    BY <1>d, <2>4, <2>7 DEF Counted
<1>5. Lonely'
  <2> SUFFICES ASSUME NEW q \in Procs, NEW r \in Procs, Busy(q)', Busy(r)', alone'[q]
               PROVE  q = r
    BY DEF Lonely
  <2> QED
    BY <1>l, <1>m
<1>6. MineCurrent'
  <2> SUFFICES ASSUME NEW q \in Procs
               PROVE  /\ writer = q => mine[q] = row
                      /\ Busy(q)' /\ ~At(q, "load")' /\ ~At(q, "enter")' /\ ~stale'[q] /\ writer # q
                         => mine[q] = Committed
    BY <1>d, <1>r DEF MineCurrent
  <2>1. CASE q = p
    BY <1>a, <2>1
  <2>2. CASE q # p
    BY <1>b, <1>m, <2>2 DEF IInv, MineCurrent, OthersStay
  <2> QED
    BY <2>1, <2>2
<1>7. Overtaken'
  <2>1. \A q \in Procs \ {p} : ~At(q, "enter")' /\ Before(q, "env")' /\ ~Before(q, "save")'
            => ~At(q, "enter") /\ Before(q, "env") /\ ~Before(q, "save")
    BY <1>b DEF OthersStay
  <2> QED
    BY <1>a, <1>d, <1>m, <2>1 DEF IInv, Overtaken
<1>8. EnvKept'
  BY <1>n, <1>b, <1>d, <1>r, <1>a DEF IInv, EnvKept, OthersStay
<1>9. GatewayLags'
  BY <1>n, <1>b, <1>d DEF IInv, GatewayLags, OthersStay
<1>10. SecretsLag'
  BY <1>n, <1>b, <1>d DEF IInv, SecretsLag, OthersStay
<1>11. Aside'
  <2>1. \A q \in Procs \ {p} : Before(q, "relink")' <=> Before(q, "relink")
    BY <1>b DEF OthersStay
  <2> QED
    BY <1>a, <1>d, <2>1 DEF IInv, Aside
<1>12. Noticed'
  <2>1. \A q \in Procs \ {p} : Before(q, "relink")' <=> Before(q, "relink")
    BY <1>b DEF OthersStay
  <2> QED
    BY <1>a, <1>d, <1>k, <1>l, <2>1 DEF IInv, Noticed
<1>13. Progress'
  <2> SUFFICES ASSUME NEW q \in Procs, Connected(q)' \/ Saved(q)',
                      ~(job'[q].item \in apart' /\ ~alone'[q])
               PROVE  /\ Connected(q)' => IF job'[q].on THEN Links'[job'[q].item] \in {"configured", "tested"}
                                          ELSE Links'[job'[q].item] # "configured"
                      /\ Saved(q)' => (job'[q].item \in Committed' <=> job'[q].on)
    BY DEF Progress
  <2>1. q # p /\ job'[q] = job[q] /\ (Connected(q)' => Connected(q)) /\ (Saved(q)' => Saved(q))
    BY <1>k, <1>l
  <2>2. job[q].item \notin apart
    BY <1>d, <1>m, <2>1
  <2> QED
    BY <1>r, <2>1, <2>2 DEF IInv, Progress
<1>14. InOrder'
  <2>1. \A q \in Procs : Busy(q) => Busy(q)' /\ job'[q] = job[q]
    BY <1>l, <1>w
  <2> QED
    BY <1>d, <1>r, <2>1 DEF IInv, InOrder
<1> QED
  BY <1>1, <1>2, <1>3, <1>4, <1>5, <1>6, <1>7, <1>8, <1>9, <1>10, <1>11,
      <1>12, <1>13, <1>14
  DEF IInv

-----------------------------------------------------------------------------
(***************************************************************************)
(* The theorems                                                            *)
(***************************************************************************)

\* The invariant holds of a runtime that nobody is at.
LEMMA InitIInv == Init => IInv
<1> SUFFICES ASSUME Init PROVE IInv
  OBVIOUS
<1> USE ChannelAssumption DEF Served, Items, Settings
<1>1. /\ \A p \in Procs : ~Busy(p) /\ \A x : ~Before(p, x) /\ ~At(p, x)
      /\ todo \in [Procs -> Seq(Steps)] /\ \A p \in Procs : todo[p] = <<>>
  <2>1. \A p \in Procs : todo[p] = <<>> /\ ~Busy(p)
    BY DEF Init, Busy
  <2>2. \A p \in Procs : \A x : ~Before(p, x) /\ ~At(p, x)
    BY <2>1, Nothing
  <2> QED
    BY <2>1, <2>2 DEF Init
<1>2. /\ row \subseteq Items /\ conn \in [Served -> Status \cup {None}]
      /\ \A i \in Served : conn[i] = IF i \in row THEN "configured" ELSE None
  BY DEF Init, Status
<1>3. /\ writer = NoProc /\ old = [row |-> row, conn |-> conn]
      /\ env = row \cap Served /\ gateway = [env |-> env, secret |-> secret]
      /\ secret = [k \in Kinds |-> 0] /\ secret \in [Kinds -> 0 .. MaxRequests]
      /\ requests = 0 /\ apart = {} /\ trouble = {}
      /\ Committed = row /\ Links = conn
  BY DEF Init, Committed, Links
<1>4. TypeOK
  <2>1. NoJob \in Job
    BY DEF NoJob, Job, Ops
  <2>2. \A p \in Procs : ToSet(todo[p]) \subseteq Steps
    BY <1>1, OnlySteps
  <2>3. /\ job \in [Procs -> Job] /\ mine \in [Procs -> SUBSET Items]
        /\ stale \in [Procs -> BOOLEAN] /\ alone \in [Procs -> BOOLEAN]
    BY <2>1 DEF Init
  <2> QED
    BY <1>1, <1>2, <1>3, <2>2, <2>3 DEF TypeOK
<1>5. Flow
  BY <1>1, <1>2, <1>3 DEF Flow
<1>6. Asked /\ Lonely /\ MineCurrent /\ Overtaken
  BY <1>1, <1>3 DEF Asked, Lonely, MineCurrent, Overtaken
<1>7. Counted
  <2>1. Pending = {}
    BY <1>1 DEF Pending
  <2> QED
    BY <1>3, <2>1, FS_EmptySet DEF Counted
<1>8. EnvKept /\ GatewayLags /\ SecretsLag
  BY <1>3 DEF EnvKept, GatewayLags, SecretsLag
<1>9. Aside /\ Noticed
  BY <1>3 DEF Aside, Noticed
<1>10. Progress
  BY <1>1 DEF Progress, Connected, Saved
<1>11. InOrder
  BY <1>2, <1>3 DEF InOrder, Status
<1> QED
  BY <1>4, <1>5, <1>6, <1>7, <1>8, <1>9, <1>10, <1>11 DEF IInv

\* Every step keeps the invariant.
LEMMA NextIInv == IInv /\ [Next]_vars => IInv'
<1> SUFFICES ASSUME IInv, [Next]_vars PROVE IInv'
  OBVIOUS
<1>1. ASSUME NEW p \in Procs, Request(p)
      PROVE  IInv'
  BY <1>1, RequestStep
<1>2. ASSUME NEW p \in Procs, UNCHANGED requests,
             \/ Load(p) \/ Connect(p) \/ Save(p) \/ StoreSecret(p) \/ WriteEnv(p)
             \/ Up(p) \/ Disconnect(p) \/ Enter(p) \/ Relink(p) \/ Commit(p) \/ Fail(p)
      PROVE  IInv'
  BY <1>2, LoadStep, ConnectStep, SaveStep, StoreSecretStep, WriteEnvStep, UpStep,
     DisconnectStep, EnterStep, RelinkStep, CommitStep, FailStep
<1>3. CASE Test
  BY <1>3, TestStep
<1>4. CASE Restart
  BY <1>4, RestartStep
<1>5. CASE UNCHANGED vars
  BY <1>5, StutterStep
<1> QED
  BY <1>1, <1>2, <1>3, <1>4, <1>5 DEF Next

\* The invariant holds in every reachable state.
THEOREM Invariance == Spec => []IInv
BY InitIInv, NextIInv, PTL DEF Spec

\* The gateway serves what the committed row says, unless an operation is on
\* its way there, one has broken off in between, or one wrote what it had read
\* before another changed the row.
THEOREM GatewaysFollow == Spec => []GatewayFollowsRow
<1>1. IInv => GatewayFollowsRow
  <2> SUFFICES ASSUME IInv, "env" \notin trouble,
                      \A p \in Procs : ~Before(p, "up") /\ writer # p
               PROVE  gateway.env = Committed \cap Served
    BY DEF GatewayFollowsRow
  <2>1. gateway.env = env
    BY DEF IInv, GatewayLags
  <2>2. \A p \in Procs : Before(p, "env") => Before(p, "up")
    BY Stands, Nothing DEF IInv
  <2> QED
    BY <2>1, <2>2 DEF IInv, EnvKept
<1> QED
  BY <1>1, Invariance, PTL

\* The gateway runs with the newest of every secret, under the same exceptions.
THEOREM SecretsReach == Spec => []SecretsReachGateway
<1>1. IInv => SecretsReachGateway
  BY DEF IInv, SecretsLag, SecretsReachGateway
<1> QED
  BY <1>1, Invariance, PTL

\* What is on has a connection that is not disabled, what is off has none that
\* is configured, unless an operation on it is under way or it is set apart.
THEOREM ConnectionsFollow == Spec => []ConnectionFollowsRow
<1>1. IInv => ConnectionFollowsRow
  <2> SUFFICES ASSUME IInv, NEW i \in Served \ apart,
                      \A p \in Procs : Busy(p) => job[p].item # i /\ job[p].op # "provision"
               PROVE  IF i \in row THEN conn[i] \in {"configured", "tested"}
                      ELSE conn[i] # "configured"
    BY DEF IInv, ConnectionFollowsRow
  <2>1. writer = NoProc
    <3>1. \A p \in Procs : ~Before(p, "commit")
      BY Stands, Nothing DEF IInv
    <3> QED
      BY <3>1 DEF IInv, TypeOK
  <2>2. Committed = row /\ Links = conn
    BY <2>1 DEF Committed, Links
  <2> QED
    BY <2>2 DEF IInv, InOrder
<1> QED
  BY <1>1, Invariance, PTL

\* Steps that change the row are of three kinds.
LEMMA RowWriters ==
    ASSUME Next, row' # row
    PROVE  \E q \in Procs : Save(q) \/ Enter(q) \/ Fail(q)
<1>1. ASSUME NEW p \in Procs, Request(p)
      PROVE  row' = row
  BY <1>1 DEF Request, rowVars
<1>2. ASSUME NEW p \in Procs, UNCHANGED requests,
             \/ Load(p) \/ Connect(p) \/ StoreSecret(p) \/ WriteEnv(p)
             \/ Up(p) \/ Disconnect(p) \/ Relink(p) \/ Commit(p)
      PROVE  row' = row
  BY <1>2 DEF Load, Connect, StoreSecret, WriteEnv, Up, Disconnect, Relink, Commit, rowVars
<1>3. ASSUME Test \/ Restart
      PROVE  row' = row
  BY <1>3 DEF Test, Restart, rowVars
<1> QED
  BY <1>1, <1>2, <1>3 DEF Next

\* A list is longer than its rest.
LEMMA TailDiffers ==
    ASSUME NEW s \in Seq(Steps), s # <<>>
    PROVE  Tail(s) # s
<1>1. Len(s) \in Nat \ {0} /\ Len(Tail(s)) = Len(s) - 1
  OBVIOUS
<1>2. Tail(s) = s => Len(s) = Len(s) - 1
  BY <1>1, Zenon
<1>3. \A n \in Nat : n # n - 1
  OBVIOUS
<1>4. Len(s) \in Nat
  OBVIOUS
<1> QED
  BY <1>2, <1>3, <1>4, Zenon

\* What a deletion of a channel, or a change of the skills, leaves alone.
Keeps(p) ==
    At(p, "save") /\ todo'[p] = Tail(todo[p]) =>
        CASE job[p].op = "skills" -> row' \cap Channels = row \cap Channels
          [] job[p].op = "unlink" /\ job[p].item \in Channels ->
                row' \cap Settings = row \cap Settings
          [] OTHER -> TRUE

\* Every step leaves it alone.
LEMMA StepKeeps ==
    ASSUME IInv, Next, NEW p \in Procs
    PROVE  Keeps(p)
<1> USE ChannelAssumption DEF Served, Items, Settings
<1> SUFFICES ASSUME At(p, "save"), todo'[p] = Tail(todo[p]), row' # row,
                    job[p].op \in {"skills", "unlink"}
             PROVE  CASE job[p].op = "skills" -> row' \cap Channels = row \cap Channels
                      [] job[p].op = "unlink" /\ job[p].item \in Channels ->
                            row' \cap Settings = row \cap Settings
                      [] OTHER -> TRUE
  BY DEF Keeps
<1>1. PICK q \in Procs : Save(q) \/ Enter(q) \/ Fail(q)
  BY RowWriters
<1>2. Busy(p) /\ TypeOK /\ Flow
  BY DEF IInv, At
<1>3. todo \in [Procs -> Seq(Steps)] /\ todo[p] \in Seq(Steps) /\ todo[p] # <<>>
  BY <1>2 DEF Flow, Busy
<1>4. q = p
  <2> SUFFICES ASSUME q # p
               PROVE  FALSE
    OBVIOUS
  <2>1. todo'[p] = todo[p]
    BY <1>1, <1>3 DEF Save, Enter, Fail
  <2> QED
    BY <1>3, <2>1, TailDiffers
<1>5. ~At(p, "enter") /\ writer # p
  BY <1>2, Stands DEF TypeOK
<1>6. Save(p)
  BY <1>1, <1>4, <1>5 DEF Enter, Fail
<1>7. \E wish : row' = (row \ Columns(p)) \cup (wish \cap Columns(p))
  BY <1>6 DEF Save
<1>8. /\ job[p].op = "skills" => Columns(p) \cap Channels = {}
      /\ job[p].op = "unlink" /\ job[p].item \in Channels => Columns(p) \cap Settings = {}
  BY DEF Columns
<1> QED
  BY <1>7, <1>8

\* An operation on a channel's deletion or on the skills reverts nothing in the
\* other column, whatever was saved there since it read the row.
THEOREM ColumnsKept == Spec => OtherColumnKept
<1>1. IInv /\ [Next]_vars => [\A p \in Procs : Keeps(p)]_vars
  BY StepKeeps
<1>2. Spec => [][\A p \in Procs : Keeps(p)]_vars
  BY <1>1, Invariance, PTL DEF Spec
<1> QED
  BY <1>2 DEF OtherColumnKept, Keeps

-----------------------------------------------------------------------------
(***************************************************************************)
(* Undisturbed operation                                                   *)
(*                                                                         *)
(* The properties name what may have set the env file, the container and   *)
(* the connections apart from the row.  Without such an accident they all  *)
(* agree whenever no operation is under way.                               *)
(***************************************************************************)

\* p switches nothing, and will not recreate the container.
Harmless(p) == writer # p /\ ~Before(p, "up") /\ job[p].item \notin Served

\* A connection that is made is one of an item that is on: no search form is
\* sent without a provider.
ConnectWhole(p) == Connect(p) /\ (conn'[job[p].item] = "configured" => job[p].on)

\* No wizard leaves out a channel or a search that is on.
EnterKeeping(p) == Enter(p) /\ row \cap Served \subseteq row'

\* One operation at a time, of which only the harmless break off.
CalmNext ==
    \/ \E p \in Procs :
          \/ Request(p) /\ \A q \in Procs : ~Busy(q)
          \/ /\ \/ Load(p) \/ ConnectWhole(p) \/ Save(p) \/ StoreSecret(p) \/ WriteEnv(p)
                \/ Up(p) \/ Disconnect(p) \/ EnterKeeping(p) \/ Relink(p) \/ Commit(p)
                \/ Harmless(p) /\ Fail(p)
             /\ UNCHANGED requests
    \/ Test \/ Restart

Undisturbed == Init /\ [][CalmNext]_vars

\* When no operation is under way, the env file and the gateway say what the row
\* says, the gateway has the newest secrets, and what is on is connected.
AtRest ==
    (\A p \in Procs : ~Busy(p)) =>
        /\ env = row \cap Served
        /\ gateway = [env |-> env, secret |-> secret]
        /\ \A i \in Served : IF i \in row THEN conn[i] \in {"configured", "tested"}
                             ELSE conn[i] # "configured"

\* No operation has had another beside it, and nothing has gone wrong.
Calm ==
    /\ \A p \in Procs : Busy(p) => alone[p] /\ ~stale[p]
    /\ apart = {} /\ trouble = {}

\* Every step of undisturbed operation is one of the specification.
LEMMA CalmIsNext == CalmNext => Next
BY DEF CalmNext, ConnectWhole, EnterKeeping, Next

\* Nobody is beside an operation, and it is up to date.
LEMMA NobodyBeside ==
    ASSUME IInv, Calm, NEW p \in Procs, Busy(p)
    PROVE  /\ \A q \in Procs \ {p} : ~Busy(q)
           /\ Clash(p) = {} /\ alone[p] /\ ~stale[p]
<1>1. \A q \in Procs \ {p} : ~Busy(q)
  BY DEF IInv, Lonely, Calm
<1> QED
  BY <1>1 DEF Calm, Clash

\* It stays so while p is the only one whose list changes and is not outdated.
LEMMA StaysCalm ==
    ASSUME IInv, Calm, NEW p \in Procs, Busy(p),
           NEW rest, todo' = [todo EXCEPT ![p] = rest],
           alone' = alone, stale' = stale \/ Changed(p) \/ stale' = [stale EXCEPT ![p] = FALSE],
           apart' = {}, trouble' = {}
    PROVE  Calm'
<1>1. \A q \in Procs \ {p} : ~Busy(q)
  BY NobodyBeside
<1>2. \A q \in Procs \ {p} : ~Busy(q)'
  BY <1>1 DEF Busy, IInv, Flow
<1>3. alone[p] /\ ~stale[p]
  BY NobodyBeside
<1>4. ~stale'[p] /\ alone'[p]
  BY <1>3 DEF Changed, IInv, TypeOK
<1> QED
  BY <1>2, <1>4 DEF Calm

\* What an undisturbed operation saves differs from the row in its item only.
LEMMA SavesItem ==
    ASSUME IInv, Calm, NEW p \in Procs, Save(p)
    PROVE  apart' = {} /\ trouble' = {}
<1>1. At(p, "save") /\ Busy(p) /\ writer = NoProc /\ writer # p
  BY ChannelAssumption DEF Save, At
<1>2. ~At(p, "load") /\ ~At(p, "enter")
  BY <1>1 DEF At
<1>3. mine[p] = row /\ Clash(p) = {}
  BY <1>1, <1>2, NobodyBeside DEF IInv, MineCurrent, Committed
<1> DEFINE wish == IF job[p].on THEN mine[p] \cup {job[p].item} ELSE mine[p] \ {job[p].item}
           new == (row \ Columns(p)) \cup (wish \cap Columns(p))
           lost == {i \in Served \ {job[p].item} : (i \in row) # (i \in new)}
<1>4. ASSUME NEW i \in Served \ {job[p].item} PROVE i \in new <=> i \in row
  <2>1. i \in wish <=> i \in row
    BY <1>3, <1>4
  <2> QED
    BY <2>1
<1>5. lost = {}
  BY <1>4
<1>6. apart' = apart \cup lost \cup ({job[p].item} \cap Clash(p) \cap Served)
      /\ trouble' = IF lost # {} /\ ~Before(p, "env") THEN trouble \cup {"env"} ELSE trouble
  BY DEF Save
<1> HIDE DEF lost
<1> QED
  BY <1>3, <1>5, <1>6 DEF Calm

\* Every step of undisturbed operation keeps it so.
LEMMA CalmStep == IInv /\ Calm /\ [CalmNext]_vars => Calm'
<1> SUFFICES ASSUME IInv, Calm, [CalmNext]_vars PROVE Calm'
  OBVIOUS
<1>0. apart = {} /\ trouble = {}
  BY DEF Calm
<1>1. ASSUME NEW p \in Procs, Request(p), \A q \in Procs : ~Busy(q) PROVE Calm'
  <2>1. /\ stale' = [stale EXCEPT ![p] = FALSE] /\ apart' = apart /\ trouble' = trouble
        /\ alone' = [q \in Procs |->
                       IF q = p THEN \A o \in Procs \ {p} : ~Busy(o) ELSE FALSE]
    BY <1>1 DEF Request
  <2>2. \A q \in Procs \ {p} : ~Busy(q)'
    <3>1. \E steps : todo' = [todo EXCEPT ![p] = steps]
      BY <1>1 DEF Request, RuntimePage, IntegrationsPage, SecretsPage, IntegrationsApi,
          SecretsApi, RuntimesApi, RuntimeApi, Wizard, Switch, PutSecret, Rotate, Delete,
          Rebuild, Provisions, Asks
    <3> QED
      BY <1>1, <3>1 DEF Busy, IInv, Flow
  <2>3. alone'[p] /\ ~stale'[p]
    BY <1>1, <2>1 DEF IInv, TypeOK
  <2> QED
    BY <1>0, <2>1, <2>2, <2>3 DEF Calm
<1>2. ASSUME NEW p \in Procs, Load(p) PROVE Calm'
  BY <1>0, <1>2, StaysCalm DEF Load, At
<1>3. ASSUME NEW p \in Procs, ConnectWhole(p) PROVE Calm'
  <2>1. PICK blank \in BOOLEAN :
           /\ At(p, "connect")
           /\ blank => ~job[p].on
           /\ conn' = [conn EXCEPT ![job[p].item] =
                          IF job[p].on \/ blank THEN "configured" ELSE "disabled"]
           /\ apart' = apart \cup (IF blank THEN {job[p].item} ELSE {job[p].item} \cap Clash(p))
           /\ alone' = IF blank THEN [alone EXCEPT ![p] = FALSE] ELSE alone
           /\ Done(p) /\ stale' = stale /\ trouble' = trouble
    BY <1>3, Zenon DEF ConnectWhole, Connect
  <2>2. Busy(p)
    BY <2>1 DEF At
  <2>3. job[p].item \in Served
    BY <2>1, <2>2, Where DEF Fits, At, IInv, Asked
  <2>4. ~blank
    BY <1>3, <2>1, <2>3 DEF ConnectWhole, IInv, TypeOK
  <2>5. apart' = {} /\ alone' = alone
    BY <1>0, <2>1, <2>2, <2>4, NobodyBeside
  <2> QED
    BY <1>0, <2>1, <2>2, <2>5, StaysCalm DEF Done
<1>4. ASSUME NEW p \in Procs, Save(p) PROVE Calm'
  BY <1>4, SavesItem, StaysCalm DEF Save, At
<1>5. ASSUME NEW p \in Procs, StoreSecret(p) PROVE Calm'
  BY <1>0, <1>5, StaysCalm DEF StoreSecret, Done, At
<1>6. ASSUME NEW p \in Procs, WriteEnv(p) PROVE Calm'
  BY <1>0, <1>6, NobodyBeside, StaysCalm DEF WriteEnv, Done, At
<1>7. ASSUME NEW p \in Procs, Up(p) PROVE Calm'
  BY <1>0, <1>7, StaysCalm DEF Up, Done, At
<1>8. ASSUME NEW p \in Procs, Disconnect(p) PROVE Calm'
  BY <1>0, <1>8, NobodyBeside, StaysCalm DEF Disconnect, Done, At
<1>9. ASSUME NEW p \in Procs, EnterKeeping(p) PROVE Calm'
  <2>1. PICK new \in Resolved(p) : /\ At(p, "enter") /\ row' = new
                                   /\ todo' = [todo EXCEPT ![p] = Tail(todo[p])]
                                   /\ Changed(p) /\ alone' = alone /\ trouble' = trouble
                                   /\ apart' = apart \cup ((row \ new) \cap Served)
    BY <1>9 DEF EnterKeeping, Enter
  <2>2. apart' = {}
    BY <1>0, <1>9, <2>1 DEF EnterKeeping
  <2> QED
    BY <1>0, <2>1, <2>2, StaysCalm DEF At
<1>10. ASSUME NEW p \in Procs, Relink(p) PROVE Calm'
  BY <1>0, <1>10, NobodyBeside, StaysCalm DEF Relink, Done, At
<1>11. ASSUME NEW p \in Procs, Commit(p) PROVE Calm'
  BY <1>0, <1>11, StaysCalm DEF Commit, Done, At
<1>12. ASSUME NEW p \in Procs, Harmless(p), Fail(p) PROVE Calm'
  <2>1. apart' = {} /\ trouble' = {}
    BY <1>0, <1>12 DEF Harmless, Fail
  <2> QED
    BY <1>12, <2>1, StaysCalm DEF Fail
<1>13. CASE Test
  BY <1>13 DEF Test, Calm, procVars, Busy
<1>14. CASE Restart
  BY <1>14 DEF Restart, Calm, procVars, Busy
<1>15. CASE UNCHANGED vars
  BY <1>15 DEF vars, Calm, procVars, Busy
<1> QED
  BY <1>1, <1>2, <1>3, <1>4, <1>5, <1>6, <1>7, <1>8, <1>9, <1>10, <1>11, <1>12, <1>13,
     <1>14, <1>15 DEF CalmNext

\* While there is one operation at a time, none breaks off on its way, no wizard
\* drops what is on and no search is sent without a provider, the row, the env
\* file, the gateway, its secrets and the connections agree whenever no operation
\* is under way: the exceptions of GatewayFollowsRow, SecretsReachGateway and
\* ConnectionFollowsRow all have an accident for a cause.
THEOREM UndisturbedAgrees == Undisturbed => []AtRest
<1>1. Init => Calm
  BY DEF Init, Calm, Busy
<1>2. IInv /\ Calm => AtRest
  <2> SUFFICES ASSUME IInv, Calm, \A p \in Procs : ~Busy(p)
               PROVE  /\ env = row \cap Served
                      /\ gateway = [env |-> env, secret |-> secret]
                      /\ \A i \in Served : IF i \in row THEN conn[i] \in {"configured", "tested"}
                                           ELSE conn[i] # "configured"
    BY DEF AtRest
  <2>1. /\ \A p \in Procs, x \in Steps : ~Before(p, x)
        /\ \A p \in Procs : ~Before(p, "up") /\ ~Before(p, "env") /\ ~Before(p, "commit")
    BY Nothing
  <2>2. writer = NoProc
    BY <2>1 DEF IInv, TypeOK
  <2>3. Committed = row /\ Links = conn
    BY <2>2 DEF Committed, Links
  <2>4. env = row \cap Served
    BY <2>1, <2>2, <2>3, ChannelAssumption DEF IInv, EnvKept, Calm
  <2>5. gateway.env = env /\ gateway.secret = secret
    BY <2>1 DEF IInv, GatewayLags, SecretsLag, Calm
  <2>6. gateway = [env |-> env, secret |-> secret]
    BY <2>5 DEF IInv, Flow
  <2>7. \A i \in Served : IF i \in row THEN conn[i] \in {"configured", "tested"}
                          ELSE conn[i] # "configured"
    BY <2>3 DEF IInv, InOrder, Calm
  <2> QED
    BY <2>4, <2>6, <2>7
<1>3. [CalmNext]_vars => [Next]_vars
  BY CalmIsNext
<1> QED
  BY InitIInv, NextIInv, CalmStep, <1>1, <1>2, <1>3, PTL DEF Undisturbed

=============================================================================
