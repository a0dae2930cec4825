-------------------------- MODULE LabSessionProofs --------------------------
(***************************************************************************)
(* What the client promises a program, for any number of sessions, runs    *)
(* and lines of output and whatever the servers answer.                    *)
(***************************************************************************)
EXTENDS LabSession, FiniteSetTheorems, TLAPS

(* The HTTP client.                                                         *)

\* The hosts taken for the lab's are JupyterHub's and those that begin with the
\* user's name.
Bases == hosts \cup {"hub", None}
HostsInv == http.base \in Bases /\ fetch.base \in Bases

\* A page is asked for once more often than it was counted.
VisitsInv == \A u \in Urls : fetch.asked[u] <= fetch.seen[u] + 1

\* While a request is made its URL is known, and so is a base to look from.
FetchInv ==
    /\ fetch.pc \in {"find", "get"} => fetch.url \in Targets
    /\ fetch.pc \in {"find", "found"} => fetch.base \in Hosts
    /\ fetch.pc = "get" => fetch.base = http.base

HttpInv ==
    /\ HttpTypeOK /\ HostsInv /\ VisitsInv /\ FetchInv
    /\ CredentialsStayInside /\ LabTokenIsLabs

-----------------------------------------------------------------------------
(* The session.                                                             *)

Message == [type : {"busy", "stream", "idle", "ok", "error"}, parent : Ids]
IsOutput(m, i) == m.type = "stream" /\ m.parent = i
IsIdle(m, i) == m.type = "idle" /\ m.parent = i

\* How much of the output of a run is still to be read.
Outputs(s, i) == {k \in 1 .. Len(s) : IsOutput(s[k], i)}
Pending(s, i) == Cardinality(Outputs(s, i))

\* Nothing is ahead of the last run.
KernelInv ==
    /\ kernel.id <= run.id /\ kernel.next \in {0, run.id}
    /\ socket # "open" => kernel = NoKernel
    /\ \A k \in 1 .. Len(wire) : wire[k].parent <= run.id
    /\ \A i \in Ids : i > run.id => printed[i] = 0

\* A run the kernel has not begun has printed and reported nothing.
NotBegunInv ==
    run.id # 0 /\ kernel.next = run.id =>
        /\ kernel.id # run.id /\ ~run.idle /\ printed[run.id] = 0
        /\ \A k \in 1 .. Len(wire) : wire[k].parent # run.id

\* The kernel is idle only once, after all the output of the run.
IdleInv ==
    /\ run.id # 0 /\ kernel.id = run.id /\ ~kernel.idle =>
           ~run.idle /\ \A k \in 1 .. Len(wire) : ~IsIdle(wire[k], run.id)
    /\ \A j \in 1 .. Len(wire) : IsIdle(wire[j], run.id) =>
           \A k \in j .. Len(wire) : ~IsOutput(wire[k], run.id)
    /\ run.idle => /\ run.id # 0
                   /\ \A k \in 1 .. Len(wire) : ~IsOutput(wire[k], run.id)

\* The output read and that to be read are all there is.
OutputInv ==
    /\ run.result = "running" => run.id # 0 /\ run.out + Pending(wire, run.id) = printed[run.id]
    /\ run.result = "ok" /\ ~run.closed => run.idle /\ run.out = printed[run.id]

\* The sessions opened are numbered, so that one deleted does not come back.
SessionsInv ==
    /\ lab \subseteq 1 .. opened
    /\ outcome.id <= opened /\ manager.id <= opened
    /\ manager.pc = "create" => opened > 0 /\ (outcome.raised = None => outcome.id < opened)

ContextInv == SessionsInv /\ CleanExitDeletes /\ BodyErrorKept
RunInv == KernelInv /\ NotBegunInv /\ IdleInv /\ OutputInv

\* The types, in the same two parts.
ContextType ==
    /\ manager \in [pc : {"none", "create", "connect", "body", "leave", "delete"},
                    id : 0..MaxSessions, error : BOOLEAN, stale : BOOLEAN]
    /\ lab \subseteq 1..MaxSessions /\ opened \in 0..MaxSessions /\ logins \in 0..MaxLogins
    /\ outcome \in [id : 0..MaxSessions, error : BOOLEAN, stale : BOOLEAN,
                    raised : {None, "enter", "body", "close", "runtime"}]
RunType ==
    /\ run \in [id : Ids, complete : BOOLEAN, idle : BOOLEAN, out : 0..MaxOutput,
                result : {None, "running", "ok", "error", "timeout", "websocket"},
                closed : BOOLEAN]
    /\ wire \in Seq(Message)
    /\ socket \in {None, "open", "closed", "broken"}
    /\ kernel \in [id : Ids, idle : BOOLEAN, replied : BOOLEAN, next : Ids]
    /\ printed \in [Ids -> 0..MaxOutput]

IInv == HttpInv /\ ContextType /\ RunType /\ ContextInv /\ RunInv

-----------------------------------------------------------------------------
(* Requests keep the invariant of the HTTP client.                          *)

\* What may be asked with a base, and what has been.
Mine(url, base) ==
    /\ url # "outside"
    /\ base \in {None, "hub"} => url \notin {"user/user", "twin/user"}

LEMMA Asked == CredentialsStayInside <=> \A u \in Urls : fetch.asked[u] # 0 => Mine(u, fetch.base)
BY DEF CredentialsStayInside, Mine, LabUrl, Named, Urls

LEMMA AskedNext ==
    CredentialsStayInside' <=> \A u \in Urls : fetch'.asked[u] # 0 => Mine(u, fetch'.base)
BY DEF CredentialsStayInside, Mine, LabUrl, Named, Urls

\* A redirect that is followed leads to a host that begins like JupyterHub's or
\* the lab's, and so to none that begins with the user's name without a base
\* that does.
LEMMA InsideIsSafe ==
    ASSUME NEW url \in Urls, NEW base \in Hosts \cup {None}, Inside(url, base)
    PROVE  Mine(url, base)
BY NoneAssumption DEF Inside, Mine, HostOf, Urls, Hosts, Named

LEMMA TargetsUrls == Targets \subseteq Urls
BY DEF Targets

\* A cookie from a page of a lab without a host of its own is the lab's.
LEMMA ExtractSafe ==
    ASSUME NEW h \in [base : Hosts \cup {None}, lab : Tokens],
           NEW url \in Targets, NEW base \in Hosts \cup {None}, NEW cookie \in BOOLEAN,
           base \in Bases, hosts = {} => h.lab \in {None, "lab"}
    PROVE  LET x == Extract(h, url, base, cookie) IN
           /\ x \in [base : Hosts \cup {None}, lab : Tokens]
           /\ x.base = h.base
           /\ hosts = {} => x.lab \in {None, "lab"}
BY DEF Extract, IsLab, LabUrl, Server, Tokens, Bases

\* Asking for the target of a redirect that passed the checks.
LEMMA AskSafe ==
    ASSUME HttpTypeOK, VisitsInv, NEW url \in Urls, ~Loop(fetch.seen, url)
    PROVE  /\ Asks(url) = [fetch EXCEPT !.url = url,
                                        !.seen = [fetch.seen EXCEPT ![url] = fetch.seen[url] + 1],
                                        !.asked = [fetch.asked EXCEPT ![url] = Again(fetch.asked[url])]]
           /\ [fetch.seen EXCEPT ![url] = fetch.seen[url] + 1] \in [Urls -> 0..2]
           /\ [fetch.asked EXCEPT ![url] = Again(fetch.asked[url])] \in [Urls -> 0..4]
           /\ \A u \in Urls : Asks(url).asked[u] <= Asks(url).seen[u] + 1
           /\ \A u \in Urls : Asks(url).asked[u] # 0 => u = url \/ fetch.asked[u] # 0
<1>1. /\ fetch.seen \in [Urls -> 0..2] /\ fetch.asked \in [Urls -> 0..4]
      /\ fetch.seen[url] <= 1 /\ fetch.asked[url] <= fetch.seen[url] + 1
  BY DEF HttpTypeOK, VisitsInv, Loop
<1>2. Again(fetch.asked[url]) = fetch.asked[url] + 1 /\ fetch.asked[url] \in 0..2
  BY <1>1 DEF Again
<1>3. Asks(url) = [fetch EXCEPT !.url = url,
                                !.seen = [fetch.seen EXCEPT ![url] = fetch.seen[url] + 1],
                                !.asked = [fetch.asked EXCEPT ![url] = Again(fetch.asked[url])]]
  BY DEF Asks, HttpTypeOK
<1>4. /\ Asks(url).asked = [fetch.asked EXCEPT ![url] = fetch.asked[url] + 1]
      /\ Asks(url).seen = [fetch.seen EXCEPT ![url] = fetch.seen[url] + 1]
  BY <1>2, <1>3 DEF HttpTypeOK
<1>5. [fetch.seen EXCEPT ![url] = fetch.seen[url] + 1] \in [Urls -> 0..2]
  BY <1>1
<1>6. [fetch.asked EXCEPT ![url] = Again(fetch.asked[url])] \in [Urls -> 0..4]
  BY <1>1, <1>2
<1>7. \A u \in Urls : Asks(url).asked[u] <= Asks(url).seen[u] + 1
  BY <1>1, <1>4 DEF VisitsInv
<1>8. \A u \in Urls : Asks(url).asked[u] # 0 => u = url \/ fetch.asked[u] # 0
  BY <1>1, <1>4
<1>. QED BY <1>3, <1>5, <1>6, <1>7, <1>8

LEMMA StartedSafe ==
    ASSUME HttpInv, NEW goal \in {"hub", "lab", "create", "delete"}, UNCHANGED hosts,
           \/ FindBegin(goal) /\ UNCHANGED http
           \/ /\ http' \in {http, NewHttp}
              /\ \E url \in Targets : Inside(url, http'.base) /\ GetBegin(goal, url, http'.base)
    PROVE  HttpInv'
<1>1. /\ http' \in [base : Hosts \cup {None}, lab : Tokens] /\ http'.base \in Bases
      /\ (hosts = {} => http'.lab \in {None, "lab"}) /\ Targets' = Targets /\ Bases' = Bases
  <2>1. http' \in {http, NewHttp}
    OBVIOUS
  <2>2. NewHttp \in [base : Hosts \cup {None}, lab : Tokens]
        /\ NewHttp.base = None /\ NewHttp.lab = None
    BY DEF NewHttp, Tokens
  <2>. QED BY <2>1, <2>2 DEF HttpInv, HttpTypeOK, HostsInv, LabTokenIsLabs, Bases, Targets
<1>2. PICK url \in Targets, pc \in {"find", "get"}, base \in Hosts \cup {None} :
          /\ fetch' = [pc |-> pc, goal |-> goal, url |-> url, base |-> base,
                       seen |-> [u \in Urls |-> 0],
                       asked |-> [[u \in Urls |-> 0] EXCEPT ![url] = 1]]
          /\ pc = "find" => base = "hub"
          /\ pc = "get" => base = http'.base
          /\ base \in Bases /\ Mine(url, base)
  <2>1. CASE FindBegin(goal)
    <3>1. "hub/user" \in Targets
      BY DEF Targets, Urls, HostOf, Named
    <3>2. fetch' = [pc |-> "find", goal |-> goal, url |-> "hub/user", base |-> "hub",
                    seen |-> [u \in Urls |-> 0],
                    asked |-> [[u \in Urls |-> 0] EXCEPT !["hub/user"] = 1]]
      BY <2>1 DEF FindBegin, NoFetch
    <3>3. "hub" \in Hosts \cup {None} /\ "hub" \in Bases /\ Mine("hub/user", "hub")
      BY DEF Hosts, Bases, Mine
    <3>4. \E pc \in {"find", "get"} : pc = "find" /\
             fetch' = [pc |-> pc, goal |-> goal, url |-> "hub/user", base |-> "hub",
                       seen |-> [u \in Urls |-> 0],
                       asked |-> [[u \in Urls |-> 0] EXCEPT !["hub/user"] = 1]]
      BY <3>2
    <3>. QED BY <3>1, <3>3, <3>4, Zenon
  <2>2. ASSUME NEW url \in Targets, Inside(url, http'.base), GetBegin(goal, url, http'.base)
        PROVE  /\ fetch' = [pc |-> "get", goal |-> goal, url |-> url, base |-> http'.base,
                            seen |-> [u \in Urls |-> 0],
                            asked |-> [[u \in Urls |-> 0] EXCEPT ![url] = 1]]
               /\ Mine(url, http'.base)
    <3>1. Mine(url, http'.base)
      BY <1>1, <2>2, InsideIsSafe, TargetsUrls
    <3>. QED BY <2>2, <3>1 DEF GetBegin, NoFetch
  <2>3. http'.base \in Hosts \cup {None}
    BY <1>1
  <2>. QED BY <1>1, <2>1, <2>2, <2>3
<1>3. url \in Urls
  BY TargetsUrls
<1>4. fetch'.asked \in [Urls -> 0..4] /\ fetch'.seen \in [Urls -> 0..2]
      /\ (\A u \in Urls : fetch'.asked[u] <= fetch'.seen[u] + 1)
      /\ (\A u \in Urls : fetch'.asked[u] # 0 => u = url)
  BY <1>2, <1>3
<1>5. HttpTypeOK'
  BY <1>1, <1>2, <1>3, <1>4 DEF HttpTypeOK, HttpInv
<1>6. fetch'.pc = pc /\ fetch'.url = url /\ fetch'.base = base
  BY <1>2
<1>7. FetchInv'
  BY <1>1, <1>2, <1>6 DEF FetchInv, Hosts
<1>8. CredentialsStayInside'
  BY <1>2, <1>4, <1>6, AskedNext
<1>9. HostsInv' /\ LabTokenIsLabs'
  BY <1>1, <1>2, <1>6 DEF HostsInv, LabTokenIsLabs
<1>. QED BY <1>4, <1>5, <1>7, <1>8, <1>9 DEF HttpInv, VisitsInv

\* No request is made.
LEMMA NoFetchSafe ==
    ASSUME HttpInv, fetch' \in {NoFetch, fetch}, UNCHANGED <<hosts, http>>
    PROVE  HttpInv'
<1>1. CASE fetch' = NoFetch
  <2>1. HttpTypeOK'
    BY <1>1 DEF HttpInv, HttpTypeOK, NoFetch, Urls
  <2>2. HostsInv' /\ FetchInv'
    BY <1>1, NoneAssumption DEF HttpInv, HostsInv, FetchInv, NoFetch, Bases
  <2>3. VisitsInv' /\ CredentialsStayInside'
    BY <1>1, AskedNext DEF VisitsInv, NoFetch, Urls
  <2>. QED BY <2>1, <2>2, <2>3 DEF HttpInv, LabTokenIsLabs
<1>2. CASE fetch' = fetch
  BY <1>2 DEF HttpInv, HttpTypeOK, HostsInv, Bases, VisitsInv, FetchInv, CredentialsStayInside,
     LabTokenIsLabs, Targets
<1>. QED BY <1>1, <1>2

\* A redirect, followed or refused.
LEMMA RedirectSafe ==
    ASSUME HttpInv, FindRedirect \/ GetRedirect, UNCHANGED hosts
    PROVE  HttpInv'
<1>1. PICK url \in Targets, cookie \in BOOLEAN, base \in Hosts \cup {None} :
         /\ fetch.pc = "find" => base \in Hosts
         /\ fetch.pc = "get" => base = http.base
         /\ base \in Bases
         /\ base \in Named \/ base = fetch.base
         /\ \/ fetch' = [fetch EXCEPT !.pc = "failed"]
            \/ /\ Inside(url, base) /\ ~Loop(fetch.seen, url)
               /\ \/ fetch' = Asks(url) /\ base = fetch.base
                  \/ fetch' = [Asks(url) EXCEPT !.base = base]
         /\ \/ http' = http
            \/ http' = Extract(http, fetch.url, base, cookie)
  <2>1. CASE FindRedirect
    <3>1. PICK url \in Targets, cookie \in BOOLEAN :
             LET base == IF HostOf[url] \in Named THEN HostOf[url] ELSE fetch.base IN
             IF ~Inside(url, base) \/ Loop(fetch.seen, url)
               THEN /\ fetch' = [fetch EXCEPT !.pc = "failed"]
                    /\ UNCHANGED http
               ELSE /\ http' = Extract(http, fetch.url, base, cookie)
                    /\ fetch' = [Asks(url) EXCEPT !.base = base]
      BY <2>1 DEF FindRedirect
    <3> DEFINE base == IF HostOf[url] \in Named THEN HostOf[url] ELSE fetch.base
    <3>2. base \in Hosts
      BY <2>1 DEF FindRedirect, HttpInv, FetchInv, Hosts
    <3>3. base \in Bases
      BY DEF Targets, Bases, HttpInv, HostsInv
    <3>4. (base \in Named \/ base = fetch.base) /\ fetch.pc # "get"
      BY <2>1 DEF FindRedirect
    <3>. QED BY <3>1, <3>2, <3>3, <3>4
  <2>2. CASE GetRedirect
    <3>1. PICK url \in Targets, cookie \in BOOLEAN :
             /\ http' = Extract(http, fetch.url, http.base, cookie)
             /\ fetch' = IF ~Inside(url, http.base) \/ Loop(fetch.seen, url)
                         THEN [fetch EXCEPT !.pc = "failed"] ELSE Asks(url)
      BY <2>2 DEF GetRedirect
    <3>2. http.base \in Hosts \cup {None} /\ http.base \in Bases
      BY DEF HttpInv, HttpTypeOK, HostsInv
    <3>3. fetch.pc = "get" /\ http.base = fetch.base
      BY <2>2 DEF GetRedirect, HttpInv, FetchInv
    <3>. QED BY <3>1, <3>2, <3>3
  <2>. QED BY <2>1, <2>2
<1>2. /\ fetch.url \in Targets /\ url \in Urls /\ fetch.pc \in {"find", "get"}
      /\ Targets' = Targets /\ Bases' = Bases
  BY TargetsUrls DEF FindRedirect, GetRedirect, HttpInv, FetchInv, Targets, Bases
<1>3. /\ http' \in [base : Hosts \cup {None}, lab : Tokens]
      /\ http'.base = http.base /\ (hosts = {} => http'.lab \in {None, "lab"})
  BY <1>1, <1>2, ExtractSafe DEF HttpInv, HttpTypeOK, LabTokenIsLabs
<1>4. CASE fetch' = [fetch EXCEPT !.pc = "failed"]
  <2>1. HttpTypeOK'
    BY <1>3, <1>4 DEF HttpInv, HttpTypeOK
  <2>2. /\ fetch'.pc = "failed" /\ fetch'.base = fetch.base /\ fetch'.asked = fetch.asked
        /\ fetch'.seen = fetch.seen
    BY <1>4 DEF HttpInv, HttpTypeOK
  <2>3. VisitsInv' /\ CredentialsStayInside'
    BY <2>2 DEF HttpInv, VisitsInv, CredentialsStayInside
  <2>4. HostsInv' /\ FetchInv' /\ LabTokenIsLabs'
    BY <1>2, <1>3, <2>2 DEF HttpInv, HostsInv, FetchInv, LabTokenIsLabs
  <2>. QED BY <2>1, <2>3, <2>4 DEF HttpInv
<1>5. CASE /\ Inside(url, base) /\ ~Loop(fetch.seen, url)
           /\ \/ fetch' = Asks(url) /\ base = fetch.base
              \/ fetch' = [Asks(url) EXCEPT !.base = base]
  <2>1. Mine(url, base)
    BY <1>2, <1>5, InsideIsSafe
  <2>2. /\ Asks(url) = [fetch EXCEPT !.url = url,
                              !.seen = [fetch.seen EXCEPT ![url] = fetch.seen[url] + 1],
                              !.asked = [fetch.asked EXCEPT ![url] = Again(fetch.asked[url])]]
        /\ [fetch.seen EXCEPT ![url] = fetch.seen[url] + 1] \in [Urls -> 0..2]
        /\ [fetch.asked EXCEPT ![url] = Again(fetch.asked[url])] \in [Urls -> 0..4]
        /\ \A u \in Urls : Asks(url).asked[u] <= Asks(url).seen[u] + 1
        /\ \A u \in Urls : Asks(url).asked[u] # 0 => u = url \/ fetch.asked[u] # 0
    BY <1>2, <1>5, <2>1, AskSafe DEF HttpInv
  <2>3. /\ fetch'.asked = Asks(url).asked /\ fetch'.seen = Asks(url).seen
        /\ fetch'.base = base /\ fetch'.url = url /\ fetch'.pc = fetch.pc
        /\ fetch.pc = "find" => fetch'.base \in Hosts
        /\ fetch' \in [pc : {"none", "find", "found", "get", "done", "failed"},
                       goal : {None, "hub", "lab", "create", "delete"},
                       url : Urls \cup {None}, base : Hosts \cup {None},
                       seen : [Urls -> 0..2], asked : [Urls -> 0..4]]
    <3>1. /\ Asks(url) \in [pc : {"none", "find", "found", "get", "done", "failed"},
                             goal : {None, "hub", "lab", "create", "delete"},
                             url : Urls \cup {None}, base : Hosts \cup {None},
                             seen : [Urls -> 0..2], asked : [Urls -> 0..4]]
          /\ Asks(url).pc = fetch.pc /\ Asks(url).url = url /\ Asks(url).base = fetch.base
      BY <1>2, <2>2 DEF HttpInv, HttpTypeOK
    <3>2. fetch.pc = "find" => fetch.base \in Hosts
      BY DEF HttpInv, FetchInv
    <3>3. CASE fetch' = Asks(url) /\ base = fetch.base
      BY <3>1, <3>2, <3>3
    <3>4. CASE fetch' = [Asks(url) EXCEPT !.base = base]
      BY <1>1, <3>1, <3>4
    <3>. QED BY <1>5, <3>3, <3>4
  <2>4. HttpTypeOK'
    BY <1>3, <2>3 DEF HttpInv, HttpTypeOK
  <2>5. VisitsInv'
    BY <2>2, <2>3 DEF VisitsInv
  <2>6. HostsInv' /\ FetchInv' /\ LabTokenIsLabs'
    BY <1>1, <1>2, <1>3, <2>3 DEF HttpInv, HostsInv, FetchInv, LabTokenIsLabs
  <2>7. CredentialsStayInside'
    <3>1. ASSUME NEW u \in Urls, fetch'.asked[u] # 0 PROVE Mine(u, base)
      <4>1. CASE u = url
        BY <2>1, <4>1
      <4>2. CASE fetch.asked[u] # 0
        <5>1. Mine(u, fetch.base)
          BY <4>2, Asked DEF HttpInv
        <5>2. base \in {None, "hub"} => base = fetch.base
          BY <1>1, NoneAssumption DEF Named
        <5>. QED BY <5>1, <5>2 DEF Mine
      <4>. QED BY <2>2, <2>3, <3>1, <4>1, <4>2
    <3>. QED BY <2>3, <3>1, AskedNext
  <2>. QED BY <2>4, <2>5, <2>6, <2>7 DEF HttpInv
<1>. QED BY <1>1, <1>4, <1>5

\* The last page of a chain, or an error.
LEMMA LastPageSafe ==
    ASSUME HttpInv, FindEnds \/ GetEnds, UNCHANGED hosts
    PROVE  HttpInv'
<1>1. PICK cookie \in BOOLEAN, base \in {http.base, fetch.base},
           pc \in {"found", "done", "failed"} :
         /\ fetch' = [fetch EXCEPT !.pc = pc]
         /\ pc = "found" => fetch.pc = "find"
         /\ \/ http' = http
            \/ http' = [Extract(http, fetch.url, http.base, cookie) EXCEPT !.base = base]
            \/ http' = Extract(http, fetch.url, http.base, cookie)
  BY DEF FindEnds, GetEnds
<1>2. fetch.url \in Targets /\ Targets' = Targets /\ Bases' = Bases
  BY DEF FindEnds, GetEnds, HttpInv, FetchInv, Targets, Bases
<1>3. /\ http' \in [base : Hosts \cup {None}, lab : Tokens]
      /\ http'.base \in {http.base, fetch.base} /\ (hosts = {} => http'.lab \in {None, "lab"})
  <2>1. LET x == Extract(http, fetch.url, http.base, cookie) IN
        /\ x \in [base : Hosts \cup {None}, lab : Tokens]
        /\ x.base = http.base
        /\ hosts = {} => x.lab \in {None, "lab"}
    BY <1>2, ExtractSafe DEF HttpInv, HttpTypeOK, HostsInv, LabTokenIsLabs
  <2>. QED BY <1>1, <2>1 DEF HttpInv, HttpTypeOK, LabTokenIsLabs
<1>4. HttpTypeOK'
  BY <1>1, <1>3 DEF HttpInv, HttpTypeOK
<1>5. fetch'.pc = pc /\ \A x \in {"base", "asked", "seen"} : fetch'[x] = fetch[x]
  BY <1>1 DEF HttpInv, HttpTypeOK
<1>6. fetch'.base = fetch.base /\ fetch'.asked = fetch.asked /\ fetch'.seen = fetch.seen
  BY <1>5
<1>7. VisitsInv' /\ CredentialsStayInside'
  BY <1>6 DEF HttpInv, VisitsInv, CredentialsStayInside
<1>8. HostsInv' /\ LabTokenIsLabs'
  BY <1>2, <1>3, <1>6 DEF HttpInv, HostsInv, LabTokenIsLabs
<1>9. FetchInv'
  BY <1>1, <1>5, <1>6 DEF HttpInv, FetchInv
<1>. QED BY <1>4, <1>7, <1>8, <1>9 DEF HttpInv

LEMMA FetchSafe == ASSUME HttpInv, Fetch, UNCHANGED hosts PROVE HttpInv'
BY RedirectSafe, LastPageSafe DEF Fetch

-----------------------------------------------------------------------------
(* Counting the output that is still to be read.                            *)

LEMMA PendingType ==
    ASSUME NEW s \in Seq(Message), NEW i
    PROVE  IsFiniteSet(Outputs(s, i)) /\ Pending(s, i) \in Nat
<1>1. IsFiniteSet(1 .. Len(s))
  BY FS_Interval
<1>2. IsFiniteSet(Outputs(s, i))
  BY <1>1, FS_Subset DEF Outputs
<1>. QED BY <1>2, FS_CardinalityType DEF Pending

LEMMA PendingNone ==
    ASSUME NEW s \in Seq(Message), NEW i, \A k \in 1 .. Len(s) : ~IsOutput(s[k], i)
    PROVE  Pending(s, i) = 0
<1>1. Outputs(s, i) = {}
  BY DEF Outputs
<1>. QED BY <1>1, FS_EmptySet DEF Pending

\* A message sent is one more to read, if it is output.
LEMMA PendingAppend ==
    ASSUME NEW s \in Seq(Message), NEW m \in Message, NEW i
    PROVE  Pending(Append(s, m), i) = Pending(s, i) + (IF IsOutput(m, i) THEN 1 ELSE 0)
<1> DEFINE t == Append(s, m)
<1>1. /\ Len(t) = Len(s) + 1 /\ t[Len(s) + 1] = m
      /\ \A k \in 1 .. Len(s) : t[k] = s[k]
  OBVIOUS
<1>2. Outputs(t, i) = Outputs(s, i) \cup (IF IsOutput(m, i) THEN {Len(s) + 1} ELSE {})
  BY <1>1 DEF Outputs
<1>3. Len(s) + 1 \notin Outputs(s, i)
  BY DEF Outputs
<1>4. IsFiniteSet(Outputs(s, i)) /\ Pending(s, i) \in Nat
  BY PendingType
<1>5. Cardinality(Outputs(s, i) \cup {Len(s) + 1}) = Cardinality(Outputs(s, i)) + 1
  BY <1>3, <1>4, FS_AddElement
<1>6. CASE IsOutput(m, i)
  <2>1. Outputs(t, i) = Outputs(s, i) \cup {Len(s) + 1}
    BY <1>2, <1>6
  <2>. QED BY <2>1, <1>5, <1>6 DEF Pending
<1>7. CASE ~IsOutput(m, i)
  <2>1. Outputs(t, i) = Outputs(s, i)
    BY <1>2, <1>7
  <2>. QED BY <2>1, <1>4, <1>7 DEF Pending
<1>. QED BY <1>6, <1>7

\* A message read is one less.
LEMMA PendingTail ==
    ASSUME NEW s \in Seq(Message), s # <<>>, NEW i
    PROVE  Pending(s, i) = Pending(Tail(s), i) + (IF IsOutput(Head(s), i) THEN 1 ELSE 0)
<1> DEFINE t == Tail(s)
           Later == {k \in 2 .. Len(s) : IsOutput(s[k], i)}
           f == [k \in Outputs(t, i) |-> k + 1]
<1>1. /\ t \in Seq(Message) /\ Len(t) = Len(s) - 1 /\ Len(s) \in Nat \ {0} /\ Head(s) = s[1]
      /\ \A k \in 1 .. Len(t) : t[k] = s[k + 1]
  OBVIOUS
<1>2. IsFiniteSet(Outputs(t, i)) /\ Pending(t, i) \in Nat
  BY <1>1, PendingType
<1>3. f \in Bijection(Outputs(t, i), Later)
  <2>1. f \in [Outputs(t, i) -> Later]
    BY <1>1 DEF Outputs
  <2>2. \A a, b \in Outputs(t, i) : f[a] = f[b] => a = b
    BY <1>1 DEF Outputs
  <2>3. ASSUME NEW k \in Later PROVE \E a \in Outputs(t, i) : f[a] = k
    <3>1. k - 1 \in Outputs(t, i) /\ f[k - 1] = k
      BY <1>1 DEF Outputs
    <3>. QED BY <3>1
  <2>. QED BY <2>1, <2>2, <2>3 DEF Bijection, Injection, Surjection, IsInjective
<1>4. IsFiniteSet(Later) /\ Cardinality(Later) = Cardinality(Outputs(t, i))
  BY <1>2, <1>3, FS_Bijection DEF ExistsBijection
<1>5. Outputs(s, i) = Later \cup (IF IsOutput(s[1], i) THEN {1} ELSE {})
  BY <1>1 DEF Outputs
<1>6. Cardinality(Later \cup {1}) = Cardinality(Later) + 1
  <2>1. 1 \notin Later
    OBVIOUS
  <2> HIDE DEF Later
  <2>. QED BY <1>4, <2>1, FS_AddElement
<1>7. CASE IsOutput(s[1], i)
  <2>1. Outputs(s, i) = Later \cup {1}
    BY <1>5, <1>7
  <2> HIDE DEF Later
  <2>. QED BY <2>1, <1>1, <1>4, <1>6, <1>7 DEF Pending
<1>8. CASE ~IsOutput(s[1], i)
  <2>1. Outputs(s, i) = Later
    BY <1>5, <1>8
  <2> HIDE DEF Later
  <2>. QED BY <2>1, <1>1, <1>2, <1>4, <1>8 DEF Pending
<1>. QED BY <1>7, <1>8

-----------------------------------------------------------------------------
(* The session: one part of the invariant is about contexts and the lab, the *)
(* other about runs and the kernel.                                          *)

LEMMA SameRun ==
    ASSUME RunInv, RunType, UNCHANGED <<run, wire, socket, kernel, printed>>
    PROVE  RunInv' /\ RunType'
<1>1. KernelInv' /\ NotBegunInv'
  BY DEF RunInv, KernelInv, NotBegunInv
<1>2. IdleInv' /\ OutputInv'
  BY DEF RunInv, IdleInv, OutputInv, Pending, Outputs
<1>3. RunType'
  BY DEF RunType
<1>. QED BY <1>1, <1>2, <1>3 DEF RunInv

LEMMA SameContext ==
    ASSUME ContextInv, ContextType, UNCHANGED <<lab, opened, outcome>>,
           logins' \in 0 .. MaxLogins,
           manager' \in [pc : {"none", "create", "connect", "body", "leave", "delete"},
                         id : 0..MaxSessions, error : BOOLEAN, stale : BOOLEAN],
           manager'.id = manager.id, manager'.pc = "create" => manager.pc = "create"
    PROVE  ContextInv' /\ ContextType'
<1>1. ContextType'
  BY DEF ContextType
<1>2. SessionsInv'
  BY DEF ContextInv, SessionsInv
<1>3. CleanExitDeletes' /\ BodyErrorKept'
  BY DEF ContextInv, CleanExitDeletes, BodyErrorKept
<1>. QED BY <1>1, <1>2, <1>3 DEF ContextInv

\* The lab's page is the lab's, where it is known.
LEMMA LabUrlSafe ==
    ASSUME HttpInv PROVE LabUrl(http.base) \in Targets /\ Inside(LabUrl(http.base), http.base)
<1>1. http.base \in hosts \cup {"hub", None} /\ hosts \subseteq Named
  BY DEF HttpInv, HostsInv, HttpTypeOK, Bases
<1>2. CASE http.base = "user"
  <2>1. "user/user" \in Urls /\ HostOf["user/user"] = "user" /\ "user" \in hosts
    BY <1>1, <1>2, NoneAssumption DEF Urls, HostOf
  <2>. QED BY <1>2, <2>1 DEF LabUrl, Targets, Inside
<1>3. CASE http.base = "twin"
  <2>1. "twin/user" \in Urls /\ HostOf["twin/user"] = "twin" /\ "twin" \in hosts
    BY <1>1, <1>3, NoneAssumption DEF Urls, HostOf
  <2>. QED BY <1>3, <2>1 DEF LabUrl, Targets, Inside
<1>4. CASE http.base \notin Named
  <2>1. "hub/user" \in Urls /\ HostOf["hub/user"] = "hub" /\ "hub" \notin Named
    BY DEF Urls, HostOf, Named
  <2>2. LabUrl(http.base) = "hub/user"
    BY <1>4 DEF LabUrl, Named
  <2>. QED BY <2>1, <2>2 DEF Targets, Inside
<1>. QED BY <1>2, <1>3, <1>4 DEF Named

LEMMA InitInv == Init => IInv
<1>. SUFFICES ASSUME Init PROVE IInv
  OBVIOUS
<1>1. HttpInv
  <2>1. HttpTypeOK /\ HostsInv /\ FetchInv /\ LabTokenIsLabs
    BY NoneAssumption DEF Init, HttpInit, HttpTypeOK, HostsInv, Bases, FetchInv, LabTokenIsLabs,
       NewHttp, NoFetch, Urls, Tokens, Hosts
  <2>2. VisitsInv /\ CredentialsStayInside
    BY Asked DEF Init, HttpInit, VisitsInv, NoFetch, Urls
  <2>. QED BY <2>1, <2>2 DEF HttpInv
<1>2. ContextType /\ RunType
  BY SessionAssumption DEF Init, ContextType, RunType, NoManager, NoRun, NoKernel, NoOutcome, Ids
<1>3. ContextInv
  BY SessionAssumption DEF Init, ContextInv, SessionsInv, CleanExitDeletes, BodyErrorKept, NoManager, NoOutcome
<1>4. RunInv
  BY SessionAssumption
     DEF Init, RunInv, KernelInv, NotBegunInv, IdleInv, OutputInv, NoRun, NoKernel, Ids
<1>. QED BY <1>1, <1>2, <1>3, <1>4 DEF IInv

-----------------------------------------------------------------------------
(* Logging in, opening and leaving a session.                               *)

LEMMA LoginStep ==
    ASSUME IInv, AuthToHub \/ AuthToLab \/ Found \/ Authenticated \/ Fetching
    PROVE  IInv'
<1>. USE DEF IInv
<1>1. HttpInv'
  <2>1. CASE AuthToHub
    <3>1. "hub" \in Targets /\ Inside("hub", None) /\ NewHttp.base = None
      BY DEF Targets, Urls, HostOf, Named, Inside, NewHttp
    <3>2. http'.base = None
      BY <2>1, <3>1 DEF AuthToHub
    <3>. QED BY <2>1, <3>1, <3>2, StartedSafe DEF AuthToHub
  <2>2. CASE AuthToLab \/ Found
    BY <2>2, StartedSafe, LabUrlSafe DEF AuthToLab, Found, LabBegin
  <2>3. CASE Authenticated
    BY <2>3, NoFetchSafe DEF Authenticated
  <2>4. CASE Fetching
    BY <2>4, FetchSafe DEF Fetching
  <2>. QED BY <2>1, <2>2, <2>3, <2>4
<1>2. UNCHANGED <<run, wire, socket, kernel, lab, printed, opened, outcome>>
  BY DEF AuthToHub, AuthToLab, Found, Authenticated, Fetching, session
<1>3. /\ logins' \in 0 .. MaxLogins
      /\ \E pc \in {manager.pc, "leave"}, e \in BOOLEAN, st \in BOOLEAN :
             manager' = [pc |-> pc, id |-> manager.id, error |-> e, stale |-> st]
  <2>1. CASE AuthToHub
    <3>1. manager' = [manager EXCEPT !.stale = TRUE] \/ manager' = [manager EXCEPT !.stale = FALSE]
      BY <2>1 DEF AuthToHub
    <3>2. logins' \in 0 .. MaxLogins
      BY <2>1, SessionAssumption DEF AuthToHub, Login, ContextType
    <3>. QED BY <3>1, <3>2 DEF ContextType
  <2>2. CASE AuthToLab
    BY <2>2, SessionAssumption DEF AuthToLab, Login, ContextType
  <2>3. CASE Found \/ Authenticated \/ Fetching
    BY <2>3 DEF Found, Authenticated, Fetching, session, ContextType
  <2>. QED BY <2>1, <2>2, <2>3
<1>4. ContextInv' /\ ContextType'
  BY <1>2, <1>3, SameContext DEF ContextType
<1>. QED BY <1>1, <1>2, <1>4, SameRun

\* A context is entered with a number not used before.
LEMMA EnterStep == ASSUME IInv, Enter PROVE IInv'
<1>. USE DEF IInv
<1>1. HttpInv'
  BY StartedSafe, NoFetchSafe DEF Enter
<1>2. /\ manager' = [pc |-> "create", id |-> 0, error |-> FALSE, stale |-> FALSE]
      /\ opened' = opened + 1 /\ opened < MaxSessions /\ UNCHANGED <<lab, logins, outcome>>
  BY DEF Enter, NoManager
<1>3. ContextType'
  BY <1>2, SessionAssumption DEF ContextType
<1>4. ContextInv'
  BY <1>2 DEF ContextType, ContextInv, SessionsInv, CleanExitDeletes, BodyErrorKept
<1>. QED BY <1>1, <1>3, <1>4, SameRun DEF Enter

\* A context whose beginning fails is over.
LEMMA EnterFailsSafe ==
    ASSUME ContextType, ContextInv, EnterFails, UNCHANGED <<opened, logins>>,
           lab' \in {lab, lab \cup {opened}}, opened > 0 \/ lab' = lab
    PROVE  ContextType' /\ ContextInv'
<1>1. /\ manager' = [pc |-> "none", id |-> 0, error |-> FALSE, stale |-> FALSE]
      /\ outcome' = [id |-> 0, error |-> FALSE, stale |-> FALSE, raised |-> "enter"]
  BY DEF EnterFails, NoManager, NoOutcome
<1>2. lab' \subseteq 1 .. opened /\ opened \in 0 .. MaxSessions
  BY DEF ContextType, ContextInv, SessionsInv
<1>3. ContextType'
  BY <1>1, <1>2, SessionAssumption DEF ContextType
<1>4. ContextInv'
  BY <1>1, <1>2, SessionAssumption DEF ContextInv, SessionsInv, CleanExitDeletes, BodyErrorKept
<1>. QED BY <1>3, <1>4

LEMMA ConnectStep == ASSUME IInv, Connect PROVE IInv'
<1>. USE DEF IInv
<1>1. HttpInv'
  BY NoFetchSafe DEF Connect, EnterFails
<1>2. RunType' /\ RunInv'
  <2>1. RunType'
    BY DEF Connect, RunType
  <2>2. KernelInv' /\ NotBegunInv'
    BY DEF Connect, RunInv, KernelInv, NotBegunInv
  <2>3. IdleInv' /\ OutputInv'
    BY DEF Connect, RunInv, IdleInv, OutputInv, Pending, Outputs
  <2>. QED BY <2>1, <2>2, <2>3 DEF RunInv
<1>3. ContextType' /\ ContextInv'
  <2>1. CASE manager' = [manager EXCEPT !.pc = "body"] /\ UNCHANGED outcome
    BY <2>1, SameContext DEF Connect, ContextType
  <2>2. CASE EnterFails
    BY <2>2, EnterFailsSafe DEF Connect
  <2>. QED BY <2>1, <2>2 DEF Connect
<1>. QED BY <1>1, <1>2, <1>3

\* A session that is created has a number of its own.
LEMMA CreateStep == ASSUME IInv, Create PROVE IInv'
<1>. USE DEF IInv
<1>1. \/ /\ lab' = lab \cup {opened}
         /\ manager' = [manager EXCEPT !.pc = "connect", !.id = opened]
         /\ fetch' = NoFetch /\ UNCHANGED outcome
      \/ EnterFails /\ lab' \in {lab, lab \cup {opened}}
      \/ /\ \E url \in Targets : Inside(url, http.base) /\ GetBegin("create", url, http.base)
         /\ UNCHANGED <<lab, manager, outcome>>
  BY DEF Create
<1>2. UNCHANGED <<hosts, http, run, opened, logins, wire, socket, kernel, printed>> /\ manager.pc = "create"
  BY DEF Create, Unchanged_Kernel
<1>3. HttpInv'
  <2>1. CASE fetch' = NoFetch
    BY <1>2, <2>1, NoFetchSafe
  <2>2. CASE \E url \in Targets : Inside(url, http.base) /\ GetBegin("create", url, http.base)
    BY <1>2, <2>2, StartedSafe
  <2>. QED BY <1>1, <2>1, <2>2 DEF EnterFails
<1>4. opened > 0 /\ opened \in 0 .. MaxSessions /\ (outcome.raised = None => outcome.id # opened)
  BY <1>2 DEF ContextInv, SessionsInv, ContextType
<1>5. ContextType' /\ ContextInv'
  <2>1. CASE /\ lab' = lab \cup {opened} /\ UNCHANGED outcome
             /\ manager' = [manager EXCEPT !.pc = "connect", !.id = opened]
    <3>1. ContextType'
      <4>1. lab' \subseteq 1 .. MaxSessions
        BY <1>4, <2>1, SessionAssumption DEF ContextType
      <4>2. manager' \in [pc : {"none", "create", "connect", "body", "leave", "delete"},
                          id : 0..MaxSessions, error : BOOLEAN, stale : BOOLEAN]
        BY <1>4, <2>1 DEF ContextType
      <4>. QED BY <1>2, <2>1, <4>1, <4>2 DEF ContextType
    <3>2. ContextInv'
      BY <1>2, <1>4, <2>1 DEF ContextType, ContextInv, SessionsInv, CleanExitDeletes, BodyErrorKept
    <3>. QED BY <3>1, <3>2
  <2>2. CASE EnterFails /\ lab' \in {lab, lab \cup {opened}}
    BY <1>2, <1>4, <2>2, EnterFailsSafe
  <2>3. CASE UNCHANGED <<lab, manager, outcome>>
    BY <1>2, <2>3, SameContext DEF ContextType
  <2>. QED BY <1>1, <2>1, <2>2, <2>3
<1>. QED BY <1>2, <1>3, <1>5, SameRun

\* How a context ends.
LEMMA ExitSafe ==
    ASSUME ContextType, ContextInv, UNCHANGED <<opened, logins>>,
           NEW raised \in {None, "body", "close", "runtime"}, Exit(raised),
           lab' \in {lab, lab \ {manager.id}}, raised = None => lab' = lab \ {manager.id},
           manager.error /\ ~manager.stale => raised = "body"
    PROVE  ContextType' /\ ContextInv'
<1>1. /\ manager' = [pc |-> "none", id |-> 0, error |-> FALSE, stale |-> FALSE]
      /\ outcome' = [id |-> manager.id, error |-> manager.error, stale |-> manager.stale,
                     raised |-> raised]
  BY DEF Exit, NoManager
<1>2. ContextType'
  BY <1>1, SessionAssumption DEF ContextType
<1>3. SessionsInv'
  BY <1>1 DEF ContextInv, SessionsInv, ContextType
<1>4. CleanExitDeletes' /\ BodyErrorKept'
  BY <1>1 DEF CleanExitDeletes, BodyErrorKept
<1>. QED BY <1>2, <1>3, <1>4 DEF ContextInv

\* Leaving: nothing is left to read, and a session deleted is no more.
LEMMA LeaveStep == ASSUME IInv, GiveUp \/ Leave \/ CloseSocket \/ DeleteSession PROVE IInv'
<1>. USE DEF IInv
<1>1. UNCHANGED <<hosts, http, fetch, printed, opened, logins>>
  BY DEF GiveUp, Leave, CloseSocket, DeleteSession, Unchanged_Http, Unchanged_Kernel
<1>2. HttpInv'
  BY <1>1, NoFetchSafe
<1>3. CASE GiveUp \/ Leave
  <2>1. ContextType' /\ ContextInv'
    BY <1>3, SameContext DEF GiveUp, Leave, ContextType
  <2>. QED BY <1>2, <1>3, <2>1, SameRun DEF GiveUp, Leave
<1>4. CASE CloseSocket
  <2>1. ContextType' /\ ContextInv'
    <3>1. CASE manager' = [manager EXCEPT !.pc = "delete"] /\ UNCHANGED outcome
      BY <1>1, <1>4, <3>1, SameContext DEF CloseSocket, ContextType
    <3>2. CASE Exit(CloseError)
      <4>1. CloseError \in {"body", "close"} /\ (manager.error => CloseError = "body")
        BY DEF CloseError
      <4>. QED BY <1>1, <1>4, <3>2, <4>1, ExitSafe, SessionAssumption DEF CloseSocket
    <3>. QED BY <1>4, <3>1, <3>2 DEF CloseSocket
  <2>2. /\ run' = [id |-> run.id, complete |-> FALSE, idle |-> FALSE, out |-> 0, result |-> None,
                   closed |-> FALSE]
        /\ kernel' = [id |-> 0, idle |-> FALSE, replied |-> FALSE, next |-> 0]
        /\ wire' = <<>> /\ socket' = None /\ UNCHANGED printed
    BY <1>1, <1>4 DEF CloseSocket, NoRun, NoKernel
  <2>3. RunType'
    BY <2>2, SessionAssumption DEF RunType, Ids
  <2>4. KernelInv' /\ NotBegunInv' /\ IdleInv' /\ OutputInv'
    BY <2>2, SessionAssumption
       DEF RunInv, KernelInv, NotBegunInv, IdleInv, OutputInv, NoKernel, RunType, Ids
  <2>. QED BY <1>2, <2>1, <2>3, <2>4 DEF RunInv
<1>5. CASE DeleteSession
  <2>1. UNCHANGED <<run, wire, socket, kernel, printed>>
    BY <1>5 DEF DeleteSession, Unchanged_Kernel
  <2>2. ContextType' /\ ContextInv'
    <3>1. CASE ~manager.stale /\ Exit(IF manager.error THEN "body" ELSE None)
                 /\ lab' = lab \ {manager.id}
      BY <1>1, <3>1, ExitSafe
    <3>2. CASE ~manager.stale /\ Exit(CloseError) /\ lab' \in {lab, lab \ {manager.id}}
      <4>1. CloseError \in {"body", "close"} /\ (manager.error => CloseError = "body")
        BY DEF CloseError
      <4>. QED BY <1>1, <3>2, <4>1, ExitSafe, SessionAssumption
    <3>3. CASE manager.stale /\ Exit("runtime") /\ lab' = lab
      BY <1>1, <3>3, ExitSafe, SessionAssumption
    <3>. QED BY <1>5, <3>1, <3>2, <3>3 DEF DeleteSession
  <2>. QED BY <1>2, <2>1, <2>2, SameRun
<1>. QED BY <1>3, <1>4, <1>5

-----------------------------------------------------------------------------
(* Runs of code and the kernel.                                             *)

\* Steps that are none of the context's.
LEMMA OutsideContext ==
    ASSUME IInv, UNCHANGED <<hosts, http, fetch, manager, lab, opened, logins, outcome>>
    PROVE  HttpInv' /\ ContextType' /\ ContextInv'
BY NoFetchSafe, SameContext DEF IInv, ContextType

\* The next run has a number nobody has used.
LEMMA RunBeginStep == ASSUME IInv, RunBegin PROVE IInv'
<1>. USE DEF IInv
<1>1. UNCHANGED <<hosts, http, fetch, manager, wire, socket, lab, printed, opened, logins, outcome>>
  BY DEF RunBegin, Unchanged_Http
<1> DEFINE n == run.id + 1
<1>2. n \in Ids /\ n # 0 /\ run.id \in Ids /\ run.id < n
  BY SessionAssumption DEF RunBegin, RunType, Ids
<1>3. \E result \in {"running", "websocket"} :
         /\ run' = [id |-> n, complete |-> FALSE, idle |-> FALSE, out |-> 0, result |-> result,
                    closed |-> FALSE]
         /\ result = "running" => socket = "open"
  BY DEF RunBegin, NoRun
<1>4. /\ run'.id = n /\ run'.idle = FALSE /\ run'.out = 0 /\ run'.closed = FALSE
      /\ run'.result \in {"running", "websocket"}
      /\ run'.result = "running" => socket = "open"
  BY <1>3
<1>5. /\ kernel' \in [id : Ids, idle : BOOLEAN, replied : BOOLEAN, next : Ids]
      /\ kernel'.id = kernel.id /\ kernel'.idle = kernel.idle
      /\ kernel'.next \in {0, n}
      /\ socket # "open" => kernel' = NoKernel
  <2>1. CASE socket = "open"
    BY <1>2, <2>1 DEF RunBegin, RunType
  <2>2. CASE socket # "open"
    <3>1. kernel = NoKernel /\ kernel' = kernel
      BY <2>2 DEF RunBegin, RunInv, KernelInv
    <3>2. kernel.next = 0
      BY <3>1 DEF NoKernel
    <3>. QED BY <3>1, <3>2 DEF RunType
  <2>. QED BY <2>1, <2>2
<1>6. RunType'
  <2>1. run' \in [id : Ids, complete : BOOLEAN, idle : BOOLEAN, out : 0..MaxOutput,
                  result : {None, "running", "ok", "error", "timeout", "websocket"}, closed : BOOLEAN]
    BY <1>2, <1>3, SessionAssumption
  <2>. QED BY <1>1, <1>5, <2>1 DEF RunType
<1>10. \A k \in 1 .. Len(wire) : wire[k] \in Message /\ wire[k].parent < n
  <2>1. \A k \in 1 .. Len(wire) : wire[k] \in Message
    BY DEF RunType
  <2>2. \A k \in 1 .. Len(wire) : wire[k].parent \in Nat /\ wire[k].parent <= run.id
    BY <2>1 DEF RunInv, KernelInv, Message, Ids
  <2>. QED BY <1>2, <2>1, <2>2 DEF Ids
<1>11. kernel.id < n /\ printed[n] = 0
  BY <1>2 DEF RunInv, KernelInv, RunType, Ids
<1>7. KernelInv'
  <2>1. /\ kernel'.id <= run'.id /\ kernel'.next \in {0, run'.id}
        /\ socket' # "open" => kernel' = NoKernel
    BY <1>1, <1>2, <1>4, <1>5, <1>11 DEF Ids, RunType
  <2>2. \A k \in 1 .. Len(wire') : wire'[k].parent <= run'.id
    BY <1>1, <1>2, <1>4, <1>10 DEF Message, Ids
  <2>3. \A i \in Ids : i > run'.id => printed'[i] = 0
    BY <1>1, <1>2, <1>4 DEF RunInv, KernelInv, Ids
  <2>. QED BY <2>1, <2>2, <2>3 DEF KernelInv, NoKernel
<1>8. NotBegunInv' /\ IdleInv'
  <2>1. \A k \in 1 .. Len(wire') : wire'[k].parent # n
    BY <1>1, <1>2, <1>10 DEF Message, Ids
  <2>2. kernel'.id # n /\ printed'[n] = 0
    BY <1>1, <1>2, <1>5, <1>11 DEF RunType, Ids
  <2>. QED BY <1>4, <2>1, <2>2 DEF NotBegunInv, IdleInv, IsIdle
<1>9. OutputInv'
  <2>1. \A k \in 1 .. Len(wire) : ~IsOutput(wire[k], n)
    BY <1>2, <1>10 DEF IsOutput, Message, Ids
  <2>2. Pending(wire, n) = 0
    BY <2>1, PendingNone DEF RunType
  <2>3. Pending(wire', run'.id) = 0
    BY <1>1, <1>4, <2>2
  <2>4. run'.id # 0 /\ run'.out + 0 = printed'[run'.id]
    BY <1>1, <1>2, <1>4, <1>11
  <2>. QED BY <1>4, <2>3, <2>4 DEF OutputInv
<1>. QED BY <1>1, <1>6, <1>7, <1>8, <1>9, OutsideContext DEF RunInv

\* What reading a message does to the run.
LEMMA ReadEffect ==
    ASSUME RunType, NEW m \in Message
    PROVE  /\ Read(m) \in [id : {run.id}, complete : BOOLEAN, idle : BOOLEAN, out : Nat,
                           result : {run.result, "error"}, closed : {run.closed}]
           /\ Read(m).idle <=> run.idle \/ IsIdle(m, run.id)
           /\ Read(m).out = run.out + (IF IsOutput(m, run.id) THEN 1 ELSE 0)
<1>. run.out \in Nat /\ m.type \in {"busy", "stream", "idle", "ok", "error"}
  BY SessionAssumption DEF RunType, Message
<1>1. CASE ~Ours(m)
  BY <1>1 DEF Read, Ours, RunType, IsIdle, IsOutput
<1>2. CASE Ours(m) /\ m.type = "error"
  BY <1>2 DEF Read, Ours, RunType, IsIdle, IsOutput
<1>3. CASE Ours(m) /\ m.type = "ok"
  <2>1. Read(m) = [run EXCEPT !.complete = TRUE]
    BY <1>3 DEF Read
  <2>2. /\ Read(m).complete = TRUE /\ Read(m).idle = run.idle /\ Read(m).id = run.id
        /\ Read(m).out = run.out /\ Read(m).result = run.result /\ Read(m).closed = run.closed
    BY <2>1 DEF RunType
  <2>3. Read(m) \in [id : Ids, complete : BOOLEAN, idle : BOOLEAN, out : Nat,
                     result : {None, "running", "ok", "error", "timeout", "websocket"},
                     closed : BOOLEAN]
    BY <2>1 DEF RunType
  <2>. QED BY <1>3, <2>2, <2>3 DEF Ours, IsIdle, IsOutput
<1>4. CASE Ours(m) /\ m.type = "idle"
  <2>1. Read(m) = [run EXCEPT !.idle = TRUE]
    BY <1>4 DEF Read
  <2>2. /\ Read(m).idle = TRUE /\ Read(m).complete = run.complete /\ Read(m).id = run.id
        /\ Read(m).out = run.out /\ Read(m).result = run.result /\ Read(m).closed = run.closed
    BY <2>1 DEF RunType
  <2>3. Read(m) \in [id : Ids, complete : BOOLEAN, idle : BOOLEAN, out : Nat,
                     result : {None, "running", "ok", "error", "timeout", "websocket"},
                     closed : BOOLEAN]
    BY <2>1 DEF RunType
  <2>. QED BY <1>4, <2>2, <2>3 DEF Ours, IsIdle, IsOutput
<1>5. CASE Ours(m) /\ m.type = "stream"
  BY <1>5 DEF Read, Ours, RunType, IsIdle, IsOutput
<1>6. CASE Ours(m) /\ m.type = "busy"
  BY <1>6 DEF Read, Ours, RunType, IsIdle, IsOutput
<1>. QED BY <1>1, <1>2, <1>3, <1>4, <1>5, <1>6

\* A message read: output is counted, and the end of the output is seen only
\* when nothing of it is left.
LEMMA ReceiveStep == ASSUME IInv, Receive PROVE IInv'
<1>. USE DEF IInv
<1> DEFINE n == run.id
           m == wire[1]
           t == Tail(wire)
           r == Read(m)
<1>1. UNCHANGED <<hosts, http, fetch, manager, socket, kernel, lab, printed, opened, logins, outcome>>
      /\ wire' = t /\ wire # <<>> /\ run.result = "running"
  BY DEF Receive, Unchanged_Http
<1>2. /\ t \in Seq(Message) /\ Len(t) = Len(wire) - 1 /\ Len(wire) \in Nat \ {0}
      /\ m \in Message /\ Head(wire) = m
      /\ \A k \in 1 .. Len(t) : t[k] = wire[k + 1] /\ k + 1 \in 2 .. Len(wire)
  BY <1>1 DEF RunType
<1>3. /\ r \in [id : {n}, complete : BOOLEAN, idle : BOOLEAN, out : Nat,
                result : {run.result, "error"}, closed : {run.closed}]
      /\ r.idle <=> run.idle \/ IsIdle(m, n)
      /\ r.out = run.out + (IF IsOutput(m, n) THEN 1 ELSE 0)
  BY <1>2, ReadEffect
<1> HIDE DEF r
<1>4. /\ run'.id = n /\ run'.idle = r.idle /\ run'.out = r.out /\ run'.complete = r.complete
      /\ run'.closed = run.closed /\ run'.result \in {"running", "error", "ok"}
      /\ run'.result = "ok" => r.idle
      /\ run' \in [id : {n}, complete : BOOLEAN, idle : BOOLEAN, out : {r.out},
                   result : {"running", "error", "ok"}, closed : {run.closed}]
  <2>1. run' = IF r.result = "running" /\ Over(r) THEN [r EXCEPT !.result = "ok"] ELSE r
    BY <1>2 DEF Receive, r
  <2>2. CASE r.result = "running" /\ Over(r)
    BY <1>3, <2>1, <2>2 DEF Over
  <2>3. CASE ~(r.result = "running" /\ Over(r))
    BY <1>1, <1>3, <2>1, <2>3
  <2>. QED BY <2>2, <2>3
<1>5. /\ n # 0 /\ n \in Ids /\ run.out \in Nat /\ printed[n] \in 0 .. MaxOutput
      /\ run.out + Pending(wire, n) = printed[n]
  BY <1>1, SessionAssumption DEF RunInv, OutputInv, RunType
<1>6. r.out + Pending(t, n) = printed[n] /\ Pending(t, n) \in Nat /\ r.out \in 0 .. MaxOutput
  <2>1. Pending(wire, n) = Pending(t, n) + (IF IsOutput(m, n) THEN 1 ELSE 0)
    BY <1>1, <1>2, PendingTail DEF RunType
  <2>2. Pending(t, n) \in Nat
    BY <1>2, PendingType
  <2>. QED BY <1>3, <1>5, <2>1, <2>2, SessionAssumption
<1>7. r.idle => \A k \in 1 .. Len(t) : ~IsOutput(t[k], n)
  <2>1. CASE run.idle
    BY <1>2, <2>1 DEF RunInv, IdleInv
  <2>2. CASE IsIdle(m, n)
    BY <1>2, <2>2 DEF RunInv, IdleInv
  <2>. QED BY <1>3, <2>1, <2>2
<1>8. RunType'
  <2>1. run' \in [id : Ids, complete : BOOLEAN, idle : BOOLEAN, out : 0..MaxOutput,
                  result : {None, "running", "ok", "error", "timeout", "websocket"}, closed : BOOLEAN]
    BY <1>4, <1>5, <1>6 DEF RunType
  <2>. QED BY <1>1, <1>2, <2>1 DEF RunType
<1>9. KernelInv'
  <2>1. \A k \in 1 .. Len(t) : t[k].parent <= n
    BY <1>2 DEF RunInv, KernelInv
  <2>. QED BY <1>1, <1>4, <2>1 DEF RunInv, KernelInv, NoKernel
<1>10. NotBegunInv'
  <2>1. ASSUME kernel.next = n
        PROVE  kernel.id # n /\ ~r.idle /\ printed[n] = 0 /\ \A k \in 1 .. Len(t) : t[k].parent # n
    BY <1>2, <1>3, <1>5, <2>1 DEF RunInv, NotBegunInv, IsIdle
  <2>. QED BY <1>1, <1>4, <1>5, <2>1 DEF NotBegunInv
<1>11. IdleInv'
  <2>1. ASSUME kernel.id = n, ~kernel.idle
        PROVE  ~r.idle /\ \A k \in 1 .. Len(t) : ~IsIdle(t[k], n)
    BY <1>2, <1>3, <1>5, <2>1 DEF RunInv, IdleInv
  <2>2. ASSUME NEW j \in 1 .. Len(t), IsIdle(t[j], n), NEW k \in j .. Len(t)
        PROVE  ~IsOutput(t[k], n)
    <3>1. j + 1 \in 1 .. Len(wire) /\ k + 1 \in j + 1 .. Len(wire) /\ t[j] = wire[j + 1] /\ t[k] = wire[k + 1]
      BY <1>2
    <3>. QED BY <2>2, <3>1 DEF RunInv, IdleInv
  <2>. QED BY <1>1, <1>4, <1>5, <1>7, <2>1, <2>2 DEF IdleInv
<1>12. OutputInv'
  <2>1. Pending(wire', run'.id) = Pending(t, n)
    BY <1>1, <1>4
  <2>2. r.idle => r.out = printed[n]
    <3>1. ASSUME r.idle PROVE Pending(t, n) = 0
      BY <1>2, <1>7, <3>1, PendingNone
    <3>. QED BY <1>6, <3>1
  <2>3. run'.id # 0 /\ run'.out + Pending(wire', run'.id) = printed'[run'.id]
    BY <1>1, <1>4, <1>5, <1>6, <2>1
  <2>4. run'.result = "ok" => run'.idle /\ run'.out = printed'[run'.id]
    BY <1>1, <1>4, <2>2
  <2>. QED BY <2>3, <2>4 DEF OutputInv
<1>. QED BY <1>1, <1>8, <1>9, <1>10, <1>11, <1>12, OutsideContext DEF RunInv

\* The connection is found closed, or the run is given up.
LEMMA RunEndsStep == ASSUME IInv, ReceiveEnd \/ RunTimeout PROVE IInv'
<1>. USE DEF IInv
<1>1. /\ UNCHANGED <<hosts, http, fetch, manager, wire, socket, kernel, lab, printed, opened,
                     logins, outcome>>
      /\ run' \in {[run EXCEPT !.result = "websocket", !.closed = TRUE],
                   [run EXCEPT !.result = "ok", !.closed = TRUE], [run EXCEPT !.result = "timeout"]}
  BY DEF ReceiveEnd, RunTimeout, Unchanged_Http
<1>2. /\ run'.id = run.id /\ run'.idle = run.idle /\ run'.out = run.out
      /\ run'.result # "running" /\ (run'.result = "ok" => run'.closed)
  BY <1>1 DEF RunType
<1>3. RunType'
  BY <1>1 DEF RunType
<1>4. KernelInv' /\ NotBegunInv' /\ IdleInv'
  BY <1>1, <1>2 DEF RunInv, KernelInv, NotBegunInv, IdleInv, NoKernel
<1>5. OutputInv'
  BY <1>2 DEF OutputInv
<1>. QED BY <1>1, <1>3, <1>4, <1>5, OutsideContext DEF RunInv

\* What a message sent does to the sequence of those not yet read.
LEMMA AppendMessage ==
    ASSUME NEW s \in Seq(Message), NEW m \in Message
    PROVE  /\ Append(s, m) \in Seq(Message) /\ Len(Append(s, m)) = Len(s) + 1 /\ Len(s) \in Nat
           /\ Append(s, m)[Len(s) + 1] = m
           /\ \A k \in 1 .. Len(s) : Append(s, m)[k] = s[k]
OBVIOUS

\* The kernel takes the request of the current run.
LEMMA ExecuteStep == ASSUME IInv, Execute PROVE IInv'
<1>. USE DEF IInv
<1> DEFINE n == run.id
           m == [type |-> "busy", parent |-> n]
<1>1. UNCHANGED <<hosts, http, fetch, manager, run, socket, lab, printed, opened, logins, outcome>>
  BY DEF Execute, Unchanged_Client
<1>2. n # 0 /\ n \in Ids /\ kernel.next = n /\ m \in Message
  BY DEF Execute, RunInv, KernelInv, RunType, Message
<1>3. wire' = Append(wire, m)
  BY <1>2 DEF Execute, Send
<1>4. kernel' = [id |-> n, idle |-> FALSE, replied |-> FALSE, next |-> 0]
  BY <1>2 DEF Execute, NoKernel
<1>5. /\ wire' \in Seq(Message) /\ Len(wire') = Len(wire) + 1 /\ Len(wire) \in Nat
      /\ wire'[Len(wire) + 1] = m
      /\ \A k \in 1 .. Len(wire) : wire'[k] = wire[k]
  BY <1>2, <1>3, AppendMessage DEF RunType
<1>6. /\ ~run.idle /\ \A k \in 1 .. Len(wire) : wire[k].parent # n
  BY <1>2 DEF RunInv, NotBegunInv
<1>7. RunType'
  <2>1. kernel' \in [id : Ids, idle : BOOLEAN, replied : BOOLEAN, next : Ids]
    BY <1>2, <1>4, SessionAssumption DEF Ids
  <2>. QED BY <1>1, <1>5, <2>1 DEF Execute, RunType
<1>8. KernelInv'
  <2>1. \A k \in 1 .. Len(wire') : wire'[k].parent <= n
    BY <1>2, <1>5 DEF RunInv, KernelInv, Ids
  <2>. QED BY <1>1, <1>2, <1>4, <2>1 DEF Execute, RunInv, KernelInv, Ids
<1>9. NotBegunInv'
  BY <1>1, <1>2, <1>4 DEF NotBegunInv
<1>10. IdleInv'
  <2>1. \A k \in 1 .. Len(wire') : ~IsIdle(wire'[k], n)
    BY <1>5, <1>6 DEF IsIdle
  <2>. QED BY <1>1, <1>6, <2>1 DEF IdleInv
<1>11. OutputInv'
  <2>1. Pending(wire', n) = Pending(wire, n) + 0
    BY <1>2, <1>3, PendingAppend DEF RunType, IsOutput
  <2>2. Pending(wire, n) \in Nat
    BY PendingType DEF RunType
  <2>. QED BY <1>1, <2>1, <2>2 DEF RunInv, OutputInv
<1>. QED BY <1>1, <1>7, <1>8, <1>9, <1>10, <1>11, OutsideContext DEF RunInv

\* The kernel says something about the run it executes: output only before it is
\* idle, and that it is idle only once.
LEMMA SaysSafe ==
    ASSUME RunType, RunInv, RunType', UNCHANGED <<run, socket>>, kernel.id # 0,
           NEW type \in {"busy", "stream", "idle", "ok", "error"},
           wire' = Append(wire, [type |-> type, parent |-> kernel.id]),
           printed' = [printed EXCEPT ![kernel.id] = @ + (IF type = "stream" THEN 1 ELSE 0)],
           type \in {"stream", "idle"} => ~kernel.idle,
           kernel'.id \in {kernel.id, 0}, kernel'.next = kernel.next,
           kernel'.id = kernel.id /\ ~kernel'.idle => ~kernel.idle /\ type # "idle"
    PROVE  RunInv'
<1> DEFINE n == run.id
           m == [type |-> type, parent |-> kernel.id]
<1>1. m \in Message /\ m.type = type /\ m.parent = kernel.id /\ n \in Ids /\ kernel.id \in Ids
  BY DEF RunType, Message
<1>2. /\ wire' \in Seq(Message) /\ Len(wire') = Len(wire) + 1 /\ Len(wire) \in Nat
      /\ wire'[Len(wire) + 1] = m
      /\ \A k \in 1 .. Len(wire) : wire'[k] = wire[k]
  BY <1>1, AppendMessage DEF RunType
<1>3. kernel.id <= n /\ kernel.next \in {0, n} /\ socket = "open"
  BY DEF RunInv, KernelInv, NoKernel
<1>4. kernel.id = n /\ type \in {"stream", "idle"} =>
         ~run.idle /\ \A k \in 1 .. Len(wire) : ~IsIdle(wire[k], n)
  BY DEF RunInv, IdleInv
<1>5. printed'[n] = printed[n] + (IF IsOutput(m, n) THEN 1 ELSE 0)
      /\ \A i \in Ids : i # kernel.id => printed'[i] = printed[i]
  BY <1>1 DEF IsOutput, RunType
<1>6. KernelInv'
  <2>1. \A k \in 1 .. Len(wire') : wire'[k].parent <= n
    BY <1>1, <1>2, <1>3 DEF RunInv, KernelInv
  <2>2. \A i \in Ids : i > n => printed'[i] = 0
    BY <1>1, <1>3, <1>5 DEF RunInv, KernelInv, Ids
  <2>. QED BY <1>1, <1>3, <2>1, <2>2 DEF KernelInv, Ids
<1>7. NotBegunInv'
  <2>1. ASSUME n # 0, kernel.next = n
        PROVE  /\ kernel'.id # n /\ ~run.idle /\ printed'[n] = 0
               /\ \A k \in 1 .. Len(wire') : wire'[k].parent # n
    <3>1. kernel.id # n /\ ~run.idle /\ printed[n] = 0 /\ \A k \in 1 .. Len(wire) : wire[k].parent # n
      BY <2>1 DEF RunInv, NotBegunInv
    <3>. QED BY <1>1, <1>2, <1>5, <2>1, <3>1
  <2>. QED BY <2>1 DEF NotBegunInv
<1>8. IdleInv'
  <2>1. ASSUME n # 0, kernel'.id = n, ~kernel'.idle
        PROVE  ~run.idle /\ \A k \in 1 .. Len(wire') : ~IsIdle(wire'[k], n)
    <3>1. kernel.id = n /\ ~kernel.idle /\ type # "idle"
      BY <2>1
    <3>2. ~run.idle /\ \A k \in 1 .. Len(wire) : ~IsIdle(wire[k], n)
      BY <2>1, <3>1 DEF RunInv, IdleInv
    <3>. QED BY <1>1, <1>2, <3>1, <3>2 DEF IsIdle
  <2>2. ASSUME NEW j \in 1 .. Len(wire'), IsIdle(wire'[j], n), NEW k \in j .. Len(wire')
        PROVE  ~IsOutput(wire'[k], n)
    <3>1. CASE k = Len(wire) + 1
      BY <1>1, <1>2, <1>4, <2>2, <3>1 DEF IsIdle, IsOutput
    <3>2. CASE k # Len(wire) + 1
      <4>1. j \in 1 .. Len(wire) /\ k \in j .. Len(wire)
        BY <1>2, <3>2
      <4>. QED BY <1>2, <2>2, <4>1 DEF RunInv, IdleInv
    <3>. QED BY <3>1, <3>2
  <2>3. ASSUME run.idle
        PROVE  n # 0 /\ \A k \in 1 .. Len(wire') : ~IsOutput(wire'[k], n)
    BY <1>1, <1>2, <1>4, <2>3 DEF RunInv, IdleInv, IsOutput
  <2>. QED BY <2>1, <2>2, <2>3 DEF IdleInv
<1>9. OutputInv'
  <2>1. Pending(wire', n) = Pending(wire, n) + (IF IsOutput(m, n) THEN 1 ELSE 0)
    BY <1>1, PendingAppend DEF RunType
  <2>2. Pending(wire, n) \in Nat /\ run.out \in Nat /\ printed[n] \in Nat
    BY <1>1, PendingType, SessionAssumption DEF RunType
  <2>3. run.result = "running" => n # 0 /\ run.out + Pending(wire', n) = printed'[n]
    BY <1>5, <2>1, <2>2 DEF RunInv, OutputInv
  <2>4. run.result = "ok" /\ ~run.closed => run.idle /\ run.out = printed'[n]
    <3>1. SUFFICES ASSUME run.result = "ok", ~run.closed PROVE run.idle /\ run.out = printed'[n]
      OBVIOUS
    <3>2. run.idle /\ run.out = printed[n]
      BY <3>1 DEF RunInv, OutputInv
    <3>3. ~IsOutput(m, n)
      BY <1>1, <1>4, <3>2 DEF IsOutput
    <3>. QED BY <1>5, <2>2, <3>2, <3>3
  <2>. QED BY <2>3, <2>4 DEF OutputInv
<1>. QED BY <1>6, <1>7, <1>8, <1>9 DEF RunInv

LEMMA KernelStep == ASSUME IInv, WriteOutput \/ GoIdle \/ Reply \/ SocketCloses PROVE IInv'
<1>. USE DEF IInv
<1>1. UNCHANGED <<hosts, http, fetch, manager, run, lab, opened, logins, outcome>>
  BY DEF WriteOutput, GoIdle, Reply, SocketCloses, Unchanged_Client
<1>2. CASE WriteOutput
  <2>1. /\ kernel.id # 0 /\ ~kernel.idle /\ UNCHANGED <<socket, kernel>>
        /\ wire' = Append(wire, [type |-> "stream", parent |-> kernel.id])
        /\ printed' = [printed EXCEPT ![kernel.id] = @ + 1] /\ printed[kernel.id] < MaxOutput
    BY <1>2 DEF WriteOutput, Alive, Send
  <2>2. wire' \in Seq(Message)
    BY <2>1 DEF RunType, Message
  <2>3. printed' \in [Ids -> 0 .. MaxOutput]
    BY <2>1, SessionAssumption DEF RunType
  <2>4. RunType'
    BY <1>1, <2>1, <2>2, <2>3 DEF RunType
  <2>. QED BY <1>1, <2>1, <2>4, SaysSafe, OutsideContext
<1>3. CASE GoIdle \/ Reply
  <2>1. PICK type \in {"idle", "ok", "error"} :
           /\ kernel.id # 0 /\ UNCHANGED <<socket, printed>>
           /\ wire' = Append(wire, [type |-> type, parent |-> kernel.id])
           /\ \/ type = "idle" /\ ~kernel.idle /\ kernel' = Went([kernel EXCEPT !.idle = TRUE])
              \/ type # "idle" /\ kernel' = Went([kernel EXCEPT !.replied = TRUE])
    BY <1>3 DEF GoIdle, Reply, Alive, Send
  <2>2. /\ kernel'.id \in {kernel.id, 0} /\ kernel'.next = kernel.next
        /\ kernel'.id = kernel.id /\ ~kernel'.idle => ~kernel.idle /\ type # "idle"
        /\ kernel' \in [id : Ids, idle : BOOLEAN, replied : BOOLEAN, next : Ids]
    <3> DEFINE k == IF type = "idle" THEN [kernel EXCEPT !.idle = TRUE]
                    ELSE [kernel EXCEPT !.replied = TRUE]
    <3>1. kernel' = Went(k)
      BY <2>1
    <3>2. /\ k \in [id : Ids, idle : BOOLEAN, replied : BOOLEAN, next : Ids]
          /\ k.id = kernel.id /\ k.next = kernel.next
          /\ ~k.idle => ~kernel.idle /\ type # "idle"
      BY <2>1 DEF RunType
    <3>3. Went(k) \in {k, [id |-> 0, idle |-> FALSE, replied |-> FALSE, next |-> k.next]}
      BY DEF Went, NoKernel
    <3> HIDE DEF k
    <3>4. 0 \in Ids
      BY SessionAssumption DEF Ids
    <3>5. CASE kernel' = k
      BY <3>2, <3>5
    <3>6. CASE kernel' = [id |-> 0, idle |-> FALSE, replied |-> FALSE, next |-> k.next]
      BY <2>1, <3>2, <3>4, <3>6
    <3>. QED BY <3>1, <3>3, <3>5, <3>6
  <2>3. wire' \in Seq(Message)
    BY <2>1 DEF RunType, Message
  <2>4. RunType'
    BY <1>1, <2>1, <2>2, <2>3 DEF RunType
  <2>5. printed' = [printed EXCEPT ![kernel.id] = @ + 0]
    BY <2>1, SessionAssumption DEF RunType
  <2>. QED BY <1>1, <2>1, <2>2, <2>4, <2>5, SaysSafe, OutsideContext
<1>4. CASE SocketCloses
  <2>1. /\ UNCHANGED <<wire, printed>> /\ socket' \in {"closed", "broken"}
        /\ kernel' = [id |-> 0, idle |-> FALSE, replied |-> FALSE, next |-> 0]
    BY <1>4 DEF SocketCloses, NoKernel
  <2>2. RunType'
    BY <1>1, <2>1, SessionAssumption DEF RunType, Ids
  <2>3. KernelInv'
    BY <1>1, <2>1 DEF RunInv, KernelInv, NoKernel, RunType, Ids
  <2>4. NotBegunInv' /\ IdleInv' /\ OutputInv'
    BY <1>1, <2>1 DEF RunInv, NotBegunInv, IdleInv, OutputInv
  <2>. QED BY <1>1, <2>2, <2>3, <2>4, OutsideContext DEF RunInv
<1>. QED BY <1>2, <1>3, <1>4

-----------------------------------------------------------------------------
LEMMA StepInv == IInv /\ [Next]_vars => IInv'
<1>. SUFFICES ASSUME IInv, [Next]_vars PROVE IInv'
  OBVIOUS
<1>1. CASE UNCHANGED vars
  BY <1>1, OutsideContext, SameRun DEF vars, session, IInv
<1>. QED BY <1>1, LoginStep, EnterStep, ConnectStep, CreateStep, LeaveStep, RunBeginStep, ReceiveStep,
         RunEndsStep, ExecuteStep, KernelStep DEF Next

\* Everything the properties rest on, in every state.
THEOREM Invariant == Spec => []IInv
BY InitInv, StepInv, PTL DEF Spec

\* The client and the session it has open fit together (the types of
\* _http.py and _session.py, the tokens of _extract_xsrf, and what __aexit__ says
\* of how the session ended).
THEOREM ClientConsistent == Spec => []Consistent
<1>1. IInv => Consistent
  <2>1. IInv => TypeOK
    BY DEF IInv, TypeOK, HttpInv, ContextType, RunType, Message
  <2>2. HttpInv => VisitsBounded
    BY DEF HttpInv, HttpTypeOK, VisitsInv, VisitsBounded
  <2>. QED BY <2>1, <2>2 DEF IInv, Consistent, HttpInv, ContextInv
<1>. QED BY <1>1, Invariant, PTL

\* Whatever the servers redirect to, requests go only to hosts that begin like
\* JupyterHub's or like the host taken for the lab's, and to one that begins with
\* the user's name only after a search for the lab was led to such a host
\* (_check_redirect, _find_lab_base_url).
THEOREM CredentialsSafe == Spec => []CredentialsStayInside
<1>1. IInv => CredentialsStayInside
  BY DEF IInv, HttpInv
<1>. QED BY <1>1, Invariant, PTL

\* A run that succeeds returns exactly what it printed, however the messages of
\* the kernel's channels and of earlier runs are interleaved (run_python).
THEOREM ResultsExact == Spec => []OutputExact
<1>1. IInv => OutputExact
  BY DEF IInv, RunInv, OutputInv, OutputExact
<1>. QED BY <1>1, Invariant, PTL
=============================================================================
