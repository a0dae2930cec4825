----------------------------- MODULE JupyterHttp -----------------------------
(***************************************************************************)
(* JupyterAsyncClient (client/.../_http.py), the HTTP client of a Nublado  *)
(* user's program: the base URL of the lab, which a redirect may put on a  *)
(* host of its own, the XSRF tokens of JupyterHub and of the lab, and the  *)
(* redirects it follows one at a time.  Every request carries the user's   *)
(* credentials.  The servers' answers are free.  The client knows hosts    *)
(* only by how their names begin.                                          *)
(***************************************************************************)
EXTENDS Naturals

CONSTANTS None

\* None is no host and no server.
ASSUME NoneAssumption ==
    None \notin {"hub", "user", "twin", "beyond", "outside", "lab", "other"}

VARIABLES
    hosts,    \* the hosts whose names begin with the user's: the lab's own,
              \* if labs have hosts of their own, and another
    http,     \* a JupyterAsyncClient: _lab_base_url, and whose cookie the token
              \* sent to the lab is (that for JupyterHub decides nothing)
    fetch     \* the request being made: what it is for, the URL last asked
              \* for, the URLs seen, and the local base_url; how often each
              \* URL was asked for (history, up to 4)

\* URLs: of JupyterHub, of the lab under JupyterHub's host, of the lab on its
\* own host ("<username>.labs"), of another host that begins alike
\* ("<username>.labs.more"), of a host that begins like JupyterHub's, of none of
\* these.
Urls == {"hub", "hub/user", "user/user", "twin/user", "beyond", "outside"}
Named == {"user", "twin"}
Hosts == {"hub"} \cup Named
HostOf == [u \in Urls |-> CASE u \in {"hub", "hub/user"} -> "hub"
                            [] u = "user/user" -> "user" [] u = "twin/user" -> "twin"
                            [] OTHER -> u]
LabUrl(base) == CASE base = "user" -> "user/user" [] base = "twin" -> "twin/user"
                  [] OTHER -> "hub/user"

\* Where a redirect may lead.
Targets == {u \in Urls : HostOf[u] \in Named => HostOf[u] \in hosts}

\* The server of a URL, whose token its cookie is.
Server(u) == IF u = LabUrl(IF "user" \in hosts THEN "user" ELSE "hub") THEN "lab" ELSE "other"

NewHttp == [base |-> None, lab |-> None]
NoFetch == [pc |-> "none", goal |-> None, url |-> None, base |-> None,
            seen |-> [u \in Urls |-> 0], asked |-> [u \in Urls |-> 0]]

-----------------------------------------------------------------------------
(* Helpers                                                                  *)

\* _check_redirect: the URL begins with that of JupyterHub or of the lab, which
\* need not end where its host does.  A possible mistake: no check.
InsideAlways(url, base) == TRUE
Inside(url, base) ==
    \/ HostOf[url] \in {"hub", "beyond", base}
    \/ base = "user" /\ HostOf[url] = "twin"

\* Whether a URL may be asked for again: Counter(url) counts the characters of
\* the first URL, so its first visit is not counted.
Loop(seen, url) == seen[url] > 1

\* _extract_xsrf, for a response with a cookie from this URL.
IsLab(url, base) == base # None /\ url = LabUrl(base)
Extract(h, url, base, cookie) ==
    IF cookie /\ IsLab(url, base) THEN [h EXCEPT !.lab = Server(url)] ELSE h

\* The request of a redirect's target.
Again(n) == IF n < 4 THEN n + 1 ELSE n
Asks(url) == [fetch EXCEPT !.url = url, !.seen[url] = @ + 1, !.asked[url] = Again(@)]

-----------------------------------------------------------------------------
(* A request: the caller names what it is for and what it asks for first    *)

\* _url_for a route of the lab whose base URL is not known asks for the lab's
\* page first (_find_lab_base_url); otherwise the request is made at once.
FindBegin(goal) ==
    fetch' = [NoFetch EXCEPT !.pc = "find", !.goal = goal, !.url = "hub/user", !.base = "hub",
                             !.asked["hub/user"] = 1]
GetBegin(goal, url, base) ==
    fetch' = [NoFetch EXCEPT !.pc = "get", !.goal = goal, !.url = url, !.base = base,
                             !.asked[url] = 1]

\* The base URL changes if a redirect leads to a host that begins with the
\* user's name, whether it is the lab's or not.
FindRedirect ==
    /\ fetch.pc = "find"
    /\ \E url \in Targets, cookie \in BOOLEAN :
          LET base == IF HostOf[url] \in Named THEN HostOf[url] ELSE fetch.base IN
          IF ~Inside(url, base) \/ Loop(fetch.seen, url)
            THEN /\ fetch' = [fetch EXCEPT !.pc = "failed"]
                 /\ UNCHANGED http
            ELSE /\ http' = Extract(http, fetch.url, base, cookie)
                 /\ fetch' = [Asks(url) EXCEPT !.base = base]

\* The last page: _lab_base_url is set only after its cookie is looked at.
FindEnds ==
    /\ fetch.pc = "find"
    /\ \/ \E cookie \in BOOLEAN :
             /\ http' = [Extract(http, fetch.url, http.base, cookie) EXCEPT !.base = fetch.base]
             /\ fetch' = [fetch EXCEPT !.pc = "found"]
       \/ fetch' = [fetch EXCEPT !.pc = "failed"] /\ UNCHANGED http

\* _get
GetRedirect ==
    /\ fetch.pc = "get"
    /\ \E url \in Targets, cookie \in BOOLEAN :
          /\ http' = Extract(http, fetch.url, http.base, cookie)
          /\ fetch' = IF ~Inside(url, http.base) \/ Loop(fetch.seen, url)
                      THEN [fetch EXCEPT !.pc = "failed"] ELSE Asks(url)
GetEnds ==
    /\ fetch.pc = "get"
    /\ \/ \E cookie \in BOOLEAN :
             /\ http' = Extract(http, fetch.url, http.base, cookie)
             /\ fetch' = [fetch EXCEPT !.pc = "done"]
       \/ fetch' = [fetch EXCEPT !.pc = "failed"] /\ UNCHANGED http

Fetch == FindRedirect \/ FindEnds \/ GetRedirect \/ GetEnds

HttpInit ==
    /\ hosts \in SUBSET Named
    /\ http = NewHttp /\ fetch = NoFetch

Tokens == {None, "lab", "other"}
HttpTypeOK ==
    /\ hosts \in SUBSET Named
    /\ http \in [base : Hosts \cup {None}, lab : Tokens]
    /\ fetch \in [pc : {"none", "find", "found", "get", "done", "failed"},
                  goal : {None, "hub", "lab", "create", "delete"},
                  url : Urls \cup {None}, base : Hosts \cup {None},
                  seen : [Urls -> 0..2], asked : [Urls -> 0..4]]

-----------------------------------------------------------------------------
(* Properties                                                               *)

\* Whatever the servers' redirects, the credentials are sent only to hosts that
\* begin like JupyterHub's or, once a redirect from the lab's page has led to a
\* host that begins with the user's name, like that one: outside a search for the
\* lab, or one that found such a host, no such host is asked anything
\* (_check_redirect, _find_lab_base_url).
CredentialsStayInside ==
    /\ fetch.asked["outside"] = 0
    /\ fetch.base \in {None, "hub"} => \A host \in Named : fetch.asked[LabUrl(host)] = 0

\* No chain of redirects asks for a page more than three times
\* (NubladoRedirectError: "Redirect loop").
VisitsBounded == \A u \in Urls : fetch.asked[u] <= 3

\* Where labs have no host of their own, the token sent to the lab is the lab's
\* (_extract_xsrf), though the cookie may come with any page of a chain.
LabTokenIsLabs == hosts = {} => http.lab \in {None, "lab"}

\* The credentials are sent only to JupyterHub and to the lab (get: "ensuring that
\* the redirects are relative to either the JupyterHub or JupyterLab base URLs").
\* Not so: a host that only begins like one of theirs passes for it.
OnlyHubAndLab == \A u \in Urls : fetch.asked[u] > 0 => HostOf[u] \in {"hub", "user"}
=============================================================================
