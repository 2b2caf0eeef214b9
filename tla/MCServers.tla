----------------------------- MODULE MCServers -----------------------------
(***************************************************************************)
(* Iam and Handler, small: what decides who may use the management API,    *)
(* and what its redirects do to requests.  The two share no variable, so   *)
(* that every behaviour of both is one of each beside the other: either is *)
(* explored while the other has not begun, and nothing is lost by it.      *)
(***************************************************************************)
EXTENDS Iam, Handler, TLC

Plain(h) == [name |-> h, upper |-> FALSE, padded |-> FALSE]
Upper(h) == [Plain(h) EXCEPT !.upper = TRUE]
Padded(h) == [Plain(h) EXCEPT !.padded = TRUE]
Typed(h) == {Plain(h), Upper(h), Padded(h)}

PlainCommand ==
  [source |-> Plain("a.com"), target |-> Plain("b.com"), status |-> "active",
   type |-> "301", tags |-> <<>>]
\* Every way to type the domains, and every choice of tags.
Commands ==
  [source : Typed("a.com") \cup {Plain("localhost")},
   target : Typed("b.com") \cup {Upper("a.com")},
   status : {"active", "inactive"}, type : {"301", "302"}, tags : {<<>>}]
  \cup {[PlainCommand EXCEPT !.tags = t] : t \in Tags}

PlainGet ==
  [method |-> "GET", host |-> [domain |-> Plain("a.com"), port |-> FALSE],
   path |-> <<"/">>, params |-> {}]
Hosts ==
  {Unset} \cup [domain : Typed("a.com") \cup {Plain("localhost"), Plain("-")}, port : BOOLEAN]
Paths ==
  {<<>>, <<"a">>, <<"/", "a", "a", "a", "a">>, <<"/", "a", "a", "a", "a", "a", "a", "a">>}
    \cup {<<"/">> \o p : p \in UNION {[1..n -> {"/", ".", "a"}] : n \in 0..3}
                            \cup UNION {[1..n -> Char] : n \in 1..2}}
Queries == {{}, Malformed} \cup {{p, q} : p, q \in Param}
\* Variations of a plain GET in method and host, in the path, in the query.
Requests ==
  {[PlainGet EXCEPT !.method = m, !.host = h] : m \in {"GET", "POST", "OPTIONS", "TRACE"}, h \in Hosts}
  \cup {[PlainGet EXCEPT !.path = p] : p \in Paths}
  \cup {[PlainGet EXCEPT !.params = q] : q \in Queries}
  \cup {[PlainGet EXCEPT !.params = q, !.path = <<"/", "a", "/", "a">>] : q \in {{p} : p \in Param}}

ServersInit == Init /\ HandlerInit

ServersNext ==
  \/ HandlerInit /\ Next /\ UNCHANGED handlerVars
  \/ Init /\ indexed /\ HandlerNext /\ UNCHANGED vars

ServersSpec == ServersInit /\ [][ServersNext]_<<vars, handlerVars>>

Symmetry ==
  Permutations(Caller) \cup Permutations(UserId)
    \cup Permutations(SessionId) \cup Permutations(Password)
=============================================================================
