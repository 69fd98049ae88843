------------------------------- MODULE Callers -------------------------------
(***************************************************************************)
(* Whom a request is counted for: the address of the caller (platform/peer) *)
(* and the keys of the limits (platform/ratelimit: rules, keys, middleware) *)
(* in the pipelines of both APIs (httpapi).                                *)
(*                                                                         *)
(* A request reaches the process through hops.  The proxy of the hosting    *)
(* adds the address it was called from to X-Forwarded-For; a CDN before it  *)
(* names the visitor in a header of its own; the BFF names its visitor and  *)
(* shows a secret.  What the visitor's own network wrote stays in front.    *)
(* RateLimit has the row of one key over time; here a key is what was spent *)
(* on it at one moment, and there are many of them.                        *)
(***************************************************************************)
EXTENDS EdgeClock, Sequences, FiniteSets

VARIABLES
  setup,  \* the configuration of the process
  heard,  \* heard[c]: the request c, as the pipeline has it
  spends  \* what was spent: on which key, for which visit
callers == <<setup, heard, spends>>

(* Addresses: two visitors and a node of the CDN are public.  An IPv4       *)
(* address may be written in its IPv6 form.  A network is a set of          *)
(* addresses; that of all addresses is /0.                                 *)
Public  == {"home", "work", "node"}
Addrs   == Public \cup {"proxy", "bff", "lan"}
Garbled == [ip |-> "?", six |-> FALSE]
IP(a)   == [ip |-> a, six |-> FALSE]
Six(a)  == [ip |-> a, six |-> TRUE]
Unmap(e) == IP(e.ip)

(* Whether the address lies in one of the networks.                        *)
Within(nets, e) == e.ip \in nets

-----------------------------------------------------------------------------
(* The configuration, and what keeps the process from starting.            *)
Sound(nets) == nets # Addrs
ShortSecret == "short"
OfVisitor   == {"X-Real-IP", "Forwarded"}
OfPeers     == {"X-WF-Client-IP", "X-WF-BFF-Secret", "X-WF-Device", "X-Forwarded-For"}
IsToken(h)  == h # "no token"

ValidHeader(s) ==
  s.header = "" \/ (IsToken(s.header) /\ s.header \notin OfPeers \cup OfVisitor /\ s.proxies # {})
ValidPeer(s) ==
  /\ Sound(s.proxies) /\ Sound(s.bffs)
  /\ s.bffs # {} => s.secrets # {}
  /\ ShortSecret \notin s.secrets
  /\ ValidHeader(s)

(* The rules: a policy is how many requests pass at once, or Off.  The      *)
(* overrides of the environment come one after the other.                  *)
Off == 0
Kinds == {"ip", "user", "device"}
NoPolicies == [k \in Kinds |-> Off]
DefaultClass == "default"
DefaultRules ==
  [default     |-> [ip |-> 2, user |-> 1, device |-> 1],
   auth        |-> [ip |-> 1, user |-> Off, device |-> 1],
   geo_nearest |-> [ip |-> 1, user |-> Off, device |-> Off],
   staff_auth  |-> [ip |-> 1, user |-> 1, device |-> Off]]
Base(class) == IF class \in DOMAIN DefaultRules THEN DefaultRules[class] ELSE NoPolicies
Names(i, class, kind) == i.class = class /\ i.kind = kind
ParseRules(items, class) ==
  [k \in Kinds |->
     LET named == {i \in DOMAIN items : Names(items[i], class, k)} IN
     IF named = {} THEN Base(class)[k] ELSE items[CHOOSE i \in named : \A j \in named : j <= i].burst]
Classes(s) == DOMAIN DefaultRules \cup {s.items[i].class : i \in DOMAIN s.items}
Rule(s, class) == ParseRules(s.items, IF class = "" THEN DefaultClass ELSE class)

(* The classes of the operations of each contract.                         *)
Contract(api) == {"", IF api = "public" THEN "geo_nearest" ELSE "staff_auth"}
UnknownClasses(s) == (Contract(s.api) \ {""}) \ Classes(s)
StrayClasses(s)   == Classes(s) \ (DOMAIN DefaultRules \cup Contract(s.api))

ValidAllowlist(s) == Sound(s.allow)
PublicStarts(s) == s.api = "public" /\ ValidPeer(s) /\ UnknownClasses(s) = {} /\ StrayClasses(s) = {}
AdminStarts(s)  == s.api = "admin" /\ ValidPeer(s) /\ ValidAllowlist(s) /\ UnknownClasses(s) = {} /\ StrayClasses(s) = {}

Settings ==
  LET Open   == [api |-> "public", routes |-> {<<>>}, proxies |-> {}, bffs |-> {}, secrets |-> {},
                 header |-> "", allow |-> {}, items |-> <<>>]
      Hosted == [Open EXCEPT !.routes = {<<"proxy">>, <<"bff", "proxy">>, <<"bff">>}, !.proxies = {"proxy"},
                             !.bffs = {"bff"}, !.secrets = {"next", "current"}]
      Cdn    == [Hosted EXCEPT !.routes = {<<"node", "proxy">>, <<"bff", "proxy">>}, !.header = "CF-Connecting-IP"]
      Admin  == [Cdn EXCEPT !.api = "admin", !.routes = {<<"node", "proxy">>}, !.bffs = {}, !.secrets = {}]
  IN {Open, Hosted, Cdn, Admin, [Admin EXCEPT !.allow = {"work"}],
      [Open EXCEPT !.header = "CF-Connecting-IP"], [Hosted EXCEPT !.header = "X-Real-IP"],
      [Hosted EXCEPT !.header = "no token"], [Hosted EXCEPT !.proxies = Addrs], [Hosted EXCEPT !.secrets = {}],
      [Hosted EXCEPT !.secrets = {"current", ShortSecret}], [Admin EXCEPT !.allow = Addrs],
      [Open EXCEPT !.items = <<[class |-> "geo_nearest", kind |-> "ip", burst |-> 2]>>],
      [Open EXCEPT !.items = <<[class |-> "default", kind |-> "device", burst |-> Off]>>],
      [Open EXCEPT !.items = <<[class |-> "geo_naerest", kind |-> "ip", burst |-> 2]>>]}

-----------------------------------------------------------------------------
(* The visits, and the message as the hops leave it.                       *)
Nobody == 0
Priors == {<<>>, <<IP("lan"), IP("work")>>, <<IP("work"), Garbled>>, <<IP("home"), IP("proxy")>>}
Visits(s) ==
  LET limited == CHOOSE k \in Contract(s.api) : k # ""
      direct  == CHOOSE r \in s.routes : "bff" \notin {r[i] : i \in DOMAIN r}
  IN [from : {"home", "work"}, six : {FALSE}, prior : Priors, route : {direct},
      who : {Nobody}, device : {""}, label : {""}, class : {limited}]
     \cup [from : {"home", "work"}, six : {TRUE}, prior : {<<>>}, route : s.routes,
           who : {Nobody}, device : {""}, label : {""}, class : {limited}]
     \cup [from : {"home"}, six : {FALSE}, prior : {<<>>}, route : {direct},
           who : {1, 2}, device : IF s.api = "public" THEN {"d1", "d2"} ELSE {""}, label : {""}, class : {""}]
     \cup [from : {"home", "work"}, six : {FALSE}, prior : {<<>>}, route : s.routes \ {direct},
           who : {Nobody}, device : {""}, label : {"d1", "too long"}, class : {""}]

(* A hop calls the next one under its own address.  The proxy adds to the   *)
(* list; the CDN writes its header over; the BFF sends a request of its own. *)
Headers(v) == [remote |-> [ip |-> v.from, six |-> v.six], forwarded |-> v.prior, cdn |-> <<>>,
               real |-> IF v.prior = <<>> THEN <<>> ELSE <<v.prior[1]>>,
               client |-> Garbled, secret |-> "", device |-> ""]
Hop(m, hop, v) ==
  CASE hop = "proxy" -> [m EXCEPT !.forwarded = Append(m.forwarded, m.remote), !.remote = Six("proxy")]
    [] hop = "node"  -> [m EXCEPT !.forwarded = Append(m.forwarded, m.remote), !.cdn = <<m.remote>>, !.remote = IP("node")]
    [] hop = "bff"   -> [m EXCEPT !.forwarded = <<>>, !.cdn = <<>>, !.real = <<>>, !.client = m.remote,
                                  !.secret = "next", !.device = v.label, !.remote = IP("bff")]
Message(v) ==
  LET r == v.route IN
  IF Len(r) = 0 THEN Headers(v)
  ELSE IF Len(r) = 1 THEN Hop(Headers(v), r[1], v)
  ELSE Hop(Hop(Headers(v), r[1], v), r[2], v)

-----------------------------------------------------------------------------
(* peer: the address of the connection; from a trusted proxy, the header of *)
(* the CDN if it is one public address, else X-Forwarded-For from the right *)
(* up to the first address that is not trusted.                            *)
PeerAddr(m) == Unmap(m.remote)
HeaderOf(m, h) == CASE h = "CF-Connecting-IP" -> m.cdn [] h = "X-Real-IP" -> m.real [] OTHER -> <<>>
FromCDN(values) == Len(values) = 1 /\ Unmap(values[1]).ip \in Public
ForwardedFromLeft(hops, trusted, last) == IF hops[1] = Garbled THEN last ELSE Unmap(hops[1])
Forwarded(hops, trusted, last) ==
  LET ends == {i \in DOMAIN hops : hops[i] = Garbled \/ ~Within(trusted, Unmap(hops[i]))}
      end  == CHOOSE i \in ends : \A j \in ends : j <= i
  IN IF ends = {} THEN Unmap(hops[1])
     ELSE IF hops[end] # Garbled THEN Unmap(hops[end])
     ELSE IF end = Len(hops) THEN last ELSE Unmap(hops[end + 1])

SecretOK(got, secrets) == got # "" /\ got \in secrets
Device(s) == IF s = "too long" THEN "" ELSE s
Resolve(s, m) ==
  LET cdn   == HeaderOf(m, s.header)
      peer  == PeerAddr(m)
      addr  == IF ~Within(s.proxies, peer) THEN peer
               ELSE IF FromCDN(cdn) THEN Unmap(cdn[1])
               ELSE IF m.forwarded # <<>> THEN Forwarded(m.forwarded, s.proxies, peer) ELSE peer
      ofBFF == Within(s.bffs, addr) /\ SecretOK(m.secret, s.secrets) /\ m.client # Garbled
  IN IF ofBFF THEN [ip |-> Unmap(m.client), device |-> Device(m.device)] ELSE [ip |-> addr, device |-> ""]

(* ADMIN_IP_ALLOWLIST; an empty one lets everybody in.                     *)
Allowed(s, info) == s.allow = {} \/ Within(s.allow, Unmap(info.ip))

(* The keys.                                                               *)
IPKey(class, ip)            == <<"ip", class, ip>>
SubjectKey(class, kind, id) == <<kind, class, id>>
DeviceKey(class, label)     == <<"device", class, label>>
SessionDeviceKeyUnmarked(class, id) == DeviceKey(class, <<"b", id>>)
SessionDeviceKey(class, id) == DeviceKey(class, <<"s", id>>)
BFFDeviceKey(class, label)  == DeviceKey(class, <<"b", label>>)

(* The subject of the request: a player has a device, an employee none.     *)
SubjectKind(s) == IF s.api = "admin" THEN "staff" ELSE "user"
Checks(s, v, info) ==
  LET rule  == Rule(s, v.class)
      class == IF v.class = "" THEN DefaultClass ELSE v.class
      device == IF v.who # Nobody /\ v.device # "" THEN <<SessionDeviceKey(class, v.device)>>
                ELSE IF info.device # "" THEN <<BFFDeviceKey(class, info.device)>> ELSE <<>>
      Check(key, kind) == [key |-> key, kind |-> kind, burst |-> rule[kind]]
  IN <<Check(IPKey(class, info.ip), "ip")>>
     \o (IF v.who = Nobody THEN <<>> ELSE <<Check(SubjectKey(class, SubjectKind(s), v.who), "user")>>)
     \o [i \in DOMAIN device |-> Check(device[i], "device")]

-----------------------------------------------------------------------------
Absent == [pc |-> "absent"]

CallersTypeOK ==
  /\ setup \in Settings
  /\ \A c \in Clients : heard[c].pc \in {"absent", "checks", "passed", "unchecked", "refused", "outside"}
  /\ \A e \in spends : e.n \in Nat

CallersInit ==
  /\ setup \in Settings /\ (PublicStarts(setup) \/ AdminStarts(setup))
  /\ plan.part # "callers" => setup.routes = {<<>>} /\ setup.items = <<>>
  /\ heard = [c \in Clients |-> Absent] /\ spends = {}

(* A request has come to the process: who it is from, whether it is let in, *)
(* and the limits to ask.                                                  *)
Arrive(c, v) ==
  LET info == Resolve(setup, Message(v)) IN
  /\ Arrival("callers") /\ heard[c] = Absent
  /\ heard' = [heard EXCEPT ![c] =
       [pc |-> IF Allowed(setup, info) THEN "checks" ELSE "outside", n |-> left, v |-> v,
        checks |-> Checks(setup, v, info)]]
  /\ UNCHANGED <<setup, spends>>

(* Allow, key after key; a policy that is off asks nothing.                *)
Spent(key) == {e \in spends : e.key = key}
OneLess(c) == [heard[c] EXCEPT !.checks = Tail(heard[c].checks),
                             !.pc = IF Len(heard[c].checks) = 1 THEN "passed" ELSE "checks"]
Allowance(c) ==
  LET k == heard[c].checks[1] IN
  /\ heard[c].pc = "checks" /\ (k.burst = Off \/ Cardinality(Spent(k.key)) < k.burst)
  /\ spends' = IF k.burst = Off THEN spends ELSE spends \cup {[n |-> heard[c].n, v |-> heard[c].v, key |-> k.key]}
  /\ heard' = [heard EXCEPT ![c] = OneLess(c)] /\ UNCHANGED <<clock, setup>>
Limited(c) ==
  LET k == heard[c].checks[1] IN
  /\ heard[c].pc = "checks" /\ k.burst # Off /\ Cardinality(Spent(k.key)) >= k.burst
  /\ heard' = [heard EXCEPT ![c].pc = "refused"] /\ UNCHANGED <<clock, setup, spends>>

(* The store is not available: the request passes, the rest is not asked.   *)
Unavailable(c) ==
  heard[c].pc = "checks" /\ heard' = [heard EXCEPT ![c].pc = "unchecked"] /\ UNCHANGED <<clock, setup, spends>>

CallersNext ==
  \E c \in Clients : (\E v \in Visits(setup) : Arrive(c, v)) \/ Allowance(c) \/ Limited(c) \/ Unavailable(c)

-----------------------------------------------------------------------------
(* Whatever way a request comes and whatever was written in front of it:    *)
(* who is refused has used up a limit of their own address, account or      *)
(* device, who passes has not, and the allowlist is asked of the address    *)
(* the visitor has.  The limit is what the last override says, or the       *)
(* default (fewer requests than a limit need no answer here: one client     *)
(* asks once).                                                             *)
Whose(kind, v) ==
  CASE kind = "ip" -> v.from
    [] kind = "user" -> v.who
    [] kind = "device" -> IF v.device # "" THEN <<"session", v.device>> ELSE <<"label", v.label>>
Known(kind, v) == CASE kind = "ip" -> TRUE [] kind = "user" -> v.who # Nobody
                    [] kind = "device" -> v.device # "" \/ Device(v.label) # ""
Shares(kind, v, w) == v.class = w.class /\ Whose(kind, v) = Whose(kind, w)
InForce(class, kind) ==
  LET key   == IF class = "" THEN "default" ELSE class
      named == {i \in DOMAIN setup.items : setup.items[i].class = key /\ setup.items[i].kind = kind}
  IN IF named = {} THEN DefaultRules[key][kind] ELSE setup.items[CHOOSE i \in named : \A j \in named : j <= i].burst
CountedApart ==
  \A c \in Clients :
    LET r == heard[c] IN
    /\ r.pc = "refused" =>
         LET k == r.checks[1] IN
         /\ \A e \in Spent(k.key) : Shares(k.kind, e.v, r.v)
         /\ InForce(r.v.class, k.kind) <= Cardinality(Spent(k.key))
    /\ r.pc = "passed" =>
         \A kind \in Kinds :
           InForce(r.v.class, kind) # Off /\ Known(kind, r.v) =>
             Cardinality({d \in Clients : heard[d].pc = "passed" /\ Known(kind, heard[d].v) /\ Shares(kind, heard[d].v, r.v)})
               <= InForce(r.v.class, kind)
    /\ r.pc # "absent" /\ setup.allow # {} => (r.pc = "outside" <=> r.v.from \notin setup.allow)
==============================================================================
