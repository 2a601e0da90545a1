---------------------------- MODULE DialogProofs ----------------------------
(***************************************************************************)
(* Theorems about Confirmation, for any links, rules, payloads and answers *)
(* of the engine, and any number of copies, edits and probes; then about   *)
(* Updater, for any number of clicks, downloads and events.                *)
(***************************************************************************)
EXTENDS Confirmation, Updater, TLAPS

\* A state of the window, with its calls, as the effects work on it.
Good(s) ==
  /\ s = [w |-> s.w, probes |-> s.probes, naming |-> s.naming]
  /\ s.w \in Window
  /\ BagToSet(s.probes) \subseteq Snapshot
  /\ s.naming \subseteq Url

\* What is in a bag after something was added or removed.
LEMMA InBags ==
  /\ BagToSet(EmptyBag) = {}
  /\ \A bag, x : BagToSet(BagAdd(bag, x)) = BagToSet(bag) \cup {x}
  /\ \A bag, x : BagToSet(BagRemove(bag, x)) \subseteq BagToSet(bag)
BY DEF BagToSet, EmptyBag, SetToBag, BagAdd, BagRemove

\* Constants of the types the window's record speaks of.
LEMMA Links ==
  /\ NoUrl \notin Url /\ HasName \subseteq Url
  /\ \A u \in Url : Kind[u] \in Protocol /\ Served[u] \subseteq Protocol
BY ConstantsAssumption

\* A change of the window's record, of the calls or of the names under way.
LEMMA Changed ==
  ASSUME NEW s, Good(s), NEW v \in Window, NEW p, NEW n
  PROVE  /\ [s EXCEPT !.w = v] = [w |-> v, probes |-> s.probes, naming |-> s.naming]
         /\ [s EXCEPT !.w = v, !.probes = p] = [w |-> v, probes |-> p, naming |-> s.naming]
         /\ [s EXCEPT !.w = v, !.naming = n] = [w |-> v, probes |-> s.probes, naming |-> n]
<1>1. [s EXCEPT !.w = v] = [w |-> v, probes |-> s.probes, naming |-> s.naming]
  BY DEF Good
<1> DEFINE t == [s EXCEPT !.w = v]
<1>a. /\ [s EXCEPT !.w = v, !.probes = p] = [t EXCEPT !.probes = p]
      /\ [s EXCEPT !.w = v, !.naming = n] = [t EXCEPT !.naming = n]
  OBVIOUS
<1>b. t = [w |-> v, probes |-> s.probes, naming |-> s.naming]
  BY <1>1
<1> HIDE DEF t
<1>2. [s EXCEPT !.w = v, !.probes = p] = [w |-> v, probes |-> p, naming |-> s.naming]
  BY <1>a, <1>b
<1>3. [s EXCEPT !.w = v, !.naming = n] = [w |-> v, probes |-> s.probes, naming |-> n]
  BY <1>a, <1>b
<1> QED
  BY <1>1, <1>2, <1>3

\* What a probe that starts leaves alone.
LEMMA Starts ==
  ASSUME NEW s, Good(s), NEW c \in Snapshot
  PROVE  /\ Good(Start(s, c))
         /\ Start(s, c).w = [s.w EXCEPT !.lastKey = KeyOf(c), !.inFlight = TRUE, !.fetching = TRUE]
         /\ Start(s, c).naming = s.naming
         /\ BagToSet(Start(s, c).probes) = BagToSet(s.probes) \cup {c}
<1> DEFINE v == [s.w EXCEPT !.lastKey = KeyOf(c), !.inFlight = TRUE, !.fetching = TRUE]
<1>1. Start(s, c) = [s EXCEPT !.w = v, !.probes = BagAdd(s.probes, c)]
  BY Zenon DEF Start
<1>2. KeyOf(c) \in Key
  BY DEF KeyOf, Key, Snapshot
<1>3. v \in Window
  BY <1>2 DEF Good, Window
<1> HIDE DEF v
<1>4. Start(s, c) = [w |-> v, probes |-> BagAdd(s.probes, c), naming |-> s.naming]
  BY <1>1, <1>3, Changed
<1>5. BagToSet(Start(s, c).probes) = BagToSet(s.probes) \cup {c}
  BY <1>4, InBags
<1> QED
  BY <1>3, <1>4, <1>5 DEF Good, v

\* What a probe leaves alone: all but the size and what the window knows of its calls.
Alike(v, u) ==
  /\ v.url = u.url /\ v.protocol = u.protocol /\ v.rules = u.rules
  /\ v.cookie = u.cookie /\ v.manual = u.manual /\ v.evaluated = u.evaluated
  /\ v.site = u.site /\ v.path = u.path /\ v.custom = u.custom /\ v.name = u.name
  /\ v.urlTimer = u.urlTimer /\ v.credTimer = u.credTimer

\* A probe is started, answered from the cache, or left to the one under way.
LEMMA Probes ==
  ASSUME NEW s, Good(s), NEW c \in Snapshot, NEW force \in BOOLEAN
  PROVE  LET r == Probe(s, c, force) IN
         /\ Good(r) /\ Alike(r.w, s.w) /\ r.naming = s.naming
         /\ \/ /\ BagToSet(r.probes) = BagToSet(s.probes) \cup {c}
               /\ r.w.fetched = s.w.fetched /\ r.w.size = s.w.size
            \/ /\ ~force /\ r.probes = s.probes
               /\ r.w.fetched /\ r.w.size = c.url
               /\ r.w.fetching = s.w.fetching /\ r.w.inFlight = s.w.inFlight
            \/ ~force /\ r = s /\ s.w.inFlight
<1> DEFINE skip == ~force /\ (KeyOf(c) = s.w.lastKey \/ s.w.inFlight)
           v == [s.w EXCEPT !.size = c.url, !.fetched = TRUE]
<1>1. CASE skip /\ KeyOf(c) \in s.w.cache
  <2>0. Probe(s, c, force) = [s EXCEPT !.w = v]
    BY <1>1 DEF Probe
  <2>2. v \in Window
    BY DEF Good, Window, Snapshot
  <2>3. Alike(v, s.w) /\ v.fetched /\ v.size = c.url /\ v.fetching = s.w.fetching
        /\ v.inFlight = s.w.inFlight
    BY DEF Good, Window, Alike
  <2> HIDE DEF v
  <2>1. Probe(s, c, force) = [w |-> v, probes |-> s.probes, naming |-> s.naming]
    BY <2>0, <2>2, Changed
  <2> QED
    BY <1>1, <2>1, <2>2, <2>3 DEF Good
<1>2. CASE skip /\ KeyOf(c) \notin s.w.cache /\ s.w.inFlight
  BY <1>2 DEF Probe, Alike
<1>3. CASE ~skip \/ (KeyOf(c) \notin s.w.cache /\ ~s.w.inFlight)
  <2>1. Probe(s, c, force) = Start(s, c)
    BY <1>3 DEF Probe
  <2> DEFINE x == [s.w EXCEPT !.lastKey = KeyOf(c), !.inFlight = TRUE, !.fetching = TRUE]
  <2>2. Alike(x, s.w) /\ x.fetched = s.w.fetched /\ x.size = s.w.size
    BY DEF Good, Window, Alike
  <2>3. Start(s, c).w = x
    BY Starts
  <2>4. /\ Good(Start(s, c)) /\ Start(s, c).naming = s.naming
        /\ BagToSet(Start(s, c).probes) = BagToSet(s.probes) \cup {c}
    BY Starts
  <2> HIDE DEF x
  <2> QED
    BY <2>1, <2>2, <2>3, <2>4
<1> QED
  BY <1>1, <1>2, <1>3
-----------------------------------------------------------------------------
\* The effects, and what each leaves alone.

\* What the cookies' effect leaves alone.
Kept(v, u) ==
  /\ v.url = u.url /\ v.protocol = u.protocol /\ v.rules = u.rules
  /\ v.path = u.path /\ v.custom = u.custom /\ v.name = u.name
  /\ v.urlTimer = u.urlTimer /\ v.credTimer = u.credTimer
  /\ v.fetched = u.fetched /\ v.size = u.size

\* It asks nothing, or about what the window shows.
Asks(r, s) ==
  \/ /\ r.probes = s.probes
     /\ r.w.fetching = s.w.fetching /\ r.w.inFlight = s.w.inFlight
  \/ \E c \in Snapshot :
       /\ c.url = s.w.url /\ c.was = s.w.protocol /\ c.custom = s.w.custom
       /\ BagToSet(r.probes) = BagToSet(s.probes) \cup {c}

\* The cookies were last set as the rules said, unless by hand.
Judged(v) == ~v.manual => v.evaluated \in {{}, {v.cookie}}
Ruled(v) == v.url \in Url /\ ~v.manual => v.cookie = ~Bypassed(v.url, v.protocol, v.rules)

\* What a callback captures of a URL in the box.
LEMMA Captured ==
  ASSUME NEW v \in Window, v.url # NoUrl
  PROVE  /\ Closure(v) \in Snapshot
         /\ \A x \in BOOLEAN : [Closure(v) EXCEPT !.cookie = x] \in Snapshot
         /\ \A x \in BOOLEAN : LET c == [Closure(v) EXCEPT !.cookie = x] IN
              c.url = v.url /\ c.was = v.protocol /\ c.custom = v.custom
BY DEF Closure, Window, Snapshot

\* The cookies' effect: it changes what it may, asks only about what the window shows, and
\* leaves the cookies as the rules say when they were last set so.
LEMMA CookieEffects ==
  ASSUME NEW s, Good(s)
  PROVE  LET r == CookieEffect(s) IN
         /\ Good(r) /\ Kept(r.w, s.w) /\ Asks(r, s) /\ r.naming = s.naming
         /\ Judged(s.w) => Judged(r.w) /\ Ruled(r.w)
<1>1. CASE s.w.url = NoUrl
  BY <1>1, Links DEF CookieEffect, Kept, Asks, Ruled
<1>2. CASE s.w.url # NoUrl
  <2> DEFINE v == NewSite(s.w)
             ruled == ~Bypassed(v.url, v.protocol, v.rules)
             x == [v EXCEPT !.evaluated = {ruled}, !.cookie = ruled]
             c == [Closure(v) EXCEPT !.cookie = ruled]
  <2>1. v \in Window /\ Kept(v, s.w) /\ v.fetching = s.w.fetching /\ v.inFlight = s.w.inFlight
        /\ v.cookie = s.w.cookie
        /\ (Judged(s.w) => Judged(v))
    <3>1. CASE s.w.site = Site[s.w.url]
      BY <3>1 DEF NewSite, Kept, Good
    <3>2. CASE s.w.site # Site[s.w.url]
      <4>1. v = [s.w EXCEPT !.site = Site[s.w.url], !.manual = FALSE, !.evaluated = {}]
        BY <3>2 DEF NewSite
      <4>2. s.w.url \in Url
        BY <1>2 DEF Good, Window
      <4>3. s.w \in Window
        BY DEF Good
      <4> HIDE DEF v
      <4> QED
        BY <4>1, <4>2, <4>3 DEF Window, Kept, Judged
    <3> QED
      BY <3>1, <3>2
  <2>2. ruled \in BOOLEAN
    BY DEF Bypassed
  <2>3. x \in Window /\ Kept(x, v) /\ x.fetching = v.fetching /\ x.inFlight = v.inFlight
        /\ x.cookie = ruled /\ x.evaluated = {ruled} /\ x.manual = v.manual
    <3> HIDE DEF v, ruled
    <3> QED
      BY <2>1, <2>2, ZenonT(90) DEF Window, Kept
  <2>4. v.url # NoUrl
    BY <1>2, <2>1 DEF Kept
  <2>5. c \in Snapshot /\ c.url = v.url /\ c.was = v.protocol /\ c.custom = v.custom
    <3> HIDE DEF v, ruled
    <3> QED
      BY <2>1, <2>2, <2>4, Captured
  <2>6. CASE v.manual \/ v.evaluated = {ruled}
    <3>1. CookieEffect(s) = [s EXCEPT !.w = v]
      BY <1>2, <2>6 DEF CookieEffect
    <3>2. Judged(v) => Ruled(v)
      <4> SUFFICES ASSUME ~v.manual, Judged(v) PROVE v.cookie = ruled
        BY DEF Ruled
      <4>1. v.evaluated = {v.cookie}
        BY <2>6 DEF Judged
      <4> HIDE DEF v, ruled
      <4> QED
        BY <2>6, <4>1
    <3> HIDE DEF v
    <3>3. CookieEffect(s) = [w |-> v, probes |-> s.probes, naming |-> s.naming]
      BY <2>1, <3>1, Changed
    <3> QED
      BY <2>1, <3>2, <3>3 DEF Good, Asks
  <2>7. CASE ~(v.manual \/ v.evaluated = {ruled})
    <3> DEFINE t == [s EXCEPT !.w = x]
    <3>1. CookieEffect(s) = Probe(t, c, TRUE)
      BY <1>2, <2>7 DEF CookieEffect
    <3>2. t = [w |-> x, probes |-> s.probes, naming |-> s.naming]
      <4> HIDE DEF x
      <4> QED
        BY <2>3, Changed
    <3>3. Good(t) /\ t.w = x /\ t.probes = s.probes /\ t.naming = s.naming
      <4> HIDE DEF x, t
      <4> QED
        BY <2>3, <3>2 DEF Good
    <3>4. Ruled(x)
      <4>1. x.url = v.url /\ x.protocol = v.protocol /\ x.rules = v.rules /\ x.cookie = ruled
        BY <2>3 DEF Kept
      <4> HIDE DEF x, v
      <4> QED
        BY <4>1 DEF Ruled
    <3> DEFINE r == Probe(t, c, TRUE)
    <3>5. /\ Good(r) /\ Alike(r.w, x) /\ r.naming = s.naming
          /\ BagToSet(r.probes) = BagToSet(s.probes) \cup {c}
          /\ r.w.fetched = x.fetched /\ r.w.size = x.size
      <4> HIDE DEF c, t, x
      <4>1. /\ Good(r) /\ Alike(r.w, t.w) /\ r.naming = t.naming
            /\ BagToSet(r.probes) = BagToSet(t.probes) \cup {c}
            /\ r.w.fetched = t.w.fetched /\ r.w.size = t.w.size
        BY <2>5, <3>3, Probes
      <4> HIDE DEF r
      <4> QED
        BY <3>3, <4>1
    <3> HIDE DEF r, x, v, c, ruled, t
    <3>6. Kept(r.w, s.w)
      BY <2>1, <2>3, <3>5 DEF Kept, Alike
    <3>7. Asks(r, s)
      BY <2>1, <2>5, <3>5 DEF Asks, Kept
    <3>8. Ruled(r.w) /\ Judged(r.w)
      BY <2>3, <3>4, <3>5 DEF Alike, Ruled, Judged
    <3> QED
      BY <3>1, <3>5, <3>6, <3>7, <3>8 DEF r
  <2> QED
    BY <2>6, <2>7
<1> QED
  BY <1>1, <1>2

\* The protocol the effect of the URL sets stays when the effect runs again.
LEMMA ProtocolSticks ==
  /\ \A u \in Url, p \in Protocol : NextProtocol(u, p) \in Protocol
  /\ \A u, p : NextProtocol(u, NextProtocol(u, p)) = NextProtocol(u, p)
BY DEF NextProtocol, Protocol

\* What the effect of the URL leaves alone.
Told(v, u) ==
  /\ v.url = u.url /\ v.rules = u.rules /\ v.cookie = u.cookie /\ v.manual = u.manual
  /\ v.evaluated = u.evaluated /\ v.custom = u.custom
  /\ v.size = u.size /\ v.fetching = u.fetching /\ v.inFlight = u.inFlight

Named0(r, s) ==
  /\ r.w.protocol = NextProtocol(s.w.url, s.w.protocol)
  /\ r.w.path = IF s.w.custom THEN s.w.path ELSE "folder"
  /\ r.w.urlTimer = [on |-> TRUE, custom |-> s.w.custom]
  /\ r.w.name = s.w.name /\ r.w.fetched = s.w.fetched
  /\ r.naming = s.naming \cup {CleanName(s.w)}

Emptied(r, s) ==
  /\ r.w.protocol = s.w.protocol
  /\ r.w.path = IF s.w.custom THEN s.w.path ELSE "folder"
  /\ r.w.urlTimer = Off
  /\ r.naming = s.naming

Nameless(r, s) ==
  /\ r.w.protocol = s.w.protocol
  /\ r.w.urlTimer = Off
  /\ r.naming = s.naming

\* The effect of the URL: which of its cases applies, and what that sets.
LEMMA UrlEffects ==
  ASSUME NEW s, Good(s)
  PROVE  LET r == UrlEffect(s) IN
         /\ Good(r) /\ Told(r.w, s.w) /\ r.probes = s.probes
         /\ r.w.credTimer = s.w.credTimer
         /\ s.w.url = NoUrl => Emptied(r, s)
         /\ s.w.url \in HasName => Named0(r, s)
         /\ s.w.url \in Url \ HasName => Named0(r, s) \/ Nameless(r, s)
<1> DEFINE v == s.w
           path == IF v.custom THEN v.path ELSE "folder"
<1>0. v \in Window /\ path \in {"folder", "picked"}
  BY DEF Good, Window
<1>1. CASE v.url = NoUrl
  <2> DEFINE x == [v EXCEPT !.name = NoUrl, !.path = path, !.urlTimer = Off]
  <2>1. UrlEffect(s) = [s EXCEPT !.w = x]
    BY <1>1, Zenon DEF UrlEffect
  <2>2. x \in Window /\ Told(x, v) /\ x.credTimer = v.credTimer /\ x.protocol = v.protocol
        /\ x.path = path /\ x.urlTimer = Off
    <3> HIDE DEF path, v
    <3> QED
      BY <1>0, ZenonT(90) DEF Window, Told
  <2> HIDE DEF x, path
  <2>3. UrlEffect(s) = [w |-> x, probes |-> s.probes, naming |-> s.naming]
    BY <2>1, <2>2, Changed
  <2>4. v.url \notin Url /\ v.url \notin HasName
    BY <1>1, Links
  <2> QED
    BY <2>2, <2>3, <2>4 DEF Good, Emptied, path
<1>2. CASE v.url # NoUrl /\ Named(v.url, v.protocol)
  <2> DEFINE p == NextProtocol(v.url, v.protocol)
             timer == [on |-> TRUE, custom |-> v.custom]
             x == [v EXCEPT !.protocol = p, !.path = path, !.urlTimer = timer]
             n == s.naming \cup {CleanName(v)}
  <2>1. UrlEffect(s) = [s EXCEPT !.w = x, !.naming = n]
    BY <1>2, Zenon DEF UrlEffect
  <2>2. p \in Protocol
    BY <1>0, <1>2, ProtocolSticks DEF Window
  <2>3. timer \in [on : {TRUE}, custom : BOOLEAN]
    BY <1>0 DEF Window
  <2>4. n \subseteq Url
    BY <1>0, <1>2 DEF Good, CleanName, Window
  <2>5. x \in Window /\ Told(x, v) /\ x.credTimer = v.credTimer /\ x.protocol = p
        /\ x.path = path /\ x.urlTimer = timer /\ x.name = v.name /\ x.fetched = v.fetched
    <3> HIDE DEF path, v, p, timer
    <3> QED
      BY <1>0, <2>2, <2>3, ZenonT(90) DEF Window, Told
  <2> HIDE DEF x, path, n
  <2>6. UrlEffect(s) = [w |-> x, probes |-> s.probes, naming |-> n]
    BY <2>1, <2>5, Changed
  <2> QED
    BY <1>2, <2>4, <2>5, <2>6 DEF Good, Named0, path, n
<1>3. CASE v.url # NoUrl /\ ~Named(v.url, v.protocol)
  <2> DEFINE x == [v EXCEPT !.name = NoUrl, !.path = "folder", !.fetched = FALSE,
                            !.urlTimer = Off]
  <2>1. UrlEffect(s) = [s EXCEPT !.w = x]
    BY <1>3, Zenon DEF UrlEffect
  <2>2. x \in Window /\ Told(x, v) /\ x.credTimer = v.credTimer /\ x.protocol = v.protocol
        /\ x.urlTimer = Off
    <3> HIDE DEF v
    <3> QED
      BY <1>0, ZenonT(90) DEF Window, Told
  <2> HIDE DEF x
  <2>3. UrlEffect(s) = [w |-> x, probes |-> s.probes, naming |-> s.naming]
    BY <2>1, <2>2, Changed
  <2>4. v.url \notin HasName
    BY <1>3 DEF Named
  <2> QED
    BY <1>3, <2>2, <2>3, <2>4 DEF Good, Nameless
<1> QED
  BY <1>1, <1>2, <1>3

\* The effect of the cookies on the credentials' timer.
LEMMA CredEffects ==
  ASSUME NEW s, Good(s)
  PROVE  LET r == CredEffect(s) IN
         /\ Good(r) /\ r.probes = s.probes /\ r.naming = s.naming
         /\ Told(r.w, s.w)
         /\ r.w.protocol = s.w.protocol /\ r.w.path = s.w.path /\ r.w.name = s.w.name
         /\ r.w.urlTimer = s.w.urlTimer /\ r.w.fetched = s.w.fetched
         /\ \/ r.w.credTimer = Off
            \/ r.w.credTimer = [on |-> TRUE, url |-> s.w.url, protocol |-> s.w.protocol,
                                custom |-> s.w.custom]
<1> DEFINE v == s.w
           timer == IF v.url = NoUrl THEN Off
                    ELSE [on |-> TRUE, url |-> v.url, protocol |-> v.protocol,
                          custom |-> v.custom]
           x == [v EXCEPT !.credTimer = timer]
<1>0. v \in Window
  BY DEF Good
<1>1. timer \in {Off} \cup [on : {TRUE}, url : Url, protocol : Protocol, custom : BOOLEAN]
  <2> HIDE DEF v
  <2> QED
    BY <1>0 DEF Window
<1>2. CredEffect(s) = [s EXCEPT !.w = x]
  BY Zenon DEF CredEffect
<1>3. x \in Window /\ x.credTimer = timer /\ x.protocol = v.protocol /\ x.path = v.path
      /\ x.name = v.name /\ x.urlTimer = v.urlTimer /\ x.fetched = v.fetched
  <2> HIDE DEF v, timer
  <2> QED
    BY <1>0, <1>1, ZenonT(90) DEF Window
<1>4. Told(x, v)
  <2> HIDE DEF v, timer
  <2> QED
    BY <1>0, <1>1 DEF Told, Window
<1> HIDE DEF x
<1>5. CredEffect(s) = [w |-> x, probes |-> s.probes, naming |-> s.naming]
  BY <1>2, <1>3, Changed
<1> QED
  BY <1>3, <1>4, <1>5 DEF Good
-----------------------------------------------------------------------------
\* What a handler's change becomes.

Moves(s, fresh) ==
  fresh \/ <<w.url, w.protocol, w.cookie>> # <<s.w.url, s.w.protocol, s.w.cookie>>

\* The rounds of effects it goes through.
LEMMA Rounds ==
  ASSUME NEW s, Good(s), NEW fresh \in BOOLEAN, Becomes(s, fresh)
  PROVE  \E a, b, c, d, e :
           /\ Good(a) /\ Good(b) /\ Good(c) /\ Good(d) /\ Good(e)
           /\ \/ Moves(s, fresh) /\ a = CookieEffect(s) /\ b = UrlEffect(a)
              \/ ~Moves(s, fresh) /\ a = s /\ b = s
           /\ \/ b.w.protocol # a.w.protocol /\ c = CookieEffect(b) /\ d = UrlEffect(c)
              \/ b.w.protocol = a.w.protocol /\ c = b /\ d = b
           /\ e = CredEffect(d) \/ e = d
           /\ S' = e
<1> DEFINE a == IF Moves(s, fresh) THEN CookieEffect(s) ELSE s
           b == IF Moves(s, fresh) THEN UrlEffect(a) ELSE a
           c == IF b.w.protocol # a.w.protocol THEN CookieEffect(b) ELSE b
           d == IF b.w.protocol # a.w.protocol THEN UrlEffect(c) ELSE c
           e == IF w.cookie # d.w.cookie THEN CredEffect(d) ELSE d
<1>1. w' = e.w /\ probes' = e.probes /\ naming' = e.naming
  BY DEF Becomes, Moves
<1>2. Good(a)
  BY CookieEffects
<1> HIDE DEF a
<1>3. Good(b)
  BY <1>2, UrlEffects
<1> HIDE DEF b
<1>4. Good(c)
  BY <1>3, CookieEffects
<1> HIDE DEF c
<1>5. Good(d)
  BY <1>4, UrlEffects
<1> HIDE DEF d
<1>6. Good(e)
  BY <1>5, CredEffects
<1> HIDE DEF e
<1>7. S' = e
  BY <1>1, <1>6 DEF S, Good
<1> WITNESS a, b, c, d, e
<1>8. \/ Moves(s, fresh) /\ a = CookieEffect(s) /\ b = UrlEffect(a)
      \/ ~Moves(s, fresh) /\ a = s /\ b = s
  BY DEF a, b
<1>9. \/ b.w.protocol # a.w.protocol /\ c = CookieEffect(b) /\ d = UrlEffect(c)
      \/ b.w.protocol = a.w.protocol /\ c = b /\ d = b
  BY DEF c, d
<1>10. e = CredEffect(d) \/ e = d
  BY DEF e
<1> QED
  BY <1>2, <1>3, <1>4, <1>5, <1>6, <1>7, <1>8, <1>9, <1>10

\* What holds of every state of the window: its types; that what looks like a probe
\* under way is one; and how the cookies were last set.
Sane(s) ==
  /\ Good(s)
  /\ s.w.fetching \/ s.w.inFlight => BagToSet(s.probes) # {}
  /\ Judged(s.w)

\* The effects keep it.
LEMMA EffectsSane ==
  ASSUME NEW s, Sane(s)
  PROVE  Sane(CookieEffect(s)) /\ Sane(UrlEffect(s)) /\ Sane(CredEffect(s))
<1>0. Good(s)
  BY DEF Sane
<1>1. Sane(CookieEffect(s))
  <2> DEFINE r == CookieEffect(s)
  <2>1. Good(r) /\ Asks(r, s) /\ Judged(r.w)
    BY <1>0, CookieEffects DEF Sane
  <2>2. r.w.fetching \/ r.w.inFlight => BagToSet(r.probes) # {}
    <3> HIDE DEF r
    <3> QED
      BY <2>1 DEF Asks, Sane
  <2> QED
    BY <2>1, <2>2 DEF Sane
<1>2. Sane(UrlEffect(s))
  BY <1>0, UrlEffects DEF Sane, Told, Judged
<1>3. Sane(CredEffect(s))
  BY <1>0, CredEffects DEF Sane, Told, Judged
<1> QED
  BY <1>1, <1>2, <1>3

\* So does every change a handler makes.
LEMMA BecomesSane ==
  ASSUME NEW s, Sane(s), NEW fresh \in BOOLEAN, Becomes(s, fresh)
  PROVE  Sane(S')
<1>1. Good(s)
  BY DEF Sane
<1>2. PICK a, b, c, d, e :
        /\ a \in {CookieEffect(s), s} /\ b \in {UrlEffect(a), a}
        /\ c \in {CookieEffect(b), b} /\ d \in {UrlEffect(c), c}
        /\ e \in {CredEffect(d), d}
        /\ S' = e
  BY <1>1, Rounds
<1>3. Sane(a) BY <1>2, EffectsSane
<1>4. Sane(b) BY <1>2, <1>3, EffectsSane
<1>5. Sane(c) BY <1>2, <1>4, EffectsSane
<1>6. Sane(d) BY <1>2, <1>5, EffectsSane
<1> QED
  BY <1>2, <1>6, EffectsSane

\* A timer of the URL's effect has a URL to ask about.
Timed(s) == s.w.urlTimer.on => s.w.url \in Url

\* It does so after every change that runs the effect of the URL again.
LEMMA BecomesTimed ==
  ASSUME NEW s, Good(s), NEW fresh \in BOOLEAN, Becomes(s, fresh),
         Moves(s, fresh) \/ Timed(s)
  PROVE  Timed(S')
<1>1. PICK a, b, c, d, e :
        /\ Good(a) /\ Good(b) /\ Good(c) /\ Good(d) /\ Good(e)
        /\ \/ Moves(s, fresh) /\ a = CookieEffect(s) /\ b = UrlEffect(a)
           \/ ~Moves(s, fresh) /\ a = s /\ b = s
        /\ c \in {CookieEffect(b), b} /\ d \in {UrlEffect(c), c}
        /\ e \in {CredEffect(d), d}
        /\ S' = e
  BY Rounds
<1>2. \A x : Good(x) => Timed(UrlEffect(x))
  <2> SUFFICES ASSUME NEW x, Good(x) PROVE Timed(UrlEffect(x))
    OBVIOUS
  <2> DEFINE r == UrlEffect(x)
  <2>1. /\ Told(r.w, x.w)
        /\ x.w.url = NoUrl => Emptied(r, x)
        /\ x.w.url \in Url \ HasName => Named0(r, x) \/ Nameless(r, x)
    BY UrlEffects
  <2>2. x.w.url \in Url \cup {NoUrl}
    BY DEF Good, Window
  <2> HIDE DEF r
  <2>3. Timed(r)
    BY <2>1, <2>2, Links DEF Timed, Emptied, Nameless, Told, Off
  <2> QED
    BY <2>3 DEF r
<1>3. \A x : Good(x) /\ Timed(x) => Timed(CookieEffect(x)) /\ Timed(CredEffect(x))
  BY CookieEffects, CredEffects DEF Timed, Kept, Told
<1>4. Timed(b) BY <1>1, <1>2
<1>5. Timed(c) BY <1>1, <1>3, <1>4
<1>6. Timed(d) BY <1>1, <1>2, <1>5
<1> QED
  BY <1>1, <1>3, <1>6

-----------------------------------------------------------------------------
\* What the handlers make of the window before the effects run.

\* Putting a record in the window leaves the calls and the names alone.
LEMMA Puts ==
  ASSUME Good(S), NEW v \in Window
  PROVE  LET r == [S EXCEPT !.w = v] IN
         Good(r) /\ r.w = v /\ r.probes = probes /\ r.naming = naming
BY Changed DEF S, Good

\* Putting a record in the window and asking: the three ends of Probe.
LEMMA Asked ==
  ASSUME Good(S), NEW v \in Window, NEW c \in Snapshot, NEW force \in BOOLEAN
  PROVE  LET r == Probe([S EXCEPT !.w = v], c, force) IN
         /\ Good(r) /\ Alike(r.w, v) /\ r.naming = naming
         /\ \/ /\ BagToSet(r.probes) = BagToSet(probes) \cup {c}
               /\ r.w.fetched = v.fetched /\ r.w.size = v.size
            \/ /\ ~force /\ r.probes = probes
               /\ r.w.fetched /\ r.w.size = c.url
               /\ r.w.fetching = v.fetching /\ r.w.inFlight = v.inFlight
            \/ /\ ~force /\ v.inFlight /\ r.w = v /\ r.probes = probes
<1> DEFINE t == [S EXCEPT !.w = v]
           r == Probe(t, c, force)
<1>1. Good(t) /\ t.w = v /\ t.probes = probes /\ t.naming = naming
  BY Puts
<1> HIDE DEF t
<1>2. /\ Good(r) /\ Alike(r.w, t.w) /\ r.naming = t.naming
      /\ \/ /\ BagToSet(r.probes) = BagToSet(t.probes) \cup {c}
            /\ r.w.fetched = t.w.fetched /\ r.w.size = t.w.size
         \/ /\ ~force /\ r.probes = t.probes
            /\ r.w.fetched /\ r.w.size = c.url
            /\ r.w.fetching = t.w.fetching /\ r.w.inFlight = t.w.inFlight
         \/ ~force /\ r = t /\ t.w.inFlight
  BY <1>1, Probes
<1> HIDE DEF r
<1>3. /\ Good(r) /\ Alike(r.w, v) /\ r.naming = naming
      /\ \/ /\ BagToSet(r.probes) = BagToSet(probes) \cup {c}
            /\ r.w.fetched = v.fetched /\ r.w.size = v.size
         \/ /\ ~force /\ r.probes = probes
            /\ r.w.fetched /\ r.w.size = c.url
            /\ r.w.fetching = v.fetching /\ r.w.inFlight = v.inFlight
         \/ /\ ~force /\ v.inFlight /\ r.w = v /\ r.probes = probes
  BY <1>1, <1>2
<1> QED
  BY <1>3 DEF r, t

\* A handler that changes neither how the cookies were set nor what is under way.
LEMMA HandlerSane ==
  ASSUME Sane(S), NEW v \in Window, Judged(v),
         v.fetching = w.fetching, v.inFlight = w.inFlight
  PROVE  /\ Sane([S EXCEPT !.w = v])
         /\ \A c \in Snapshot, force \in BOOLEAN : Sane(Probe([S EXCEPT !.w = v], c, force))
<1>0. Good(S) /\ (w.fetching \/ w.inFlight => BagToSet(probes) # {})
  BY DEF Sane, S
<1>1. Sane([S EXCEPT !.w = v])
  BY <1>0, Puts DEF Sane
<1>2. ASSUME NEW c \in Snapshot, NEW force \in BOOLEAN
      PROVE  Sane(Probe([S EXCEPT !.w = v], c, force))
  <2> DEFINE r == Probe([S EXCEPT !.w = v], c, force)
  <2>1. /\ Good(r) /\ Alike(r.w, v)
        /\ \/ BagToSet(r.probes) = BagToSet(probes) \cup {c}
           \/ /\ r.probes = probes
              /\ r.w.fetching = v.fetching /\ r.w.inFlight = v.inFlight
    BY <1>0, Asked
  <2> HIDE DEF r
  <2>2. Judged(r.w)
    BY <2>1 DEF Alike, Judged
  <2>3. Sane(r)
    BY <1>0, <2>1, <2>2 DEF Sane
  <2> QED
    BY <2>3 DEF r
<1> QED
  BY <1>1, <1>2
-----------------------------------------------------------------------------
\* What the effects make of the cookies, the folder, the calls and the names.

\* The cookies follow the rules after every change, the protocol's by an effect included.
LEMMA BecomesRuled ==
  ASSUME NEW s, Sane(s), NEW fresh \in BOOLEAN, Becomes(s, fresh),
         Moves(s, fresh) \/ Ruled(s.w)
  PROVE  Ruled(w')
<1>0. Good(s)
  BY DEF Sane
<1>1. PICK a, b, c, d, e :
        /\ Good(a) /\ Good(b) /\ Good(c) /\ Good(d) /\ Good(e)
        /\ \/ Moves(s, fresh) /\ a = CookieEffect(s) /\ b = UrlEffect(a)
           \/ ~Moves(s, fresh) /\ a = s /\ b = s
        /\ \/ b.w.protocol # a.w.protocol /\ c = CookieEffect(b) /\ d = UrlEffect(c)
           \/ b.w.protocol = a.w.protocol /\ c = b /\ d = b
        /\ e = CredEffect(d) \/ e = d
        /\ S' = e
  BY <1>0, Rounds
<1>2. \A x : Sane(x) => Ruled(CookieEffect(x).w)
  BY CookieEffects DEF Sane
<1>3. \A x : Good(x) /\ Ruled(x.w) /\ UrlEffect(x).w.protocol = x.w.protocol
               => Ruled(UrlEffect(x).w)
  BY UrlEffects DEF Ruled, Told
<1>4. Sane(a) /\ Ruled(a.w)
  BY <1>1, <1>2, EffectsSane
<1>5. Sane(b)
  BY <1>1, <1>4, EffectsSane
<1>6. Ruled(d.w)
  <2>1. CASE b.w.protocol = a.w.protocol
    BY <1>1, <1>3, <1>4, <2>1
  <2>2. CASE b.w.protocol # a.w.protocol
    <3>1. b = UrlEffect(a) /\ c = CookieEffect(b) /\ d = UrlEffect(c)
      BY <1>1, <2>2
    <3>2. b.w.protocol = NextProtocol(a.w.url, a.w.protocol) /\ b.w.url = a.w.url
      <4>1. /\ Told(b.w, a.w)
            /\ a.w.url = NoUrl => Emptied(b, a)
            /\ a.w.url \in HasName => Named0(b, a)
            /\ a.w.url \in Url \ HasName => Named0(b, a) \/ Nameless(b, a)
        BY <1>1, <3>1, UrlEffects
      <4>2. a.w.url \in Url \cup {NoUrl}
        BY <1>1 DEF Good, Window
      <4> QED
        BY <2>2, <4>1, <4>2 DEF Told, Emptied, Named0, Nameless
    <3>3. c.w.protocol = b.w.protocol /\ c.w.url = a.w.url /\ Ruled(c.w)
      BY <1>1, <1>2, <1>5, <3>1, <3>2, CookieEffects DEF Kept
    <3>4. d.w.protocol = c.w.protocol
      <4>1. /\ c.w.url = NoUrl => Emptied(d, c)
            /\ c.w.url \in HasName => Named0(d, c)
            /\ c.w.url \in Url \ HasName => Named0(d, c) \/ Nameless(d, c)
        BY <1>1, <3>1, UrlEffects
      <4>2. c.w.url \in Url \cup {NoUrl}
        BY <1>1 DEF Good, Window
      <4>3. NextProtocol(c.w.url, c.w.protocol) = c.w.protocol
        BY <3>2, <3>3, ProtocolSticks
      <4> QED
        BY <4>1, <4>2, <4>3 DEF Emptied, Named0, Nameless
    <3> QED
      BY <1>1, <1>3, <3>1, <3>3, <3>4
  <2> QED
    BY <2>1, <2>2
<1>7. Ruled(e.w)
  <2>1. \A x : Good(x) => Told(CredEffect(x).w, x.w) /\ CredEffect(x).w.protocol = x.w.protocol
    BY CredEffects
  <2>2. Told(e.w, d.w) /\ e.w.protocol = d.w.protocol
    BY <1>1, <2>1 DEF Told
  <2> QED
    BY <1>6, <2>2 DEF Ruled, Told
<1> QED
  BY <1>1, <1>7 DEF S

\* The picked folder stands, and nothing that was started before will replace it.
Standing(s) ==
  /\ s.w.custom /\ s.w.path = "picked" /\ s.w.url \in HasName \cup {NoUrl}
  /\ \A c \in BagToSet(s.probes) : c.custom
  /\ s.w.urlTimer.on => s.w.urlTimer.custom
  /\ s.w.credTimer.on => s.w.credTimer.custom

\* No effect unpicks it.
LEMMA BecomesStanding ==
  ASSUME NEW s, Good(s), Standing(s), NEW fresh \in BOOLEAN, Becomes(s, fresh)
  PROVE  Standing(S')
<1>1. PICK a, b, c, d, e :
        /\ Good(a) /\ Good(b) /\ Good(c) /\ Good(d) /\ Good(e)
        /\ a \in {CookieEffect(s), s} /\ b \in {UrlEffect(a), a}
        /\ c \in {CookieEffect(b), b} /\ d \in {UrlEffect(c), c}
        /\ e \in {CredEffect(d), d}
        /\ S' = e
  BY Rounds
<1>2. \A x : Good(x) /\ Standing(x) => Standing(CookieEffect(x))
  <2> SUFFICES ASSUME NEW x, Good(x), Standing(x) PROVE Standing(CookieEffect(x))
    OBVIOUS
  <2> DEFINE r == CookieEffect(x)
  <2>1. Kept(r.w, x.w) /\ Asks(r, x)
    BY CookieEffects
  <2> HIDE DEF r
  <2>2. \A y \in BagToSet(r.probes) : y.custom
    BY <2>1 DEF Asks, Standing
  <2>3. Standing(r)
    BY <2>1, <2>2 DEF Kept, Standing
  <2> QED
    BY <2>3 DEF r
<1>3. \A x : Good(x) /\ Standing(x) => Standing(UrlEffect(x))
  <2> SUFFICES ASSUME NEW x, Good(x), Standing(x) PROVE Standing(UrlEffect(x))
    OBVIOUS
  <2> DEFINE r == UrlEffect(x)
  <2>1. /\ Told(r.w, x.w) /\ r.probes = x.probes /\ r.w.credTimer = x.w.credTimer
        /\ x.w.url = NoUrl => Emptied(r, x)
        /\ x.w.url \in HasName => Named0(r, x)
    BY UrlEffects
  <2> HIDE DEF r
  <2>2. r.w.path = "picked" /\ (r.w.urlTimer.on => r.w.urlTimer.custom)
    BY <2>1 DEF Emptied, Named0, Standing, Off
  <2>3. Standing(r)
    BY <2>1, <2>2 DEF Told, Standing
  <2> QED
    BY <2>3 DEF r
<1>4. \A x : Good(x) /\ Standing(x) => Standing(CredEffect(x))
  <2> SUFFICES ASSUME NEW x, Good(x), Standing(x) PROVE Standing(CredEffect(x))
    OBVIOUS
  <2> DEFINE r == CredEffect(x)
  <2>1. /\ Told(r.w, x.w) /\ r.probes = x.probes /\ r.w.path = x.w.path
        /\ r.w.urlTimer = x.w.urlTimer
        /\ \/ r.w.credTimer = Off
           \/ r.w.credTimer = [on |-> TRUE, url |-> x.w.url, protocol |-> x.w.protocol,
                               custom |-> x.w.custom]
    BY CredEffects
  <2> HIDE DEF r
  <2>2. r.w.credTimer.on => r.w.credTimer.custom
    BY <2>1 DEF Standing, Off
  <2>3. Standing(r)
    BY <2>1, <2>2 DEF Told, Standing
  <2> QED
    BY <2>3 DEF r
<1>5. Standing(a) BY <1>1, <1>2
<1>6. Standing(b) BY <1>1, <1>3, <1>5
<1>7. Standing(c) BY <1>1, <1>2, <1>6
<1>8. Standing(d) BY <1>1, <1>3, <1>7
<1> QED
  BY <1>1, <1>4, <1>8

\* What is under way asks about the URL in the box.
About(s) ==
  /\ s.w.url \in HasName
  /\ \A c \in BagToSet(s.probes) : c.url = s.w.url
  /\ s.w.credTimer.on => s.w.credTimer.url = s.w.url

\* The size shown as fetched is that URL's, or will be asked for.
Sized(s) == s.w.fetched => s.w.size = s.w.url \/ s.w.urlTimer.on \/ BagToSet(s.probes) # {}

\* The effects ask about nothing else, and a change of what they read asks again.
LEMMA BecomesAbout ==
  ASSUME NEW s, Good(s), About(s), NEW fresh \in BOOLEAN, Becomes(s, fresh)
  PROVE  About(S') /\ (Moves(s, fresh) \/ Sized(s) => Sized(S'))
<1>1. PICK a, b, c, d, e :
        /\ Good(a) /\ Good(b) /\ Good(c) /\ Good(d) /\ Good(e)
        /\ \/ Moves(s, fresh) /\ a = CookieEffect(s) /\ b = UrlEffect(a)
           \/ ~Moves(s, fresh) /\ a = s /\ b = s
        /\ c \in {CookieEffect(b), b} /\ d \in {UrlEffect(c), c}
        /\ e \in {CredEffect(d), d}
        /\ S' = e
  BY Rounds
<1>2. \A x : Good(x) /\ About(x) => /\ About(CookieEffect(x))
                                    /\ Sized(x) => Sized(CookieEffect(x))
  <2> SUFFICES ASSUME NEW x, Good(x), About(x)
               PROVE  About(CookieEffect(x)) /\ (Sized(x) => Sized(CookieEffect(x)))
    OBVIOUS
  <2> DEFINE r == CookieEffect(x)
  <2>1. Kept(r.w, x.w) /\ Asks(r, x)
    BY CookieEffects
  <2> HIDE DEF r
  <2>2. \A y \in BagToSet(r.probes) : y.url = x.w.url
    BY <2>1 DEF Asks, About
  <2>3. About(r)
    BY <2>1, <2>2 DEF Kept, About
  <2>4. BagToSet(x.probes) # {} => BagToSet(r.probes) # {}
    BY <2>1 DEF Asks
  <2>5. Sized(x) => Sized(r)
    BY <2>1, <2>4 DEF Kept, Sized
  <2> QED
    BY <2>3, <2>5 DEF r
<1>3. \A x : Good(x) /\ About(x) => About(UrlEffect(x)) /\ Sized(UrlEffect(x))
  <2> SUFFICES ASSUME NEW x, Good(x), About(x)
               PROVE  About(UrlEffect(x)) /\ Sized(UrlEffect(x))
    OBVIOUS
  <2> DEFINE r == UrlEffect(x)
  <2>1. /\ Told(r.w, x.w) /\ r.probes = x.probes /\ r.w.credTimer = x.w.credTimer
        /\ x.w.url \in HasName => Named0(r, x)
    BY UrlEffects
  <2> HIDE DEF r
  <2>2. About(r)
    BY <2>1 DEF Told, About
  <2>3. Sized(r)
    <3>1. r.w.urlTimer = [on |-> TRUE, custom |-> x.w.custom]
      BY <2>1 DEF Named0, About
    <3>2. r.w.urlTimer.on = TRUE
      BY <3>1
    <3> QED
      BY <3>2 DEF Sized
  <2> QED
    BY <2>2, <2>3 DEF r
<1>4. \A x : Good(x) /\ About(x) => /\ About(CredEffect(x))
                                    /\ Sized(x) => Sized(CredEffect(x))
  <2> SUFFICES ASSUME NEW x, Good(x), About(x)
               PROVE  About(CredEffect(x)) /\ (Sized(x) => Sized(CredEffect(x)))
    OBVIOUS
  <2> DEFINE r == CredEffect(x)
  <2>1. /\ Told(r.w, x.w) /\ r.probes = x.probes /\ r.w.fetched = x.w.fetched
        /\ r.w.urlTimer = x.w.urlTimer
        /\ \/ r.w.credTimer = Off
           \/ r.w.credTimer = [on |-> TRUE, url |-> x.w.url, protocol |-> x.w.protocol,
                               custom |-> x.w.custom]
    BY CredEffects
  <2> HIDE DEF r
  <2>2. About(r)
    BY <2>1 DEF About, Told, Off
  <2>3. Sized(x) => Sized(r)
    BY <2>1 DEF Told, Sized
  <2> QED
    BY <2>2, <2>3 DEF r
<1>5. About(a) BY <1>1, <1>2
<1>6. About(b) /\ (Moves(s, fresh) \/ Sized(s) => Sized(b))
  BY <1>1, <1>3, <1>5
<1>7. About(c) /\ (Sized(b) => Sized(c)) BY <1>1, <1>2, <1>6
<1>8. About(d) /\ (Sized(c) => Sized(d)) BY <1>1, <1>3, <1>7
<1> QED
  BY <1>1, <1>4, <1>6, <1>7, <1>8

\* No effect changes the box or unpicks a folder.
LEMMA BecomesBox ==
  ASSUME NEW s, Good(s), NEW fresh \in BOOLEAN, Becomes(s, fresh)
  PROVE  w'.url = s.w.url /\ w'.custom = s.w.custom
<1>1. PICK a, b, c, d, e :
        /\ Good(a) /\ Good(b) /\ Good(c) /\ Good(d) /\ Good(e)
        /\ a \in {CookieEffect(s), s} /\ b \in {UrlEffect(a), a}
        /\ c \in {CookieEffect(b), b} /\ d \in {UrlEffect(c), c}
        /\ e \in {CredEffect(d), d}
        /\ S' = e
  BY Rounds
<1>2. \A x : Good(x) => /\ CookieEffect(x).w.url = x.w.url
                        /\ CookieEffect(x).w.custom = x.w.custom
  BY CookieEffects DEF Kept
<1>3. \A x : Good(x) => UrlEffect(x).w.url = x.w.url /\ UrlEffect(x).w.custom = x.w.custom
  BY UrlEffects DEF Told
<1>4. \A x : Good(x) => CredEffect(x).w.url = x.w.url /\ CredEffect(x).w.custom = x.w.custom
  BY CredEffects DEF Told
<1> QED
  BY <1>1, <1>2, <1>3, <1>4 DEF S

-----------------------------------------------------------------------------
\* The inductive invariant.

\* The types of what is not the window's own state.
Rest ==
  /\ payload \in Payloads /\ unread \in 0..Copies
  /\ loaded \in BOOLEAN /\ open \in BOOLEAN
  /\ BagToSet(sending) \subseteq [url : Url, cookie : BOOLEAN, path : {"folder", "picked"}]
  /\ edits \in 0..MaxEdits
  /\ calm \in [url : BOOLEAN, path : BOOLEAN]

\* A folder picked while nothing was under way stands, with no payload or settings left
\* to come.
Placed == w.custom /\ calm.path => Standing(S) /\ unread = 0 /\ loaded

\* With a URL put in the box while nothing was under way, everything under way asks
\* about it, and a size of another URL is not what stays.
Asking == calm.url /\ w.url \in HasName => About(S) /\ Sized(S)

\* None of the properties is inductive alone: each speaks of what is shown, and what
\* will be shown depends on the probes and timers under way.
Inv == Rest /\ Sane(S) /\ Timed(S) /\ Ruled(w) /\ Placed /\ Asking

\* The invariant has the types in it.
LEMMA InvTypes == Inv => TypeOK
BY DEF Inv, Rest, Sane, Good, S, TypeOK

\* What a handler must see to, before the effects, for the invariant to hold after them.
LEMMA Handled ==
  ASSUME NEW s, NEW fresh \in BOOLEAN, Becomes(s, fresh), Rest', Sane(s),
         Moves(s, fresh) \/ (Timed(s) /\ Ruled(s.w)),
         s.w.custom /\ calm'.path => Standing(s) /\ unread' = 0 /\ loaded',
         calm'.url /\ s.w.url \in HasName => About(s) /\ (Moves(s, fresh) \/ Sized(s))
  PROVE  Inv'
<1>1. Good(s)
  BY DEF Sane
<1>2. w'.url = s.w.url /\ w'.custom = s.w.custom
  BY <1>1, BecomesBox
<1>3. Sane(S')
  BY BecomesSane
<1>4. Timed(S') /\ Ruled(w')
  BY <1>1, BecomesTimed, BecomesRuled
<1>5. Placed'
  BY <1>1, <1>2, BecomesStanding DEF Placed
<1>6. Asking'
  BY <1>1, <1>2, BecomesAbout DEF Asking
<1> QED
  BY <1>3, <1>4, <1>5, <1>6 DEF Inv
-----------------------------------------------------------------------------
\* The steps.

\* What changes of the window leave to the calls and to what it says of them.
Calls(v) ==
  /\ v.fetching = w.fetching /\ v.inFlight = w.inFlight
  /\ v.fetched = w.fetched /\ v.size = w.size

\* The invariant taken apart, for the leaves that need one piece of it.
LEMMA Facts ==
  ASSUME Inv
  PROVE  /\ Rest /\ Sane(S) /\ Timed(S) /\ Ruled(w) /\ Placed /\ Asking
         /\ Good(S) /\ w \in Window /\ BagToSet(probes) \subseteq Snapshot
         /\ S.w = w /\ S.probes = probes /\ S.naming = naming
         /\ Judged(w) /\ (w.inFlight => BagToSet(probes) # {})
BY DEF Inv, Sane, Good, S

\* A bag that is empty has nothing under way in it.
LEMMA Nothing == Idle => BagToSet(probes) = {} /\ ~w.urlTimer.on /\ ~w.credTimer.on
BY InBags DEF Idle

\* The settings are loaded: the effects run anew, whatever they find.
LEMMA EngineLoadedInv == ASSUME Inv, EngineLoaded PROVE Inv'
<1> DEFINE v == LoadInitialEngineAndQueues(w)
           s == [S EXCEPT !.w = v]
<1>0. Sane(S) /\ Good(S) /\ w \in Window /\ Judged(w) /\ Rest /\ Placed /\ Asking
      /\ S.w = w /\ S.probes = probes
  BY Facts
<1>1. v \in Window /\ Calls(v) /\ Judged(v) /\ v.custom = w.custom /\ v.url = w.url
      /\ v.credTimer = w.credTimer
  BY <1>0 DEF LoadInitialEngineAndQueues, Window, Calls, Judged, Rules
<1>2. Becomes(s, TRUE) /\ ~loaded /\ loaded' = TRUE /\ calm' = calm /\ Rest'
  BY <1>0 DEF EngineLoaded, Rest
<1> HIDE DEF v
<1>3. Sane(s) /\ s.w = v /\ s.probes = probes
  BY <1>0, <1>1, HandlerSane, Puts DEF Calls
<1> HIDE DEF s
<1>4. Moves(s, TRUE) BY DEF Moves
<1>5. s.w.custom /\ calm'.path => Standing(s) /\ unread' = 0 /\ loaded'
  BY <1>0, <1>1, <1>2, <1>3 DEF Placed
<1>6. calm'.url /\ s.w.url \in HasName => About(s)
  BY <1>0, <1>1, <1>2, <1>3 DEF Asking, About
<1> QED
  BY <1>2, <1>3, <1>4, <1>5, <1>6, Handled

\* The payload put in the window, before its probe and the effects.
LEMMA Applied ==
  ASSUME Inv
  PROVE  LET v == [w EXCEPT !.rules = "loaded", !.path = "folder", !.manual = FALSE,
                            !.evaluated = {payload.cookie}, !.cookie = payload.cookie,
                            !.url = payload.url, !.protocol = PayloadProtocol(@)]
             c == [url |-> payload.url, protocol |-> PayloadProtocol("Auto"), was |-> "Auto",
                   cookie |-> payload.cookie, custom |-> FALSE]
         IN /\ v \in Window /\ Calls(v) /\ Judged(v) /\ v.custom = w.custom
            /\ v.url = payload.url /\ v.credTimer = w.credTimer
            /\ v.protocol = PayloadProtocol(w.protocol)
            /\ c \in Snapshot /\ c.url = payload.url /\ c.was = "Auto"
<1> DEFINE k == payload.cookie
           p == PayloadProtocol(w.protocol)
           y == [w EXCEPT !.rules = "loaded", !.path = "folder", !.manual = FALSE,
                          !.url = payload.url, !.protocol = p]
           x == [y EXCEPT !.evaluated = {k}, !.cookie = k]
<1>1. w \in Window /\ payload.url \in Url /\ k \in BOOLEAN
      /\ p \in Protocol /\ PayloadProtocol("Auto") \in Protocol
  BY Facts, ConstantsAssumption DEF Rest, PayloadProtocol, Window, Protocol
<1>2. y \in Window /\ Calls(y) /\ y.custom = w.custom /\ y.url = payload.url
      /\ y.credTimer = w.credTimer /\ y.protocol = p
  <2> HIDE DEF p
  <2>1. y \in Window
    BY <1>1, ZenonT(90) DEF Window, Rules
  <2> QED
    BY <1>1, <2>1 DEF Window, Calls
<1>3. x \in Window /\ x.fetching = y.fetching /\ x.inFlight = y.inFlight
      /\ x.fetched = y.fetched /\ x.size = y.size
      /\ x.custom = y.custom /\ x.url = y.url /\ x.credTimer = y.credTimer
      /\ x.protocol = y.protocol /\ x.cookie = k /\ x.evaluated = {k}
  <2> HIDE DEF y, k
  <2>1. x \in Window
    BY <1>1, <1>2, ZenonT(90) DEF Window
  <2> QED
    BY <1>1, <1>2, <2>1 DEF Window
<1>4. "Auto" \in Protocol
  BY DEF Protocol
<1>5. x = [w EXCEPT !.rules = "loaded", !.path = "folder", !.manual = FALSE,
                    !.evaluated = {payload.cookie}, !.cookie = payload.cookie,
                    !.url = payload.url, !.protocol = PayloadProtocol(@)]
  BY <1>1 DEF Window
<1> HIDE DEF x, y, p
<1>6. Calls(x) /\ Judged(x)
  BY <1>2, <1>3 DEF Calls, Judged
<1> QED
  BY <1>1, <1>2, <1>3, <1>4, <1>5, <1>6 DEF Snapshot, p

\* The payload: while a copy of it is unread no folder counts as picked in peace.
LEMMA ApplyPayloadInv == ASSUME Inv, ApplyPayload PROVE Inv'
<1> DEFINE u == payload.url
           v == [w EXCEPT !.rules = "loaded", !.path = "folder", !.manual = FALSE,
                          !.evaluated = {payload.cookie}, !.cookie = payload.cookie,
                          !.url = u, !.protocol = PayloadProtocol(@)]
           c == [url |-> u, protocol |-> PayloadProtocol("Auto"), was |-> "Auto",
                 cookie |-> payload.cookie, custom |-> FALSE]
           s == Probe([S EXCEPT !.w = v], c, TRUE)
<1>0. Sane(S) /\ Good(S) /\ w \in Window /\ Rest /\ Placed /\ Asking
      /\ S.w = w /\ S.probes = probes
  BY Facts
<1>1. /\ v \in Window /\ Calls(v) /\ Judged(v) /\ v.custom = w.custom /\ v.url = u
      /\ v.credTimer = w.credTimer
      /\ c \in Snapshot /\ c.url = u
  BY Applied
<1>4. /\ Becomes(s, TRUE) /\ unread > 0 /\ calm'.path = calm.path
      /\ calm'.url => (calm.url /\ w.url = u) \/ Idle
  BY <1>0 DEF ApplyPayload, Rest
<1>5. Rest'
  <2> DEFINE told == /\ (calm.url /\ w.url = u) \/ Idle
                     /\ v.protocol \in Served[u] \cup {"Auto"}
  <2>1. calm' = [calm EXCEPT !.url = told]
    BY DEF ApplyPayload
  <2>2. told \in BOOLEAN
    OBVIOUS
  <2> HIDE DEF told
  <2>3. calm' \in [url : BOOLEAN, path : BOOLEAN]
    BY <1>0, <2>1, <2>2 DEF Rest
  <2>4. unread' \in 0..Copies
    BY <1>0, ConstantsAssumption DEF ApplyPayload, Rest
  <2> QED
    BY <1>0, <2>3, <2>4 DEF ApplyPayload, Rest
<1> HIDE DEF v, c, u
<1>6. Sane(s) /\ Alike(s.w, v) /\ BagToSet(s.probes) = BagToSet(probes) \cup {c}
  BY <1>0, <1>1, HandlerSane, Asked DEF Calls
<1> HIDE DEF s
<1>7. Moves(s, TRUE) BY DEF Moves
<1>8. ~(s.w.custom /\ calm'.path)
  BY <1>0, <1>1, <1>4, <1>6 DEF Placed, Alike, Rest
<1>9. calm'.url /\ s.w.url \in HasName => About(s)
  BY <1>0, <1>1, <1>4, <1>6, Nothing DEF Asking, About, Alike
<1> QED
  BY <1>4, <1>5, <1>6, <1>7, <1>8, <1>9, Handled

\* A probe asked for by a timer or the button, which is not forced: the window is as
\* it was but for the timer.
LEMMA AskedInv ==
  ASSUME Inv, NEW v \in Window, Calls(v), Judged(v), Ruled(v),
         v.url = w.url, v.custom = w.custom, v.path = w.path,
         v.urlTimer \in {Off, w.urlTimer}, v.credTimer \in {Off, w.credTimer},
         NEW c \in Snapshot,
         w.custom /\ calm.path => c.custom,
         calm.url /\ w.url \in HasName => c.url = w.url,
         Becomes(Probe([S EXCEPT !.w = v], c, FALSE), FALSE),
         Rest', unread' = unread, loaded' = loaded, calm' = calm
  PROVE  Inv'
<1> DEFINE s == Probe([S EXCEPT !.w = v], c, FALSE)
<1>0. Sane(S) /\ Good(S) /\ w \in Window /\ Timed(S) /\ Placed /\ Asking
      /\ S.w = w /\ S.probes = probes /\ (w.inFlight => BagToSet(probes) # {})
  BY Facts
<1>1. /\ Good(s) /\ Sane(s) /\ Alike(s.w, v)
      /\ \/ /\ BagToSet(s.probes) = BagToSet(probes) \cup {c}
            /\ s.w.fetched = v.fetched /\ s.w.size = v.size
         \/ /\ s.probes = probes
            /\ s.w.fetched /\ s.w.size = c.url
            /\ s.w.fetching = v.fetching /\ s.w.inFlight = v.inFlight
         \/ v.inFlight /\ s.w = v /\ s.probes = probes
  BY <1>0, HandlerSane, Asked DEF Calls
<1>2. Becomes(s, FALSE)
  OBVIOUS
<1> HIDE DEF s
<1>3. Timed(s)
  BY <1>0, <1>1 DEF Alike, Timed, Off
<1>4. Ruled(s.w)
  BY <1>1 DEF Alike, Ruled
<1>5. BagToSet(s.probes) \subseteq BagToSet(probes) \cup {c}
  BY <1>1
<1>6. s.w.custom /\ calm'.path => Standing(s) /\ unread' = 0 /\ loaded'
  BY <1>0, <1>1, <1>5 DEF Alike, Placed, Standing, Off
<1>7. ASSUME calm'.url, s.w.url \in HasName PROVE About(s) /\ Sized(s)
  <2>1. s.w.url = w.url /\ c.url = w.url /\ About(S)
    BY <1>0, <1>1, <1>7 DEF Alike, Asking
  <2>2. About(s)
    BY <1>0, <1>1, <1>5, <1>7, <2>1 DEF Alike, About, Off
  <2>3. Sized(s)
    <3>1. CASE BagToSet(s.probes) = BagToSet(probes) \cup {c}
      BY <3>1 DEF Sized
    <3>2. CASE s.w.size = c.url
      BY <2>1, <3>2 DEF Sized
    <3>3. CASE v.inFlight /\ s.w = v /\ s.probes = probes
      BY <1>0, <3>3 DEF Sized, Calls
    <3> QED
      BY <1>1, <3>1, <3>2, <3>3
  <2> QED
    BY <2>2, <2>3
<1> QED
  BY <1>1, <1>2, <1>3, <1>4, <1>6, <1>7, Handled

\* The two timers ask about what they were set with.
LEMMA UrlTimerInv == ASSUME Inv, UrlTimer PROVE Inv'
<1> DEFINE v == [w EXCEPT !.urlTimer = Off]
           cookie == IF w.manual THEN Closure(w).cookie
                     ELSE ~Bypassed(w.url, w.protocol, w.rules)
           c == [Closure(w) EXCEPT !.custom = w.urlTimer.custom, !.cookie = cookie]
<1>0. w \in Window /\ Rest /\ Timed(S) /\ Ruled(w) /\ Judged(w) /\ Placed /\ S.w = w
  BY Facts
<1>1. v \in Window /\ Calls(v) /\ Judged(v) /\ Ruled(v) /\ v.url = w.url /\ v.custom = w.custom
      /\ v.path = w.path /\ v.urlTimer = Off /\ v.credTimer = w.credTimer
  BY <1>0 DEF Window, Calls, Judged, Ruled
<1>2. w.urlTimer.on /\ w.url \in Url
  BY <1>0 DEF UrlTimer, Timed
<1>3. w.urlTimer.custom \in BOOLEAN
  <2>1. w.urlTimer \in {Off} \cup [on : {TRUE}, custom : BOOLEAN]
    BY <1>0 DEF Window
  <2>2. w.urlTimer # Off
    BY <1>2 DEF Off
  <2> QED
    BY <2>1, <2>2
<1>4. cookie \in BOOLEAN
  BY <1>0 DEF Window, Closure, Bypassed
<1>5. Becomes(Probe([S EXCEPT !.w = v], c, FALSE), FALSE)
  BY Zenon DEF UrlTimer
<1> HIDE DEF cookie
<1>6. c \in Snapshot /\ c.url = w.url /\ c.custom = w.urlTimer.custom
  BY <1>0, <1>2, <1>3, <1>4 DEF Window, Closure, Snapshot
<1> HIDE DEF v, c
<1>7. w.custom /\ calm.path => c.custom
  BY <1>0, <1>2, <1>6 DEF Placed, Standing
<1>8. Rest' /\ unread' = unread /\ loaded' = loaded /\ calm' = calm
  BY <1>0 DEF UrlTimer, Rest
<1> QED
  BY <1>1, <1>5, <1>6, <1>7, <1>8, AskedInv

LEMMA CredTimerInv == ASSUME Inv, CredTimer PROVE Inv'
<1> DEFINE v == [w EXCEPT !.credTimer = Off]
           t == w.credTimer
           c == [Closure(w) EXCEPT !.url = t.url, !.protocol = t.protocol,
                                   !.was = t.protocol, !.custom = t.custom]
<1>0. w \in Window /\ Rest /\ Ruled(w) /\ Judged(w) /\ Placed /\ Asking /\ S.w = w
  BY Facts
<1>1. v \in Window /\ Calls(v) /\ Judged(v) /\ Ruled(v) /\ v.url = w.url /\ v.custom = w.custom
      /\ v.path = w.path /\ v.urlTimer = w.urlTimer /\ v.credTimer = Off
  BY <1>0 DEF Window, Calls, Judged, Ruled
<1>2. t.on
  BY DEF CredTimer
<1>3. t \in [on : {TRUE}, url : Url, protocol : Protocol, custom : BOOLEAN]
  <2>1. t \in {Off} \cup [on : {TRUE}, url : Url, protocol : Protocol, custom : BOOLEAN]
    BY <1>0 DEF Window
  <2>2. t # Off
    BY <1>2 DEF Off
  <2> QED
    BY <2>1, <2>2
<1>5. Becomes(Probe([S EXCEPT !.w = v], c, FALSE), FALSE)
  BY Zenon DEF CredTimer
<1>6. c \in Snapshot /\ c.url = t.url /\ c.custom = t.custom
  <2> HIDE DEF t
  <2> QED
    BY <1>0, <1>3 DEF Window, Closure, Snapshot
<1> HIDE DEF v, c
<1>7. w.custom /\ calm.path => c.custom
  BY <1>0, <1>2, <1>6 DEF Placed, Standing
<1>8. calm.url /\ w.url \in HasName => c.url = w.url
  BY <1>0, <1>2, <1>6 DEF Asking, About
<1>9. Rest' /\ unread' = unread /\ loaded' = loaded /\ calm' = calm
  BY <1>0 DEF CredTimer, Rest
<1> QED
  BY <1>1, <1>5, <1>6, <1>7, <1>8, <1>9, AskedInv

\* The button asks about what is shown.
LEMMA RefreshInfoInv == ASSUME Inv, RefreshInfo PROVE Inv'
<1>0. w \in Window /\ Rest /\ Ruled(w) /\ Judged(w) /\ S.w = w /\ Calls(w)
  BY Facts DEF Calls
<1>1. S = [S EXCEPT !.w = w]
  BY DEF S
<1>2. Becomes(Probe([S EXCEPT !.w = w], Closure(w), FALSE), FALSE)
  BY <1>1 DEF RefreshInfo, Edit
<1>3. Closure(w) \in Snapshot /\ Closure(w).url = w.url /\ Closure(w).custom = w.custom
  BY <1>0, Captured DEF RefreshInfo, Closure
<1>4. Rest' /\ unread' = unread /\ loaded' = loaded /\ calm' = calm
  BY <1>0, ConstantsAssumption DEF RefreshInfo, Edit, Rest
<1> QED
  BY <1>0, <1>2, <1>3, <1>4, AskedInv

\* What an answer's Found may add to the protocols.
LEMMA Founds ==
  /\ \A was \in Protocol, served \in Protocol : Found(was, served) \subseteq Protocol
  /\ \A was, served : "Torrent" \notin {was, served} => "Torrent" \notin Found(was, served)
BY DEF Found, Protocol

\* What a call of the engine leaves when it is over: it is under way no more, and what
\* it has told is shown.
AfterCall(s, c) ==
  /\ s.w.url = w.url /\ s.w.rules = w.rules /\ s.w.cookie = w.cookie
  /\ s.w.manual = w.manual /\ s.w.evaluated = w.evaluated /\ s.w.custom = w.custom
  /\ s.w.urlTimer = w.urlTimer /\ s.w.credTimer = w.credTimer /\ s.w.name = w.name
  /\ ~s.w.fetching /\ ~s.w.inFlight
  /\ s.w.path = w.path \/ ~c.custom
  /\ s.w.fetched => s.w.size = c.url
  /\ s.w.protocol = w.protocol
       \/ \E served \in Served[c.url] : s.w.protocol \in Found(c.was, served)
  /\ BagToSet(s.probes) \subseteq BagToSet(probes)
  /\ s.naming \in {naming, naming \cup {c.url}}

\* Taking a call out of those under way.
LEMMA Overs ==
  ASSUME Good(S), NEW c
  PROVE  /\ Good(Over(S, c)) /\ Over(S, c).naming = naming
         /\ BagToSet(Over(S, c).probes) \subseteq BagToSet(probes)
         /\ Over(S, c) = [w |-> Over(S, c).w, probes |-> Over(S, c).probes,
                          naming |-> naming]
         /\ LET o == Over(S, c).w IN
            /\ o \in Window
            /\ o.url = w.url /\ o.rules = w.rules /\ o.cookie = w.cookie
            /\ o.manual = w.manual /\ o.evaluated = w.evaluated /\ o.custom = w.custom
            /\ o.urlTimer = w.urlTimer /\ o.credTimer = w.credTimer /\ o.path = w.path
            /\ o.name = w.name /\ o.protocol = w.protocol
            /\ ~o.fetching /\ ~o.inFlight
<1> DEFINE idle == [w EXCEPT !.inFlight = FALSE, !.fetching = FALSE]
           rest == BagRemove(probes, c)
<1>0. w \in Window /\ S.w = w /\ S.probes = probes /\ naming \subseteq Url
      /\ BagToSet(probes) \subseteq Snapshot
  BY DEF Good, S
<1>1. Over(S, c) = [w |-> idle, probes |-> rest, naming |-> naming]
  <2>1. Over(S, c) = [S EXCEPT !.probes = rest, !.w = idle]
    BY <1>0 DEF Over
  <2>2. [S EXCEPT !.probes = rest] = [w |-> w, probes |-> rest, naming |-> naming]
    BY DEF S
  <2> HIDE DEF idle, rest
  <2> QED
    BY <2>1, <2>2
<1>2. /\ idle \in Window
      /\ idle.url = w.url /\ idle.rules = w.rules /\ idle.cookie = w.cookie
      /\ idle.manual = w.manual /\ idle.evaluated = w.evaluated /\ idle.custom = w.custom
      /\ idle.urlTimer = w.urlTimer /\ idle.credTimer = w.credTimer /\ idle.path = w.path
      /\ idle.name = w.name /\ idle.protocol = w.protocol
      /\ ~idle.fetching /\ ~idle.inFlight
  BY <1>0 DEF Window
<1>3. BagToSet(rest) \subseteq BagToSet(probes)
  BY InBags
<1> HIDE DEF idle, rest
<1>4. Over(S, c).w = idle /\ Over(S, c).probes = rest /\ Over(S, c).naming = naming
  BY <1>1
<1>5. Good(Over(S, c))
  BY <1>0, <1>1, <1>2, <1>3, <1>4 DEF Good
<1> QED
  BY <1>1, <1>2, <1>3, <1>4, <1>5

\* An answer leaves the window so,
LEMMA ProbeAnswers ==
  ASSUME Good(S), NEW c \in BagToSet(probes), NEW served \in Served[c.url]
  PROVE  Good(Answered(c, served)) /\ AfterCall(Answered(c, served), c)
<1> DEFINE o == Over(S, c).w
           rest == Over(S, c).probes
           p == Found(c.was, served)
           protocol == IF p = {} THEN o.protocol ELSE CHOOSE q \in p : TRUE
           path == IF c.custom THEN o.path ELSE "folder"
           x == [o EXCEPT !.cache = o.cache \cup {KeyOf(c)}, !.size = c.url, !.fetched = TRUE,
                          !.protocol = protocol, !.path = path]
           s == [w |-> x, probes |-> rest, naming |-> naming \cup {c.url}]
<1>1. c \in Snapshot /\ c.url \in Url /\ c.was \in Protocol /\ naming \subseteq Url
      /\ BagToSet(probes) \subseteq Snapshot
  BY DEF Good, S, Snapshot
<1>2. /\ o \in Window
      /\ o.url = w.url /\ o.rules = w.rules /\ o.cookie = w.cookie
      /\ o.manual = w.manual /\ o.evaluated = w.evaluated /\ o.custom = w.custom
      /\ o.urlTimer = w.urlTimer /\ o.credTimer = w.credTimer /\ o.path = w.path
      /\ o.name = w.name /\ o.protocol = w.protocol
      /\ ~o.fetching /\ ~o.inFlight
      /\ BagToSet(rest) \subseteq BagToSet(probes)
      /\ Over(S, c) = [w |-> o, probes |-> rest, naming |-> naming]
  BY Overs
<1>3. p \subseteq Protocol
  BY <1>1, Links, Founds
<1>4. protocol \in Protocol /\ path \in {"folder", "picked"}
      /\ (protocol = w.protocol \/ protocol \in p)
  <2> HIDE DEF p, o
  <2> QED
    BY <1>2, <1>3 DEF Window
<1>5. KeyOf(c) \in Key
  BY <1>1 DEF KeyOf, Key, Snapshot
<1>6. x \in Window
  <2> HIDE DEF o, protocol, path
  <2> QED
    BY <1>1, <1>2, <1>4, <1>5 DEF Window
<1>7. /\ x.url = w.url /\ x.rules = w.rules /\ x.cookie = w.cookie
      /\ x.manual = w.manual /\ x.evaluated = w.evaluated /\ x.custom = w.custom
      /\ x.urlTimer = w.urlTimer /\ x.credTimer = w.credTimer /\ x.name = w.name
      /\ ~x.fetching /\ ~x.inFlight /\ x.size = c.url
      /\ x.path = path /\ x.protocol = protocol
  <2> HIDE DEF protocol, path, o
  <2> QED
    BY <1>2 DEF Window
<1>8. Answered(c, served) = s
  <2> DEFINE y == [o EXCEPT !.cache = @ \cup {KeyOf(c)}, !.size = c.url, !.fetched = TRUE,
                            !.protocol = IF p = {} THEN @ ELSE CHOOSE q \in p : TRUE,
                            !.path = IF c.custom THEN @ ELSE "folder"]
  <2>1. Answered(c, served) = [Over(S, c) EXCEPT !.w = y, !.naming = @ \cup {c.url}]
    BY Zenon DEF Answered
  <2>2. y = x
    <3> HIDE DEF o
    <3> QED
      BY <1>2 DEF Window
  <2> HIDE DEF y, x, o, rest
  <2>3. [Over(S, c) EXCEPT !.w = x] = [w |-> x, probes |-> rest, naming |-> naming]
    BY <1>2
  <2> QED
    BY <2>1, <2>2, <2>3
<1> HIDE DEF x, rest
<1>9. Good(s) /\ s.w = x /\ s.probes = rest /\ s.naming = naming \cup {c.url}
  BY <1>1, <1>2, <1>6 DEF Good
<1>10. path = w.path \/ ~c.custom
  BY <1>2
<1> HIDE DEF s, path, protocol
<1>11. \E v \in Served[c.url] : p = Found(c.was, v)
  OBVIOUS
<1> HIDE DEF p
<1>12. AfterCall(s, c)
  BY <1>2, <1>4, <1>7, <1>9, <1>10, <1>11 DEF AfterCall
<1> QED
  BY <1>8, <1>9, <1>12

\* and a refusal.
LEMMA Refusals ==
  ASSUME Good(S), NEW c \in BagToSet(probes)
  PROVE  Good(Refused(c)) /\ AfterCall(Refused(c), c)
<1> DEFINE o == Over(S, c).w
           rest == Over(S, c).probes
           x == [o EXCEPT !.size = NoUrl, !.fetched = FALSE]
           s == [w |-> x, probes |-> rest, naming |-> naming]
<1>1. /\ o \in Window
      /\ o.url = w.url /\ o.rules = w.rules /\ o.cookie = w.cookie
      /\ o.manual = w.manual /\ o.evaluated = w.evaluated /\ o.custom = w.custom
      /\ o.urlTimer = w.urlTimer /\ o.credTimer = w.credTimer /\ o.path = w.path
      /\ o.name = w.name /\ o.protocol = w.protocol
      /\ ~o.fetching /\ ~o.inFlight
      /\ BagToSet(rest) \subseteq BagToSet(probes)
      /\ Over(S, c) = [w |-> o, probes |-> rest, naming |-> naming]
  BY Overs
<1>2. /\ x \in Window
      /\ x.url = w.url /\ x.rules = w.rules /\ x.cookie = w.cookie
      /\ x.manual = w.manual /\ x.evaluated = w.evaluated /\ x.custom = w.custom
      /\ x.urlTimer = w.urlTimer /\ x.credTimer = w.credTimer /\ x.path = w.path
      /\ x.name = w.name /\ x.protocol = w.protocol
      /\ ~x.fetching /\ ~x.inFlight /\ ~x.fetched
  <2> HIDE DEF o
  <2> QED
    BY <1>1, ZenonT(90) DEF Window
<1>3. Refused(c) = [Over(S, c) EXCEPT !.w = x]
  BY Zenon DEF Refused
<1> HIDE DEF x, o, rest
<1>4. Refused(c) = s
  BY <1>1, <1>3
<1>5. Good(s) /\ s.w = x /\ s.probes = rest /\ s.naming = naming
  BY <1>1, <1>2 DEF Good, S
<1> HIDE DEF s
<1>6. AfterCall(s, c)
  BY <1>1, <1>2, <1>5 DEF AfterCall
<1> QED
  BY <1>4, <1>5, <1>6

\* Which state the effects start from when a call is over.
LEMMA CallOver ==
  ASSUME Good(S), ProbeOver
  PROVE  \E c \in BagToSet(probes) :
           \E s : Becomes(s, FALSE) /\ Good(s) /\ AfterCall(s, c)
<1>1. PICK c \in BagToSet(probes) :
        \/ \E served \in Served[c.url] : Becomes(Answered(c, served), FALSE)
        \/ Becomes(Refused(c), FALSE)
  BY DEF ProbeOver
<1> QED
  BY <1>1, ProbeAnswers, Refusals

\* An answer shows what its own call asked, which is about the URL in the box.
LEMMA ProbeOverInv == ASSUME Inv, ProbeOver PROVE Inv'
<1>0. Sane(S) /\ Good(S) /\ Rest /\ Timed(S) /\ Ruled(w) /\ Placed /\ Asking
      /\ S.w = w /\ S.probes = probes
  BY Facts
<1>1. Rest' /\ unread' = unread /\ loaded' = loaded /\ calm' = calm
  BY <1>0 DEF ProbeOver, Rest
<1>c. PICK c \in BagToSet(probes) : \E s : Becomes(s, FALSE) /\ Good(s) /\ AfterCall(s, c)
  BY <1>0, CallOver
<1>2. PICK s : c \in BagToSet(probes) /\ Becomes(s, FALSE) /\ Good(s) /\ AfterCall(s, c)
  BY <1>c
<1>3. Sane(s)
  BY <1>0, <1>2 DEF AfterCall, Sane, Judged
<1>4. Moves(s, FALSE) \/ (Timed(s) /\ Ruled(s.w))
  BY <1>0, <1>2 DEF AfterCall, Moves, Timed, Ruled
<1>5. s.w.custom /\ calm'.path => Standing(s) /\ unread' = 0 /\ loaded'
  BY <1>0, <1>1, <1>2 DEF AfterCall, Placed, Standing
<1>6. calm'.url /\ s.w.url \in HasName => About(s) /\ Sized(s)
  BY <1>0, <1>1, <1>2 DEF AfterCall, Asking, About, Sized
<1> QED
  BY <1>1, <1>2, <1>3, <1>4, <1>5, <1>6, Handled

\* The box: typed in with nothing under way, whatever comes next is about it.
LEMMA EditUrlInv == ASSUME Inv, NEW u \in Typed, EditUrl(u) PROVE Inv'
<1> DEFINE v == [w EXCEPT !.url = u]
           s == [S EXCEPT !.w = v]
<1>0. Sane(S) /\ Good(S) /\ w \in Window /\ Rest /\ Judged(w) /\ Placed /\ S.w = w
      /\ S.probes = probes
  BY Facts
<1>1. u \in Url \cup {NoUrl}
  BY ConstantsAssumption
<1>2. v \in Window /\ Calls(v) /\ Judged(v) /\ v.custom = w.custom /\ v.url = u
      /\ v.path = w.path /\ v.urlTimer = w.urlTimer /\ v.credTimer = w.credTimer
  BY <1>0, <1>1 DEF Window, Calls, Judged
<1>3. Becomes(s, FALSE) /\ u # w.url
  BY DEF EditUrl, Edit
<1>4. /\ calm' = [url |-> Quiet, path |-> calm.path /\ u \in HasName \cup {NoUrl}]
      /\ unread' = unread /\ loaded' = loaded
  BY DEF EditUrl, Edit
<1>5. Quiet \in BOOLEAN
  BY DEF Quiet, Idle
<1>6. Rest'
  BY <1>0, <1>4, <1>5, ConstantsAssumption DEF EditUrl, Edit, Rest
<1> HIDE DEF v
<1>7. Sane(s) /\ s.w = v /\ s.probes = probes
  BY <1>0, <1>2, HandlerSane, Puts DEF Calls
<1> HIDE DEF s
<1>8. Moves(s, FALSE)
  BY <1>2, <1>3, <1>7 DEF Moves
<1>9. s.w.custom /\ calm'.path => Standing(s) /\ unread' = 0 /\ loaded'
  BY <1>0, <1>2, <1>4, <1>7 DEF Placed, Standing
<1>10. calm'.url /\ s.w.url \in HasName => About(s)
  BY <1>0, <1>2, <1>4, <1>7, Nothing DEF Quiet, About
<1> QED
  BY <1>3, <1>6, <1>7, <1>8, <1>9, <1>10, Handled

\* What the user switches by hand, and is asked about at once: the box is left alone.
LEMMA SwitchedInv ==
  ASSUME Inv, NEW v \in Window, Calls(v), Judged(v),
         v.url = w.url, v.custom = w.custom, v.path = w.path,
         v.urlTimer = w.urlTimer, v.credTimer = w.credTimer,
         <<w.url, w.protocol, w.cookie>> # <<v.url, v.protocol, v.cookie>>,
         NEW c, w.url # NoUrl => c \in Snapshot /\ c.url = w.url /\ c.custom = w.custom,
         Becomes(IF w.url = NoUrl THEN [S EXCEPT !.w = v]
                 ELSE Probe([S EXCEPT !.w = v], c, TRUE), FALSE),
         Rest', unread' = unread, loaded' = loaded,
         calm'.path = calm.path, calm'.url => calm.url
  PROVE  Inv'
<1> DEFINE s == IF w.url = NoUrl THEN [S EXCEPT !.w = v]
                ELSE Probe([S EXCEPT !.w = v], c, TRUE)
<1>0. Sane(S) /\ Good(S) /\ w \in Window /\ Placed /\ Asking
      /\ S.w = w /\ S.probes = probes
  BY Facts
<1>1. /\ Sane(s) /\ Alike(s.w, v)
      /\ \A x \in BagToSet(s.probes) : \/ x \in BagToSet(probes)
                                       \/ x.url = w.url /\ x.custom = w.custom
  <2>1. CASE w.url = NoUrl
    BY <1>0, <2>1, HandlerSane, Puts DEF Calls, Alike
  <2>2. CASE w.url # NoUrl
    <3> DEFINE t == Probe([S EXCEPT !.w = v], c, TRUE)
    <3>1. c \in Snapshot /\ c.url = w.url /\ c.custom = w.custom
      BY <2>2
    <3>2. Sane(t) /\ Alike(t.w, v) /\ BagToSet(t.probes) = BagToSet(probes) \cup {c}
      BY <1>0, <3>1, HandlerSane, Asked DEF Calls
    <3>3. s = t
      BY <2>2
    <3> HIDE DEF t, s
    <3> QED
      BY <3>1, <3>2, <3>3
  <2> QED
    BY <2>1, <2>2
<1>2. Becomes(s, FALSE)
  OBVIOUS
<1> HIDE DEF s
<1>3. Moves(s, FALSE)
  BY <1>1 DEF Moves, Alike
<1>4. s.w.custom /\ calm'.path => Standing(s) /\ unread' = 0 /\ loaded'
  BY <1>0, <1>1 DEF Alike, Placed, Standing
<1>5. calm'.url /\ s.w.url \in HasName => About(s)
  BY <1>0, <1>1 DEF Alike, Asking, About
<1> QED
  BY <1>1, <1>2, <1>3, <1>4, <1>5, Handled

\* The switch of the cookies, before the effects.
LEMMA Toggled ==
  ASSUME w \in Window
  PROVE  LET v == [w EXCEPT !.manual = TRUE, !.cookie = ~@] IN
         /\ v \in Window /\ Calls(v) /\ Judged(v) /\ v.custom = w.custom /\ v.url = w.url
         /\ v.path = w.path /\ v.urlTimer = w.urlTimer /\ v.credTimer = w.credTimer
         /\ v.cookie # w.cookie /\ v.cookie \in BOOLEAN
         /\ v.protocol = w.protocol /\ v.name = w.name
<1> DEFINE v == [w EXCEPT !.manual = TRUE, !.cookie = ~@]
<1>1. v \in Window /\ Calls(v) /\ Judged(v) /\ v.custom = w.custom /\ v.url = w.url
      /\ v.path = w.path /\ v.urlTimer = w.urlTimer /\ v.credTimer = w.credTimer
      /\ v.cookie # w.cookie /\ v.cookie \in BOOLEAN
  BY ZenonT(90) DEF Window, Calls, Judged
<1>2. v.protocol = w.protocol /\ v.name = w.name
  BY DEF Window
<1> QED
  BY <1>1, <1>2

\* The switch of the cookies sets them by hand.
LEMMA ToggleUseCookieInv == ASSUME Inv, ToggleUseCookie PROVE Inv'
<1> DEFINE v == [w EXCEPT !.manual = TRUE, !.cookie = ~@]
           c == [Closure(w) EXCEPT !.cookie = v.cookie]
<1>0. w \in Window /\ Rest
  BY Facts
<1>1. v \in Window /\ Calls(v) /\ Judged(v) /\ v.custom = w.custom /\ v.url = w.url
      /\ v.path = w.path /\ v.urlTimer = w.urlTimer /\ v.credTimer = w.credTimer
      /\ v.cookie # w.cookie /\ v.cookie \in BOOLEAN
  BY <1>0, Toggled
<1>2. Becomes(IF w.url = NoUrl THEN [S EXCEPT !.w = v]
              ELSE Probe([S EXCEPT !.w = v], c, TRUE), FALSE)
  BY Zenon DEF ToggleUseCookie, Edit
<1>3. Rest' /\ unread' = unread /\ loaded' = loaded /\ calm' = calm
  BY <1>0, ConstantsAssumption DEF ToggleUseCookie, Edit, Rest
<1> HIDE DEF v
<1>4. w.url # NoUrl => c \in Snapshot /\ c.url = w.url /\ c.custom = w.custom
  BY <1>0, <1>1, Captured
<1> HIDE DEF c
<1> QED
  BY <1>1, <1>2, <1>3, <1>4, SwitchedInv

\* A protocol chosen by hand is asked about; the box then no longer counts as calm.
LEMMA ProtocolChangeInv == ASSUME Inv, NEW p \in Choices, ProtocolChange(p) PROVE Inv'
<1> DEFINE v == [w EXCEPT !.protocol = p]
           c == [Closure(w) EXCEPT !.protocol = p]
<1>0. w \in Window /\ Rest /\ Judged(w) /\ p \in Protocol
  BY Facts, ConstantsAssumption
<1>1. v \in Window /\ Calls(v) /\ Judged(v) /\ v.custom = w.custom /\ v.url = w.url
      /\ v.path = w.path /\ v.urlTimer = w.urlTimer /\ v.credTimer = w.credTimer
      /\ v.protocol = p
  BY <1>0, ZenonT(90) DEF Window, Calls, Judged
<1>2. Becomes(IF w.url = NoUrl THEN [S EXCEPT !.w = v]
              ELSE Probe([S EXCEPT !.w = v], c, TRUE), FALSE) /\ p # w.protocol
  BY Zenon DEF ProtocolChange, Edit
<1>3. Rest' /\ unread' = unread /\ loaded' = loaded /\ calm'.path = calm.path /\ ~calm'.url
  <2>1. calm' = [calm EXCEPT !.url = FALSE] /\ calm \in [url : BOOLEAN, path : BOOLEAN]
    BY <1>0 DEF ProtocolChange, Rest
  <2>2. /\ calm' \in [url : BOOLEAN, path : BOOLEAN]
        /\ calm'.path = calm.path /\ ~calm'.url
    BY <2>1
  <2>3. edits' \in 0..MaxEdits
    BY <1>0, ConstantsAssumption DEF ProtocolChange, Edit, Rest
  <2> QED
    BY <1>0, <2>2, <2>3 DEF ProtocolChange, Edit, Rest
<1>4. w.url # NoUrl => c \in Snapshot /\ c.url = w.url /\ c.custom = w.custom
  BY <1>0 DEF Closure, Window, Snapshot
<1> HIDE DEF v, c
<1> QED
  BY <1>1, <1>2, <1>3, <1>4, SwitchedInv

\* The folder's two actions: nothing is asked, and no effect depends on them.
LEMMA FolderInv ==
  ASSUME Inv, NEW path \in {"folder", "picked"}, NEW custom \in BOOLEAN,
         Becomes([S EXCEPT !.w = [w EXCEPT !.path = path, !.custom = custom]], FALSE),
         Rest', unread' = unread, loaded' = loaded, calm'.url = calm.url,
         custom /\ calm'.path => path = "picked" /\ Quiet /\ w.url \in HasName
  PROVE  Inv'
<1> DEFINE v == [w EXCEPT !.path = path, !.custom = custom]
           s == [S EXCEPT !.w = v]
<1>0. Sane(S) /\ Good(S) /\ w \in Window /\ Judged(w) /\ Timed(S) /\ Ruled(w) /\ Asking
      /\ S.w = w /\ S.probes = probes
  BY Facts
<1>1. v \in Window /\ Calls(v) /\ Judged(v) /\ Ruled(v) /\ v.custom = custom /\ v.url = w.url
      /\ v.path = path /\ v.urlTimer = w.urlTimer /\ v.credTimer = w.credTimer
  BY <1>0, ZenonT(90) DEF Window, Calls, Judged, Ruled
<1>2. Becomes(s, FALSE)
  OBVIOUS
<1> HIDE DEF v
<1>3. Sane(s) /\ s.w = v /\ s.probes = probes
  BY <1>0, <1>1, HandlerSane, Puts DEF Calls
<1> HIDE DEF s
<1>4. Timed(s) /\ Ruled(s.w)
  BY <1>0, <1>1, <1>3 DEF Timed
<1>5. s.w.custom /\ calm'.path => Standing(s) /\ unread' = 0 /\ loaded'
  BY <1>0, <1>1, <1>3, Nothing DEF Standing, Quiet
<1>6. calm'.url /\ s.w.url \in HasName => About(s) /\ Sized(s)
  BY <1>0, <1>1, <1>3 DEF Asking, About, Sized, Calls
<1> QED
  BY <1>2, <1>3, <1>4, <1>5, <1>6, Handled

\* A folder picked by hand, and one chosen with the category.
LEMMA PickSavePathInv == ASSUME Inv, PickSavePath PROVE Inv'
<1>1. Becomes([S EXCEPT !.w = [w EXCEPT !.path = "picked", !.custom = TRUE]], FALSE)
  BY DEF PickSavePath, Edit
<1> DEFINE told == Quiet /\ w.url \in HasName
<1>2. told \in BOOLEAN /\ calm' = [calm EXCEPT !.path = told]
  BY DEF PickSavePath, Quiet, Idle
<1> HIDE DEF told
<1>3. Rest' /\ unread' = unread /\ loaded' = loaded /\ calm'.url = calm.url
      /\ calm'.path = told
  BY <1>2, Facts, ConstantsAssumption DEF PickSavePath, Edit, Rest
<1>4. told => Quiet /\ w.url \in HasName
  BY DEF told
<1> QED
  BY <1>1, <1>3, <1>4, FolderInv

LEMMA CategoryChangeInv == ASSUME Inv, CategoryChange PROVE Inv'
<1>1. Becomes([S EXCEPT !.w = [w EXCEPT !.path = "folder", !.custom = FALSE]], FALSE)
  BY DEF CategoryChange, Edit
<1>2. Rest' /\ unread' = unread /\ loaded' = loaded /\ calm' = calm
  BY Facts, ConstantsAssumption DEF CategoryChange, Edit, Rest
<1> QED
  BY <1>1, <1>2, FolderInv

\* A name changes nothing else.
LEMMA NameResolvedInv == ASSUME Inv, NameResolved PROVE Inv'
<1>0. /\ Rest /\ Sane(S) /\ Timed(S) /\ Ruled(w) /\ Placed /\ Asking
      /\ Good(S) /\ w \in Window /\ S.w = w /\ S.probes = probes /\ S.naming = naming
  BY Facts
<1>1. PICK u \in naming : naming' = naming \ {u} /\ w' = [w EXCEPT !.name = u]
  BY DEF NameResolved
<1>2. w' \in Window /\ Alike(w', [w EXCEPT !.name = u]) /\ u \in Url
  BY <1>0, <1>1, ZenonT(90) DEF Window, Alike, Good
<1>3. /\ w'.url = w.url /\ w'.protocol = w.protocol /\ w'.rules = w.rules
      /\ w'.cookie = w.cookie /\ w'.manual = w.manual /\ w'.evaluated = w.evaluated
      /\ w'.custom = w.custom /\ w'.path = w.path
      /\ w'.urlTimer = w.urlTimer /\ w'.credTimer = w.credTimer
      /\ w'.fetched = w.fetched /\ w'.size = w.size
      /\ w'.fetching = w.fetching /\ w'.inFlight = w.inFlight
  BY <1>0, <1>1 DEF Window
<1>4. UNCHANGED <<probes, payload, unread, loaded, sending, open, edits, calm>>
  BY DEF NameResolved
<1>5. S' = [w |-> w', probes |-> probes, naming |-> naming'] /\ S'.w = w'
      /\ S'.probes = probes
  BY <1>4 DEF S
<1>6. Good(S')
  BY <1>0, <1>1, <1>2, <1>5 DEF Good
<1>7. Sane(S') /\ Timed(S') /\ Ruled(w')
  BY <1>0, <1>3, <1>5, <1>6 DEF Sane, Timed, Ruled, Judged
<1>8. Placed' /\ Asking'
  BY <1>0, <1>3, <1>4, <1>5 DEF Placed, Asking, Standing, About, Sized
<1>9. Rest'
  BY <1>0, <1>4 DEF Rest
<1> QED
  BY <1>7, <1>8, <1>9 DEF Inv

\* What leaves the window's own state alone.
LEMMA AsideInv ==
  ASSUME Inv, UNCHANGED <<w, probes, naming, loaded, calm>>, unread' \in 0..unread, Rest'
  PROVE  Inv'
<1>1. S' = S BY DEF S
<1>2. Placed' BY <1>1, Facts DEF Placed, Rest
<1> QED
  BY <1>1, <1>2 DEF Inv, Ruled, Asking

\* A payload that is missed, and a submission.
LEMMA MissPayloadInv == ASSUME Inv, MissPayload PROVE Inv'
<1>1. unread' \in 0..unread /\ Rest'
  BY Facts, ConstantsAssumption DEF MissPayload, Rest
<1> QED
  BY <1>1, AsideInv DEF MissPayload

LEMMA SubmitInv == ASSUME Inv, Submit PROVE Inv'
<1>1. FinalTarget(w) \in [url : Url, cookie : BOOLEAN, path : {"folder", "picked"}]
  BY Facts DEF Submit, FinalTarget, Window
<1>2. Rest'
  BY <1>1, Facts, InBags, ConstantsAssumption DEF Submit, Rest
<1>3. unread' \in 0..unread
  BY Facts, ConstantsAssumption DEF Submit, Rest
<1> QED
  BY <1>2, <1>3, AsideInv DEF Submit

\* A window that is gone is as new.
LEMMA GoneInv ==
  ASSUME Inv, Gone, UNCHANGED <<payload, edits>>
  PROVE  Inv'
<1>1. Blank \in Window
  BY DEF Blank, Window, Protocol, Rules, Off
<1>2. /\ Blank.url = NoUrl /\ ~Blank.fetching /\ ~Blank.inFlight /\ ~Blank.urlTimer.on
      /\ ~Blank.custom /\ Blank.evaluated = {}
  BY DEF Blank, Off
<1>3. S' = [w |-> Blank, probes |-> EmptyBag, naming |-> {}] /\ S'.w = Blank
      /\ S'.probes = EmptyBag /\ w' = Blank
  BY DEF Gone, S
<1>4. Good(S')
  BY <1>1, <1>3, InBags DEF Good
<1>5. Sane(S') /\ Timed(S') /\ Ruled(w') /\ Placed' /\ Asking'
  BY <1>2, <1>3, <1>4, Links DEF Sane, Judged, Timed, Ruled, Placed, Asking
<1>6. Rest'
  <2>1. 0 \in 0..Copies
    BY ConstantsAssumption
  <2> QED
    BY <2>1, Facts, InBags DEF Gone, Rest
<1> QED
  BY <1>5, <1>6 DEF Inv

\* The window closes, or waits for another task.
LEMMA CreatedInv == ASSUME Inv, Created PROVE Inv'
<1>1. CASE Gone
  BY <1>1, GoneInv DEF Created
<1>2. CASE ~Gone
  <2>1. UNCHANGED <<w, probes, naming, unread, loaded, open, calm, payload, edits>>
        /\ BagToSet(sending') \subseteq BagToSet(sending)
    BY <1>2, InBags DEF Created
  <2>2. Rest'
    BY <2>1, Facts DEF Rest
  <2>3. unread' \in 0..unread
    BY <2>1, Facts, ConstantsAssumption DEF Rest
  <2> QED
    BY <2>1, <2>2, <2>3, AsideInv
<1> QED
  BY <1>1, <1>2

\* A window that opens satisfies the invariant.
LEMMA InitInv == Init => Inv
<1> SUFFICES ASSUME Init PROVE Inv
  OBVIOUS
<1>1. Blank \in Window
  BY DEF Blank, Window, Protocol, Rules, Off
<1>2. /\ Blank.url = NoUrl /\ ~Blank.fetching /\ ~Blank.inFlight /\ ~Blank.urlTimer.on
      /\ ~Blank.custom /\ Blank.evaluated = {}
  BY DEF Blank, Off
<1>3. S = [w |-> Blank, probes |-> EmptyBag, naming |-> {}] /\ w = Blank
  BY DEF Init, S
<1>4. Good(S)
  BY <1>1, <1>3, InBags DEF Good
<1>5. Sane(S) /\ Timed(S) /\ Ruled(w) /\ Placed /\ Asking
  BY <1>2, <1>3, <1>4, Links DEF Sane, Judged, Timed, Ruled, Placed, Asking
<1>6. Rest
  <2>1. Copies \in 0..Copies /\ 0 \in 0..MaxEdits
    BY ConstantsAssumption
  <2>2. BagToSet(sending) = {}
    BY InBags DEF Init
  <2> QED
    BY <2>1, <2>2 DEF Init, Rest
<1> QED
  BY <1>5, <1>6 DEF Inv

\* The invariant holds throughout.
LEMMA InvCorrect == Spec => []Inv
<1>1. Inv /\ [Next]_vars => Inv'
  <2> SUFFICES ASSUME Inv, [Next]_vars PROVE Inv'
    OBVIOUS
  <2>1. CASE User
    BY <2>1, EditUrlInv, ToggleUseCookieInv, ProtocolChangeInv, RefreshInfoInv,
       PickSavePathInv, CategoryChangeInv, SubmitInv, GoneInv DEF User, Close
  <2>2. CASE UNCHANGED vars
    <3>1. Rest' /\ unread' \in 0..unread
      BY <2>2, Facts, ConstantsAssumption DEF vars, Rest
    <3> QED
      BY <2>2, <3>1, AsideInv DEF vars
  <2> QED
    BY <2>1, <2>2, EngineLoadedInv, ApplyPayloadInv, MissPayloadInv, UrlTimerInv,
       CredTimerInv, ProbeOverInv, NameResolvedInv, CreatedInv DEF Next
<1> QED
  BY <1>1, InitInv, PTL DEF Spec

-----------------------------------------------------------------------------
\* Every reachable state of the confirmation window has its type.
THEOREM ConfirmationTypeCorrect == Spec => []TypeOK
BY InvCorrect, InvTypes, PTL

\* Unless switched by hand, the cookies go with the URL as the rules in force say: after
\* every change of the box, of the protocol by a probe or an effect, of the rules and of
\* the payload, in any order.
THEOREM CookiesFollowRules == Spec => []CookiesAsRuled
<1>1. Inv => CookiesAsRuled
  BY DEF Inv, Ruled, CookiesAsRuled
<1> QED
  BY <1>1, InvCorrect, PTL

\* A folder picked while nothing was under way is the one the task is saved to, whatever
\* is typed, probed, timed and named after it.
THEOREM PickedFolderStands == Spec => []PickedFolderKept
<1>1. Inv => PickedFolderKept
  BY Facts DEF Placed, Standing, PickedFolderKept, FinalTarget
<1> QED
  BY <1>1, InvCorrect, PTL

\* The size shown as fetched, once all has settled, is that of the URL in the box, and
\* the window says it is checking only while a probe is under way: for torrents too.
THEOREM SizeIsChecked ==
  Spec => [](/\ w.fetching => probes # EmptyBag
             /\ calm.url /\ Quiet /\ w.url \in HasName /\ w.fetched => w.size = w.url)
<1>1. Inv => /\ w.fetching => probes # EmptyBag
             /\ calm.url /\ Quiet /\ w.url \in HasName /\ w.fetched => w.size = w.url
  BY Facts, InBags, Nothing DEF Sane, S, Asking, Sized, Quiet
<1> QED
  BY <1>1, InvCorrect, PTL

-----------------------------------------------------------------------------
\* The name, where no link is a torrent. The effect of the URL gives a torrent the name
\* the window shows, which may be another link's; a payload that is applied again can
\* then take the torrent back and leave its name.
NoTorrents ==
  /\ \A u \in Url : Kind[u] # "Torrent" /\ "Torrent" \notin Served[u]
  /\ \A p \in Payloads : p.protocol # "Torrent"
  /\ "Torrent" \notin Choices

\* No torrent is shown, nor will an answer make one.
Clear(s) ==
  /\ s.w.protocol # "Torrent"
  /\ \A c \in BagToSet(s.probes) : c.was # "Torrent"
  /\ s.w.credTimer.on => s.w.credTimer.protocol # "Torrent"

\* The name is that of the URL in the box, or will be.
WillBeNamed(s) == s.w.name = s.w.url \/ s.w.url \in s.naming

\* The effects bring in no torrent, and name nothing but the URL in the box.
LEMMA BecomesClear ==
  ASSUME NoTorrents, NEW s, Good(s), Clear(s), NEW fresh \in BOOLEAN, Becomes(s, fresh)
  PROVE  /\ Clear(S')
         /\ s.w.url \in HasName /\ s.naming \subseteq {s.w.url} =>
              /\ naming' \subseteq {w'.url}
              /\ Moves(s, fresh) \/ WillBeNamed(s) => WillBeNamed(S')
<1> DEFINE Own(x) == x.w.url \in HasName /\ x.naming \subseteq {x.w.url}
<1>1. PICK a, b, c, d, e :
        /\ Good(a) /\ Good(b) /\ Good(c) /\ Good(d) /\ Good(e)
        /\ \/ Moves(s, fresh) /\ a = CookieEffect(s) /\ b = UrlEffect(a)
           \/ ~Moves(s, fresh) /\ a = s /\ b = s
        /\ c \in {CookieEffect(b), b} /\ d \in {UrlEffect(c), c}
        /\ e \in {CredEffect(d), d}
        /\ S' = e
  BY Rounds
<1>2. ASSUME NEW x, Good(x), Clear(x)
      PROVE  LET r == CookieEffect(x) IN
             Clear(r) /\ (Own(x) => Own(r)) /\ (WillBeNamed(x) => WillBeNamed(r))
  <2> DEFINE r == CookieEffect(x)
  <2>1. Kept(r.w, x.w) /\ Asks(r, x) /\ r.naming = x.naming
    BY <1>2, CookieEffects
  <2> HIDE DEF r
  <2>2. \A y \in BagToSet(r.probes) : y.was # "Torrent"
    BY <1>2, <2>1 DEF Asks, Clear
  <2>3. Clear(r) /\ (Own(x) => Own(r)) /\ (WillBeNamed(x) => WillBeNamed(r))
    BY <1>2, <2>1, <2>2 DEF Kept, Clear, WillBeNamed
  <2> QED
    BY <2>3 DEF r
<1>3. ASSUME NEW x, Good(x), Clear(x)
      PROVE  LET r == UrlEffect(x) IN
             Clear(r) /\ (Own(x) => Own(r) /\ WillBeNamed(r))
  <2> DEFINE r == UrlEffect(x)
  <2>1. /\ Told(r.w, x.w) /\ r.probes = x.probes /\ r.w.credTimer = x.w.credTimer
        /\ x.w.url = NoUrl => Emptied(r, x)
        /\ x.w.url \in HasName => Named0(r, x)
        /\ x.w.url \in Url \ HasName => Named0(r, x) \/ Nameless(r, x)
    BY <1>3, UrlEffects
  <2> HIDE DEF r
  <2>2. x.w.url \in Url \cup {NoUrl}
    BY <1>3 DEF Good, Window
  <2>3. x.w.url \in Url => /\ NextProtocol(x.w.url, x.w.protocol) # "Torrent"
                           /\ CleanName(x.w) = x.w.url
    BY <1>3 DEF Clear, NoTorrents, NextProtocol, CleanName
  <2>4. r.w.protocol # "Torrent"
    BY <1>3, <2>1, <2>2, <2>3, Links DEF Clear, Emptied, Named0, Nameless
  <2>5. Clear(r)
    BY <1>3, <2>1, <2>4 DEF Clear
  <2>6. Own(x) => Own(r) /\ WillBeNamed(r)
    BY <2>1, <2>3, Links DEF Named0, Told, WillBeNamed
  <2> QED
    BY <2>5, <2>6 DEF r
<1>4. ASSUME NEW x, Good(x), Clear(x)
      PROVE  LET r == CredEffect(x) IN
             Clear(r) /\ (Own(x) => Own(r)) /\ (WillBeNamed(x) => WillBeNamed(r))
  <2> DEFINE r == CredEffect(x)
  <2>1. /\ Told(r.w, x.w) /\ r.probes = x.probes /\ r.naming = x.naming
        /\ r.w.protocol = x.w.protocol /\ r.w.name = x.w.name
        /\ \/ r.w.credTimer = Off
           \/ r.w.credTimer = [on |-> TRUE, url |-> x.w.url, protocol |-> x.w.protocol,
                               custom |-> x.w.custom]
    BY <1>4, CredEffects
  <2> HIDE DEF r
  <2>2. Clear(r)
    BY <1>4, <2>1 DEF Clear, Off
  <2>3. (Own(x) => Own(r)) /\ (WillBeNamed(x) => WillBeNamed(r))
    BY <2>1 DEF Told, WillBeNamed
  <2> QED
    BY <2>2, <2>3 DEF r
<1> HIDE DEF Own
<1>5. Clear(a) /\ (Own(s) => Own(a))
  BY <1>1, <1>2
<1>6. Clear(b) /\ (Own(s) => Own(b) /\ (Moves(s, fresh) \/ WillBeNamed(s) => WillBeNamed(b)))
  BY <1>1, <1>3, <1>5
<1>7. Clear(c) /\ (Own(b) => Own(c)) /\ (WillBeNamed(b) => WillBeNamed(c))
  BY <1>1, <1>2, <1>6
<1>8. Clear(d) /\ (Own(c) => Own(d)) /\ (Own(c) /\ WillBeNamed(c) => WillBeNamed(d))
  BY <1>1, <1>3, <1>7
<1>9. Clear(e) /\ (Own(d) => Own(e)) /\ (WillBeNamed(d) => WillBeNamed(e))
  BY <1>1, <1>4, <1>8
<1>10. Clear(S')
  BY <1>1, <1>9
<1>11. Own(s) => /\ Own(S')
                 /\ Moves(s, fresh) \/ WillBeNamed(s) => WillBeNamed(S')
  BY <1>1, <1>6, <1>7, <1>8, <1>9
<1>12. S'.naming = naming' /\ S'.w = w'
  BY DEF S
<1> QED
  BY <1>10, <1>11, <1>12 DEF Own

\* The inductive invariant of the names.
NameInv ==
  /\ Clear(S)
  /\ calm.url /\ w.url \in HasName => naming \subseteq {w.url} /\ WillBeNamed(S)

\* What a handler must see to for the names.
LEMMA HandledName ==
  ASSUME NoTorrents, NEW s, Good(s), Clear(s), NEW fresh \in BOOLEAN, Becomes(s, fresh),
         calm'.url /\ s.w.url \in HasName =>
           s.naming \subseteq {s.w.url} /\ (Moves(s, fresh) \/ WillBeNamed(s))
  PROVE  NameInv'
<1>1. w'.url = s.w.url
  BY BecomesBox
<1> QED
  BY <1>1, BecomesClear DEF NameInv

\* A handler that leaves the names alone and asks nothing about a torrent.
LEMMA WindowName ==
  ASSUME NoTorrents, Inv, NameInv, NEW v \in Window,
         v.protocol # "Torrent", v.credTimer \in {Off, w.credTimer},
         NEW fresh \in BOOLEAN, NEW s, Becomes(s, fresh),
         Good(s), Alike(s.w, v), s.naming = naming,
         \A x \in BagToSet(s.probes) : x \in BagToSet(probes) \/ x.was # "Torrent",
         calm'.url /\ v.url \in HasName =>
           /\ naming \subseteq {v.url}
           /\ fresh \/ v.url # w.url \/ v.name = v.url \/ v.url \in naming
  PROVE  NameInv'
<1>1. Clear(S) /\ S.w = w /\ S.probes = probes
  BY Facts DEF NameInv
<1>2. Clear(s)
  BY <1>1 DEF Clear, Alike, Off
<1>3. calm'.url /\ s.w.url \in HasName =>
        s.naming \subseteq {s.w.url} /\ (Moves(s, fresh) \/ WillBeNamed(s))
  BY DEF Moves, WillBeNamed, Alike
<1> QED
  BY <1>2, <1>3, HandledName

\* What is known of the names before a step.
LEMMA NameFacts ==
  ASSUME Inv, NameInv
  PROVE  /\ w.protocol # "Torrent" /\ Good(S) /\ w \in Window
         /\ w.credTimer.on => w.credTimer.protocol # "Torrent"
         /\ \A c \in BagToSet(probes) : c.was # "Torrent"
         /\ calm.url /\ w.url \in HasName =>
              naming \subseteq {w.url} /\ (w.name = w.url \/ w.url \in naming)
BY Facts DEF NameInv, Clear, WillBeNamed

\* The steps, for the names.
LEMMA EngineLoadedName == ASSUME NoTorrents, Inv, NameInv, EngineLoaded PROVE NameInv'
<1> DEFINE v == LoadInitialEngineAndQueues(w)
           s == [S EXCEPT !.w = v]
<1>1. v \in Window /\ v.protocol = w.protocol /\ v.url = w.url /\ v.credTimer = w.credTimer
  BY NameFacts, ZenonT(90) DEF LoadInitialEngineAndQueues, Window, Rules
<1>2. Becomes(s, TRUE) /\ calm' = calm
  BY DEF EngineLoaded
<1> HIDE DEF v
<1>3. Good(s) /\ s.w = v /\ s.probes = probes /\ s.naming = naming
  BY <1>1, NameFacts, Puts
<1> HIDE DEF s
<1> QED
  BY <1>1, <1>2, <1>3, NameFacts, WindowName DEF Alike

LEMMA ApplyPayloadName == ASSUME NoTorrents, Inv, NameInv, ApplyPayload PROVE NameInv'
<1> DEFINE u == payload.url
           v == [w EXCEPT !.rules = "loaded", !.path = "folder", !.manual = FALSE,
                          !.evaluated = {payload.cookie}, !.cookie = payload.cookie,
                          !.url = u, !.protocol = PayloadProtocol(@)]
           c == [url |-> u, protocol |-> PayloadProtocol("Auto"), was |-> "Auto",
                 cookie |-> payload.cookie, custom |-> FALSE]
           s == Probe([S EXCEPT !.w = v], c, TRUE)
<1>0. w \in Window /\ Rest /\ w.protocol # "Torrent"
  BY Facts, NameFacts
<1>1. /\ v \in Window /\ v.url = u /\ v.credTimer = w.credTimer
      /\ v.protocol = PayloadProtocol(w.protocol)
      /\ c \in Snapshot /\ c.was = "Auto"
  BY Applied
<1>2. v.protocol # "Torrent"
  BY <1>0, <1>1 DEF Rest, PayloadProtocol, NoTorrents
<1>4. Becomes(s, TRUE) /\ (calm'.url => (calm.url /\ w.url = u) \/ Idle)
  BY <1>0 DEF ApplyPayload, Rest
<1> HIDE DEF v, c, u
<1>5. Good(s) /\ Alike(s.w, v) /\ s.naming = naming
      /\ BagToSet(s.probes) = BagToSet(probes) \cup {c}
  BY <1>1, NameFacts, Asked
<1> HIDE DEF s
<1>6. calm'.url /\ v.url \in HasName => naming \subseteq {v.url}
  BY <1>1, <1>4, NameFacts DEF Idle
<1> QED
  BY <1>1, <1>2, <1>4, <1>5, <1>6, WindowName

\* A probe asked for while the box stays.
LEMMA AskedName ==
  ASSUME NoTorrents, Inv, NameInv, NEW v \in Window,
         v.url = w.url, v.protocol = w.protocol, v.name = w.name,
         v.credTimer \in {Off, w.credTimer},
         NEW c \in Snapshot, c.was # "Torrent", NEW force \in BOOLEAN,
         Becomes(Probe([S EXCEPT !.w = v], c, force), FALSE), calm' = calm
  PROVE  NameInv'
<1> DEFINE s == Probe([S EXCEPT !.w = v], c, force)
<1>1. Good(s) /\ Alike(s.w, v) /\ s.naming = naming
      /\ BagToSet(s.probes) \subseteq BagToSet(probes) \cup {c}
  BY NameFacts, Asked
<1>2. Becomes(s, FALSE)
  OBVIOUS
<1> HIDE DEF s
<1> QED
  BY <1>1, <1>2, NameFacts, WindowName

LEMMA UrlTimerName == ASSUME NoTorrents, Inv, NameInv, UrlTimer PROVE NameInv'
<1> DEFINE v == [w EXCEPT !.urlTimer = Off]
           cookie == IF w.manual THEN Closure(w).cookie
                     ELSE ~Bypassed(w.url, w.protocol, w.rules)
           c == [Closure(w) EXCEPT !.custom = w.urlTimer.custom, !.cookie = cookie]
<1>0. w \in Window /\ Timed(S) /\ S.w = w
  BY Facts
<1>1. v \in Window /\ v.url = w.url /\ v.protocol = w.protocol /\ v.name = w.name
      /\ v.credTimer = w.credTimer
  BY <1>0 DEF Window
<1>2. w.urlTimer.on /\ w.url \in Url
  BY <1>0 DEF UrlTimer, Timed
<1>3. w.urlTimer.custom \in BOOLEAN
  <2>1. w.urlTimer \in {Off} \cup [on : {TRUE}, custom : BOOLEAN]
    BY <1>0 DEF Window
  <2>2. w.urlTimer # Off
    BY <1>2 DEF Off
  <2> QED
    BY <2>1, <2>2
<1>4. cookie \in BOOLEAN
  BY <1>0 DEF Window, Closure, Bypassed
<1>5. Becomes(Probe([S EXCEPT !.w = v], c, FALSE), FALSE) /\ calm' = calm
  BY Zenon DEF UrlTimer
<1> HIDE DEF cookie
<1>6. c \in Snapshot /\ c.was = w.protocol
  BY <1>0, <1>2, <1>3, <1>4 DEF Window, Closure, Snapshot
<1> HIDE DEF v, c
<1> QED
  BY <1>1, <1>5, <1>6, NameFacts, AskedName

LEMMA CredTimerName == ASSUME NoTorrents, Inv, NameInv, CredTimer PROVE NameInv'
<1> DEFINE v == [w EXCEPT !.credTimer = Off]
           t == w.credTimer
           c == [Closure(w) EXCEPT !.url = t.url, !.protocol = t.protocol,
                                   !.was = t.protocol, !.custom = t.custom]
<1>0. w \in Window /\ t.on /\ t.protocol # "Torrent"
  BY NameFacts DEF CredTimer
<1>1. v \in Window /\ v.url = w.url /\ v.protocol = w.protocol /\ v.name = w.name
      /\ v.credTimer = Off
  BY <1>0 DEF Window
<1>3. t \in [on : {TRUE}, url : Url, protocol : Protocol, custom : BOOLEAN]
  <2>1. t \in {Off} \cup [on : {TRUE}, url : Url, protocol : Protocol, custom : BOOLEAN]
    BY <1>0 DEF Window
  <2>2. t # Off
    BY <1>0 DEF Off
  <2> QED
    BY <2>1, <2>2
<1>5. Becomes(Probe([S EXCEPT !.w = v], c, FALSE), FALSE) /\ calm' = calm
  BY Zenon DEF CredTimer
<1>6. c \in Snapshot /\ c.was = t.protocol
  <2> HIDE DEF t
  <2> QED
    BY <1>0, <1>3 DEF Window, Closure, Snapshot
<1> HIDE DEF v, c
<1> QED
  BY <1>0, <1>1, <1>5, <1>6, AskedName

LEMMA RefreshInfoName == ASSUME NoTorrents, Inv, NameInv, RefreshInfo PROVE NameInv'
<1>1. S = [S EXCEPT !.w = w]
  BY DEF S
<1>2. Becomes(Probe([S EXCEPT !.w = w], Closure(w), FALSE), FALSE) /\ calm' = calm
  BY <1>1 DEF RefreshInfo, Edit
<1>3. Closure(w) \in Snapshot /\ Closure(w).was = w.protocol
  BY NameFacts, Captured DEF RefreshInfo, Closure
<1> QED
  BY <1>2, <1>3, NameFacts, AskedName

LEMMA ProbeOverName == ASSUME NoTorrents, Inv, NameInv, ProbeOver PROVE NameInv'
<1>0. Good(S) /\ Asking /\ S.w = w /\ S.probes = probes /\ calm' = calm
  BY Facts DEF ProbeOver
<1>c. PICK c \in BagToSet(probes) : \E s : Becomes(s, FALSE) /\ Good(s) /\ AfterCall(s, c)
  BY <1>0, CallOver
<1>1. PICK s : c \in BagToSet(probes) /\ Becomes(s, FALSE) /\ Good(s) /\ AfterCall(s, c)
  BY <1>c
<1>2. c.was # "Torrent" /\ c.url \in Url
  BY <1>0, NameFacts DEF Good, Snapshot
<1>3. s.w.protocol # "Torrent"
  BY <1>1, <1>2, NameFacts, Founds DEF AfterCall, NoTorrents
<1>4. Clear(s)
  BY <1>1, <1>3, NameFacts DEF AfterCall, Clear
<1>5. calm'.url /\ s.w.url \in HasName => s.naming \subseteq {s.w.url} /\ WillBeNamed(s)
  BY <1>0, <1>1, NameFacts DEF AfterCall, Asking, About, WillBeNamed
<1> QED
  BY <1>1, <1>4, <1>5, HandledName

LEMMA EditUrlName ==
  ASSUME NoTorrents, Inv, NameInv, NEW u \in Typed, EditUrl(u)
  PROVE  NameInv'
<1> DEFINE v == [w EXCEPT !.url = u]
           s == [S EXCEPT !.w = v]
<1>1. v \in Window /\ v.url = u /\ v.protocol = w.protocol /\ v.credTimer = w.credTimer
  BY NameFacts, ConstantsAssumption DEF Window
<1>2. Becomes(s, FALSE) /\ u # w.url /\ (calm'.url => naming = {})
  BY DEF EditUrl, Edit, Quiet, Idle
<1> HIDE DEF v
<1>3. Good(s) /\ s.w = v /\ s.probes = probes /\ s.naming = naming
  BY <1>1, NameFacts, Puts
<1> HIDE DEF s
<1> QED
  BY <1>1, <1>2, <1>3, NameFacts, WindowName DEF Alike

LEMMA ToggleUseCookieName ==
  ASSUME NoTorrents, Inv, NameInv, ToggleUseCookie
  PROVE  NameInv'
<1> DEFINE v == [w EXCEPT !.manual = TRUE, !.cookie = ~@]
           c == [Closure(w) EXCEPT !.cookie = v.cookie]
           s == [S EXCEPT !.w = v]
<1>0. w \in Window /\ Rest
  BY Facts
<1>1. v \in Window /\ v.url = w.url /\ v.protocol = w.protocol /\ v.name = w.name
      /\ v.credTimer = w.credTimer /\ v.cookie \in BOOLEAN
  BY <1>0, Toggled
<1>2. Becomes(IF w.url = NoUrl THEN s ELSE Probe(s, c, TRUE), FALSE) /\ calm' = calm
  BY Zenon DEF ToggleUseCookie, Edit
<1> HIDE DEF v
<1>3. CASE w.url = NoUrl
  <2>1. Good(s) /\ s.w = v /\ s.probes = probes /\ s.naming = naming
    BY <1>1, NameFacts, Puts
  <2>2. Becomes(s, FALSE)
    BY <1>2, <1>3
  <2> HIDE DEF s
  <2> QED
    BY <1>1, <1>2, <2>1, <2>2, NameFacts, WindowName DEF Alike
<1>4. CASE w.url # NoUrl
  <2>1. c \in Snapshot /\ c.was = w.protocol
    BY <1>1, <1>4, NameFacts, Captured
  <2>2. Becomes(Probe([S EXCEPT !.w = v], c, TRUE), FALSE)
    BY <1>2, <1>4
  <2> HIDE DEF c
  <2> QED
    BY <1>1, <1>2, <2>1, <2>2, NameFacts, AskedName
<1> QED
  BY <1>3, <1>4

LEMMA ProtocolChangeName ==
  ASSUME NoTorrents, Inv, NameInv, NEW p \in Choices, ProtocolChange(p)
  PROVE  NameInv'
<1> DEFINE v == [w EXCEPT !.protocol = p]
           c == [Closure(w) EXCEPT !.protocol = p]
           s == IF w.url = NoUrl THEN [S EXCEPT !.w = v]
                ELSE Probe([S EXCEPT !.w = v], c, TRUE)
<1>0. w \in Window /\ p \in Protocol /\ p # "Torrent"
  BY NameFacts, ConstantsAssumption DEF NoTorrents
<1>1. v \in Window /\ v.protocol # "Torrent" /\ v.credTimer = w.credTimer
  BY <1>0, ZenonT(90) DEF Window
<1>2. Becomes(s, FALSE)
  BY Zenon DEF ProtocolChange, Edit
<1>3. ~calm'.url
  BY Facts DEF ProtocolChange, Rest
<1>4. w.url # NoUrl => c \in Snapshot /\ c.was # "Torrent"
  BY <1>0, NameFacts DEF Closure, Window, Snapshot
<1> HIDE DEF v, c
<1>5. Good(s) /\ Alike(s.w, v) /\ s.naming = naming
      /\ BagToSet(s.probes) \subseteq BagToSet(probes) \cup {c}
      /\ (w.url = NoUrl => BagToSet(s.probes) = BagToSet(probes))
  <2>1. CASE w.url = NoUrl
    BY <1>1, <2>1, NameFacts, Puts DEF Alike
  <2>2. CASE w.url # NoUrl
    BY <1>1, <1>4, <2>2, NameFacts, Asked
  <2> QED
    BY <2>1, <2>2
<1> HIDE DEF s
<1> QED
  BY <1>1, <1>2, <1>3, <1>4, <1>5, WindowName

\* The folder is none of the names' business.
LEMMA FolderName ==
  ASSUME NoTorrents, Inv, NameInv,
         NEW path \in {"folder", "picked"}, NEW custom \in BOOLEAN,
         Becomes([S EXCEPT !.w = [w EXCEPT !.path = path, !.custom = custom]], FALSE),
         calm'.url = calm.url
  PROVE  NameInv'
<1> DEFINE v == [w EXCEPT !.path = path, !.custom = custom]
           s == [S EXCEPT !.w = v]
<1>0. w \in Window
  BY NameFacts
<1>1. v \in Window /\ v.url = w.url /\ v.protocol = w.protocol /\ v.name = w.name
      /\ v.credTimer = w.credTimer
  BY <1>0, ZenonT(90) DEF Window
<1>2. Becomes(s, FALSE)
  OBVIOUS
<1> HIDE DEF v
<1>3. Good(s) /\ s.w = v /\ s.probes = probes /\ s.naming = naming
  BY <1>1, NameFacts, Puts
<1> HIDE DEF s
<1> QED
  BY <1>1, <1>2, <1>3, NameFacts, WindowName DEF Alike

LEMMA PickSavePathName == ASSUME NoTorrents, Inv, NameInv, PickSavePath PROVE NameInv'
<1>1. Becomes([S EXCEPT !.w = [w EXCEPT !.path = "picked", !.custom = TRUE]], FALSE)
  BY DEF PickSavePath, Edit
<1>2. calm'.url = calm.url
  BY Facts DEF PickSavePath, Rest
<1> QED
  BY <1>1, <1>2, FolderName

LEMMA CategoryChangeName == ASSUME NoTorrents, Inv, NameInv, CategoryChange PROVE NameInv'
BY FolderName DEF CategoryChange, Edit

LEMMA NameResolvedName == ASSUME NoTorrents, Inv, NameInv, NameResolved PROVE NameInv'
<1>1. PICK u \in naming : naming' = naming \ {u} /\ w' = [w EXCEPT !.name = u]
  BY DEF NameResolved
<1>2. /\ w'.url = w.url /\ w'.protocol = w.protocol /\ w'.credTimer = w.credTimer
      /\ w'.name = u
  BY <1>1, NameFacts DEF Window
<1>3. S'.w = w' /\ S'.probes = probes /\ S'.naming = naming \ {u} /\ calm' = calm
      /\ naming' = naming \ {u}
  BY <1>1 DEF NameResolved, S
<1> QED
  BY <1>2, <1>3, NameFacts DEF NameInv, Clear, WillBeNamed

\* A new window, and one that is gone.
LEMMA BlankName ==
  ASSUME w = Blank, probes = EmptyBag
  PROVE  NameInv
<1>1. S.w = Blank /\ BagToSet(S.probes) = {}
  BY InBags DEF S
<1>2. Blank.url \notin HasName /\ Blank.protocol # "Torrent" /\ ~Blank.credTimer.on
  BY Links DEF Blank, Off
<1> QED
  BY <1>1, <1>2 DEF NameInv, Clear

LEMMA GoneName == Gone => NameInv'
<1> SUFFICES ASSUME Gone PROVE NameInv'
  OBVIOUS
<1>1. S'.w = Blank /\ BagToSet(S'.probes) = {} /\ w' = Blank
  BY InBags DEF S, Gone
<1>2. Blank.url \notin HasName /\ Blank.protocol # "Torrent" /\ ~Blank.credTimer.on
  BY Links DEF Blank, Off
<1> QED
  BY <1>1, <1>2 DEF NameInv, Clear

\* Without torrents: once all has settled, the size and the name shown as fetched are
\* those of the URL put in the box, however probes, timers, names and copies of the
\* payload were interleaved; and "Checking..." is shown only while a probe is under way.
THEOREM ShownIsWhatWasChecked == ASSUME NoTorrents PROVE Spec => []ShownIsChecked
<1>1. Init => NameInv
  BY BlankName DEF Init
<1>2. Inv /\ NameInv /\ [Next]_vars => NameInv'
  <2> SUFFICES ASSUME Inv, NameInv, [Next]_vars PROVE NameInv'
    OBVIOUS
  <2>1. ASSUME UNCHANGED <<w, probes, naming, calm>> PROVE NameInv'
    <3>1. S' = S
      BY <2>1 DEF S
    <3> QED
      BY <2>1, <3>1 DEF NameInv
  <2>2. MissPayload \/ Submit \/ UNCHANGED vars => UNCHANGED <<w, probes, naming, calm>>
    BY DEF MissPayload, Submit, vars
  <2>3. Created \/ Close => Gone \/ UNCHANGED <<w, probes, naming, calm>>
    BY DEF Created, Close
  <2> QED
    BY <2>1, <2>2, <2>3, GoneName, EngineLoadedName, ApplyPayloadName, UrlTimerName,
       CredTimerName, ProbeOverName, NameResolvedName, EditUrlName, ToggleUseCookieName,
       ProtocolChangeName, RefreshInfoName, PickSavePathName, CategoryChangeName
       DEF Next, User
<1>3. Inv /\ NameInv => ShownIsChecked
  <2> SUFFICES ASSUME Inv, NameInv PROVE ShownIsChecked
    OBVIOUS
  <2>1. TypeOK /\ (w.fetching => probes # EmptyBag)
    BY InvTypes, Facts, InBags DEF Sane, S
  <2>2. ASSUME calm.url, Quiet, w.url \in HasName, w.fetched
        PROVE  w.size = w.url /\ w.name = w.url
    BY <2>2, Facts, Nothing, NameFacts DEF S, Asking, Sized, Quiet, Idle
  <2> QED
    BY <2>1, <2>2 DEF ShownIsChecked
<1> QED
  BY <1>1, <1>2, <1>3, InvCorrect, PTL DEF Spec
-----------------------------------------------------------------------------
(***************************************************************************)
(* The two dialogs of the header: module Updater.                          *)
(***************************************************************************)

Views == [shows : {"none", "loading", "success", "missing", "failed"}, mandatory : BOOLEAN]
Requests == [op : {"presence", "update", "install"}, mandatory : BOOLEAN,
             answer : {"none", "missing", "success", "failed"}]
Messages == {"progress", "ready", "fetched", "failed"}

\* What is in a bag after something was put in, taken out or replaced.
LEMMA InBag ==
  ASSUME NEW bag, NEW x, NEW y
  PROVE  /\ BagToSet(Plus(bag, x)) = BagToSet(bag) \cup {x}
         /\ BagToSet(bag (-) One(x)) \subseteq BagToSet(bag)
         /\ BagToSet(Swap(bag, x, y)) \subseteq BagToSet(bag) \cup {y}
  BY DEF Plus, One, Swap, BagToSet, SetToBag, (+), (-)

\* A call put in keeps the bag one of calls.
LEMMA StillRequests ==
  ASSUME NEW bag, NEW x \in Requests, BagToSet(bag) \subseteq Requests
  PROVE  BagToSet(Plus(bag, x)) \subseteq Requests
<1>1. BagToSet(Plus(bag, x)) = BagToSet(bag) \cup {x}
  BY InBag
<1> QED
  BY <1>1

\* The bag that holds nothing at first.
LEMMA NothingInBag == BagToSet(EmptyBag) = {}
  BY DEF BagToSet, EmptyBag, SetToBag

\* The end of a download sends three messages at once.
LEMMA EndInBag ==
  ASSUME NEW bag
  PROVE  BagToSet(bag (+) SetToBag({"progress", "ready", "fetched"}))
           = BagToSet(bag) \cup {"progress", "ready", "fetched"}
  BY DEF BagToSet, SetToBag, (+)

\* What UpdaterTypeOK says, with what the counters count.
Counted == checks <= clicks /\ fetching <= fetches

\* A download that has ended well is stored before anything is told of it.
Staged ==
  /\ update = "ready" => staged
  /\ BagToSet(air) \cap {"ready", "fetched"} # {} => staged

\* Only an install is mandatory, and one that has succeeded has put yt-dlp there; the
\* mandatory setup offers to install or waits for it.
Mandatory ==
  /\ tools.mandatory => tools.shows \in {"loading", "missing"}
  /\ \A call \in BagToSet(calls) :
       /\ call.mandatory => call.op = "install"
       /\ call.op = "install" => call.answer # "missing"
       /\ call.op = "install" /\ call.answer = "success" => "ytdlp" \in installed

\* What the dialogs can show.
LEMMA ViewTypes ==
  /\ \A shows \in {"none", "loading", "success", "missing", "failed"}, mandatory \in BOOLEAN :
       View(shows, mandatory) \in Views
  /\ Closed \in Views /\ Setup \in Views
  BY DEF View, Closed, Setup, Views

\* A call, its answer and what the dialog shows of it.
LEMMA CallTypes ==
  /\ \A op \in {"presence", "update", "install"}, mandatory \in BOOLEAN :
       Call(op, mandatory, "none") \in Requests
  /\ \A call \in Requests, answer \in {"missing", "success", "failed"} :
       [call EXCEPT !.answer = answer] \in Requests
  /\ \A call \in Requests : call.answer # "none" => Outcome(call) \in Views
  BY ViewTypes DEF Call, Requests, Outcome

\* What the backend answers, given the tools it has.
LEMMA AnswerTypes ==
  ASSUME NEW op \in {"presence", "update", "install"}, NEW have
  PROVE  /\ AnswerOf(op, have) \in {"missing", "success", "failed"}
         /\ op = "install" => AnswerOf(op, have) # "missing"
         /\ op = "install" /\ AnswerOf(op, have) = "success" => "ytdlp" \in have
         /\ Does(op) \subseteq Tool
  BY DEF AnswerOf, Does, Tool

\* Every reachable state has its type; no more checks and downloads run than were asked.
THEOREM UpdaterTypeCorrect == UpdaterSpec => [](UpdaterTypeOK /\ Counted)
<1>1. UpdaterInit => UpdaterTypeOK /\ Counted
  <2> SUFFICES ASSUME UpdaterInit PROVE UpdaterTypeOK /\ Counted
    OBVIOUS
  <2>1. tools \in Views
    BY ViewTypes DEF UpdaterInit
  <2>2. BagToSet(calls) = {} /\ BagToSet(air) = {}
    BY NothingInBag DEF UpdaterInit
  <2>3. checks = 0 /\ fetching = 0 /\ clicks = 0 /\ fetches = 0 /\ events = 0
    BY DEF UpdaterInit
  <2>4. 0 \in 0..MaxMenu /\ 0 \in 0..MaxFetches /\ 0 \in 0..MaxProgress
    BY UpdaterAssumption
  <2>5. Counted
    BY <2>3 DEF Counted
  <2> QED
    BY <2>1, <2>2, <2>3, <2>4, <2>5 DEF UpdaterInit, UpdaterTypeOK, Views
<1>2. UpdaterTypeOK /\ Counted /\ [UpdaterNext]_updaterVars => UpdaterTypeOK' /\ Counted'
  <2> SUFFICES ASSUME UpdaterTypeOK, Counted, [UpdaterNext]_updaterVars
               PROVE  UpdaterTypeOK' /\ Counted'
    OBVIOUS
  <2>0. BagToSet(calls) \subseteq Requests
    BY DEF UpdaterTypeOK, Requests
  <2> USE UpdaterAssumption, ViewTypes
      DEF UpdaterTypeOK, Counted, dialogs, budget, ShowUpdate, ShowTools, Restage
  <2> DEFINE Goal == UpdaterTypeOK' /\ Counted'
  <2>1. ASSUME StartupAsks \/ StartupOffers PROVE Goal
    BY <2>1 DEF StartupAsks, StartupOffers, Stage
  <2>2. CASE StartupFindsNone
    BY <2>2 DEF StartupFindsNone, CheckSilently, Views
  <2>3. ASSUME SilentLooks \/ SilentNeedsSetup \/ SilentIsReady PROVE Goal
    BY <2>3 DEF SilentLooks, SilentNeedsSetup, SilentIsReady, Views
  <2>4. CASE HandleCheckAppUpdate
    BY <2>4 DEF HandleCheckAppUpdate, Menu, Stage
  <2>5. CASE CheckAnswered
    BY <2>5 DEF CheckAnswered, Stage
  <2>6. CASE HandleMediaTools
    <3>1. PICK op \in {"presence", "update", "install"} :
            calls' = Plus(calls, Call(op, FALSE, "none"))
      BY <2>6 DEF HandleMediaTools
    <3>2. Call(op, FALSE, "none") \in Requests
      BY CallTypes
    <3>3. BagToSet(calls') \subseteq Requests
      BY <2>0, <3>1, <3>2, StillRequests
    <3>4. tools' \in Views /\ top' \in {"update", "tools"}
      BY <2>6 DEF HandleMediaTools
    <3>5. clicks' = clicks + 1 /\ clicks' \in 0..MaxMenu
      BY <2>6 DEF HandleMediaTools, Menu
    <3>6. UNCHANGED <<update, startup, silent, checks, fetching, air, staged, installed, running,
                      fetches, events>>
      BY <2>6 DEF HandleMediaTools
    <3>7. Counted'
      BY <3>5, <3>6
    <3> QED
      BY <3>3, <3>4, <3>5, <3>6, <3>7 DEF Requests, Views
  <2>7. CASE HandleInstallYTDLP
    <3>1. tools.mandatory \in BOOLEAN
      OBVIOUS
    <3>2. Call("install", tools.mandatory, "none") \in Requests
      BY <3>1, CallTypes
    <3>3. calls' = Plus(calls, Call("install", tools.mandatory, "none"))
      BY <2>7 DEF HandleInstallYTDLP
    <3>4. BagToSet(calls') \subseteq Requests
      BY <2>0, <3>2, <3>3, StillRequests
    <3> QED
      BY <2>7, <3>4 DEF HandleInstallYTDLP, Requests, Views
  <2>8. CASE BackendServes
    <3>1. PICK call \in BagToSet(calls) : \E got \in SUBSET Does(call.op) :
            /\ installed' = installed \cup got
            /\ calls' = Swap(calls, call, [call EXCEPT !.answer = AnswerOf(call.op, installed')])
            /\ UNCHANGED <<dialogs, startup, silent, checks, fetching, air, staged, running, budget>>
      BY <2>8 DEF BackendServes
    <3>2. call \in Requests /\ call.op \in {"presence", "update", "install"}
      BY DEF Requests
    <3>3. [call EXCEPT !.answer = AnswerOf(call.op, installed')] \in Requests
      BY <3>2, CallTypes, AnswerTypes
    <3>4. BagToSet(calls') \subseteq Requests
      BY <3>1, <3>3, InBag DEF Requests
    <3>5. installed' \subseteq Tool
      BY <3>1, <3>2, AnswerTypes
    <3> QED
      BY <3>1, <3>4, <3>5 DEF Requests
  <2>9. CASE ToolsAnswered
    <3>1. PICK call \in BagToSet(calls) :
            /\ \/ call.answer # "none" /\ ShowTools(Outcome(call))
               \/ ShowTools(Outcome([call EXCEPT !.answer = "failed"]))
            /\ calls' = calls (-) One(call)
            /\ UNCHANGED <<update, startup, silent, checks, fetching, air, staged, installed,
                           running, budget>>
      BY <2>9 DEF ToolsAnswered
    <3>2. call \in Requests
      BY DEF Requests
    <3>3. [call EXCEPT !.answer = "failed"] \in Requests
          /\ [call EXCEPT !.answer = "failed"].answer = "failed"
      BY <3>2, CallTypes DEF Requests
    <3>4. tools' \in Views /\ top' \in {"update", "tools"}
      BY <3>1, <3>2, <3>3, CallTypes
    <3>5. BagToSet(calls') \subseteq Requests
      BY <3>1, InBag DEF Requests
    <3> QED
      BY <3>1, <3>4, <3>5 DEF Requests, Views
  <2>10. CASE HandleStartAppUpdate
    BY <2>10 DEF HandleStartAppUpdate, Stage
  <2>11. CASE FetchProgresses
    <3>1. BagToSet(air') = BagToSet(air) \cup {"progress"}
      BY <2>11, InBag DEF FetchProgresses
    <3> QED
      BY <2>11, <3>1 DEF FetchProgresses
  <2>12. CASE FetchEnds
    BY <2>12, EndInBag DEF FetchEnds
  <2>13. CASE FetchFails
    <3>1. BagToSet(air') = BagToSet(air) \cup {"failed"}
      BY <2>13, InBag DEF FetchFails
    <3> QED
      BY <2>13, <3>1 DEF FetchFails
  <2>14. CASE Hear
    BY <2>14, InBag DEF Hear, StageOf, Stage
  <2>15. CASE DismissUpdate
    BY <2>15 DEF DismissUpdate, CheckSilently, Views
  <2>16. CASE DismissTools
    BY <2>16 DEF DismissTools, Views
  <2>17. CASE Escape
    BY <2>17 DEF Escape, CheckSilently, Views
  <2>18. CASE HandleRestartAppForUpdate
    BY <2>18 DEF HandleRestartAppForUpdate
  <2>19. CASE UNCHANGED updaterVars
    BY <2>19 DEF updaterVars
  <2> QED
    BY <2>1, <2>2, <2>3, <2>4, <2>5, <2>6, <2>7, <2>8, <2>9, <2>10, <2>11, <2>12, <2>13, <2>14,
       <2>15, <2>16, <2>17, <2>18, <2>19
    DEF UpdaterNext, Startup, Silent, Backend, Answers, UpdaterUser
<1> QED
  BY <1>1, <1>2, PTL DEF UpdaterSpec

\* "Restart & Apply Update" is offered only once an update has been stored whole: the
\* messages that offer it are sent with the storing, and no other message does.
THEOREM ReadyUpdateIsStaged == UpdaterSpec => []ReadyIsStaged
<1>1. UpdaterInit => Staged
  BY NothingInBag DEF UpdaterInit, Staged
<1>2. UpdaterTypeOK /\ Staged /\ [UpdaterNext]_updaterVars => Staged'
  <2> SUFFICES ASSUME UpdaterTypeOK, Staged, [UpdaterNext]_updaterVars
               PROVE  Staged'
    OBVIOUS
  <2> USE DEF UpdaterTypeOK, Staged, dialogs, budget, ShowUpdate, ShowTools, Restage
  <2>1. ASSUME Startup \/ Silent PROVE Staged'
    BY <2>1 DEF Startup, Silent, StartupAsks, StartupOffers, StartupFindsNone, CheckSilently,
       SilentLooks, SilentNeedsSetup, SilentIsReady
  <2>2. ASSUME HandleCheckAppUpdate \/ HandleMediaTools \/ HandleInstallYTDLP
               \/ HandleStartAppUpdate \/ HandleRestartAppForUpdate
        PROVE  Staged'
    BY <2>2 DEF HandleCheckAppUpdate, HandleMediaTools, HandleInstallYTDLP,
       HandleStartAppUpdate, HandleRestartAppForUpdate
  <2>3. ASSUME DismissUpdate \/ DismissTools \/ Escape PROVE Staged'
    BY <2>3 DEF DismissUpdate, DismissTools, Escape
  <2>4. ASSUME CheckAnswered \/ ToolsAnswered \/ BackendServes PROVE Staged'
    BY <2>4 DEF CheckAnswered, ToolsAnswered, BackendServes
  <2>5. CASE FetchProgresses
    <3>1. BagToSet(air') = BagToSet(air) \cup {"progress"}
      BY <2>5, InBag DEF FetchProgresses
    <3> QED
      BY <2>5, <3>1 DEF FetchProgresses
  <2>6. CASE FetchEnds
    BY <2>6 DEF FetchEnds
  <2>7. CASE FetchFails
    <3>1. BagToSet(air') = BagToSet(air) \cup {"failed"}
      BY <2>7, InBag DEF FetchFails
    <3> QED
      BY <2>7, <3>1 DEF FetchFails
  <2>8. CASE Hear
    <3>1. PICK message \in BagToSet(air) :
            /\ Restage(StageOf(message))
            /\ air' = air (-) One(message)
            /\ staged' = staged
      BY <2>8 DEF Hear
    <3>2. BagToSet(air') \subseteq BagToSet(air)
      BY <3>1, InBag
    <3>3. StageOf(message) = "ready" => staged
      BY DEF StageOf
    <3> QED
      BY <3>1, <3>2, <3>3
  <2>9. CASE UNCHANGED updaterVars
    BY <2>9 DEF updaterVars
  <2> QED
    BY <2>1, <2>2, <2>3, <2>4, <2>5, <2>6, <2>7, <2>8, <2>9
    DEF UpdaterNext, Backend, Answers, UpdaterUser
<1>3. UpdaterTypeOK /\ Staged => ReadyIsStaged
  BY DEF Staged, ReadyIsStaged
<1> QED
  BY <1>1, <1>2, <1>3, UpdaterTypeCorrect, PTL DEF UpdaterSpec

\* A call of the tools' dialog is about an install when it is mandatory, and an install
\* that has succeeded has left yt-dlp on the disk.
LEMMA MandatoryStep ==
  ASSUME UpdaterTypeOK, Mandatory, [UpdaterNext]_updaterVars
  PROVE  Mandatory'
<1> USE DEF UpdaterTypeOK, Mandatory, dialogs, budget, ShowUpdate, ShowTools, Restage
<1>1. ASSUME Startup \/ Silent PROVE Mandatory'
  BY <1>1 DEF Startup, Silent, StartupAsks, StartupOffers, StartupFindsNone, CheckSilently,
     SilentLooks, SilentNeedsSetup, SilentIsReady, Setup, View
<1>2. ASSUME \/ HandleCheckAppUpdate \/ HandleStartAppUpdate \/ HandleRestartAppForUpdate
             \/ CheckAnswered \/ FetchProgresses \/ FetchEnds \/ FetchFails \/ Hear
      PROVE  Mandatory'
  BY <1>2 DEF HandleCheckAppUpdate, HandleStartAppUpdate, HandleRestartAppForUpdate, CheckAnswered,
     FetchProgresses, FetchEnds, FetchFails, Hear
<1>3. ASSUME DismissUpdate \/ DismissTools \/ Escape PROVE Mandatory'
  BY <1>3 DEF DismissUpdate, DismissTools, Escape, CheckSilently, Setup, Closed, View
<1>4. ASSUME NEW op \in {"presence", "update", "install"}, NEW mandatory \in BOOLEAN,
             mandatory => op = "install",
             calls' = Plus(calls, Call(op, mandatory, "none")),
             installed' = installed, tools' = View("loading", mandatory)
      PROVE  Mandatory'
  <2>1. BagToSet(calls') = BagToSet(calls) \cup {Call(op, mandatory, "none")}
    BY <1>4, InBag
  <2> QED
    BY <1>4, <2>1 DEF Call, View
<1>5. CASE HandleMediaTools
  BY <1>4, <1>5 DEF HandleMediaTools
<1>6. CASE HandleInstallYTDLP
  BY <1>4, <1>6 DEF HandleInstallYTDLP
<1>7. CASE BackendServes
  <2>1. PICK call \in BagToSet(calls) :
          \E got \in SUBSET Does(call.op) :
            /\ installed' = installed \cup got
            /\ calls' = Swap(calls, call, [call EXCEPT !.answer = AnswerOf(call.op, installed')])
            /\ tools' = tools
    BY <1>7 DEF BackendServes
  <2> DEFINE served == [call EXCEPT !.answer = AnswerOf(call.op, installed')]
  <2>2. call.op \in {"presence", "update", "install"}
    OBVIOUS
  <2>3. /\ served.op = call.op /\ served.mandatory = call.mandatory
        /\ served.answer = AnswerOf(call.op, installed')
    OBVIOUS
  <2>4. /\ call.op = "install" => served.answer # "missing"
        /\ call.op = "install" /\ served.answer = "success" => "ytdlp" \in installed'
    BY <2>2, <2>3, AnswerTypes
  <2> HIDE DEF served
  <2>5. BagToSet(calls') \subseteq BagToSet(calls) \cup {served}
    <3>1. calls' = Swap(calls, call, served)
      BY <2>1 DEF served
    <3> QED
      BY <3>1, InBag
  <2>6. installed \subseteq installed' /\ tools' = tools
    BY <2>1
  <2> QED
    BY <2>3, <2>4, <2>5, <2>6
<1>8. CASE ToolsAnswered
  <2>1. PICK call \in BagToSet(calls) :
          /\ \/ tools' = Outcome(call)
             \/ tools' = Outcome([call EXCEPT !.answer = "failed"])
          /\ calls' = calls (-) One(call)
          /\ installed' = installed
    BY <1>8 DEF ToolsAnswered
  <2>2. BagToSet(calls') \subseteq BagToSet(calls)
    BY <2>1, InBag
  <2>3. tools'.mandatory => tools'.shows \in {"loading", "missing"}
    BY <2>1 DEF Outcome, View
  <2> QED
    BY <2>1, <2>2, <2>3
<1>9. CASE UNCHANGED updaterVars
  BY <1>9 DEF updaterVars
<1> QED
  BY <1>1, <1>2, <1>3, <1>5, <1>6, <1>7, <1>8, <1>9 DEF UpdaterNext, Backend, Answers, UpdaterUser

\* The mandatory setup gives way to yt-dlp or to the answer of a call that was not
\* mandatory, whatever is closed, answered or fails.
THEOREM SetupHolds == UpdaterSpec => MandatoryHolds
<1> DEFINE Step == tools.mandatory /\ ~tools'.mandatory =>
              \/ "ytdlp" \in installed
              \/ \E call \in BagToSet(calls) : ~call.mandatory /\ calls' = calls (-) One(call)
<1>1. UpdaterInit => Mandatory
  BY NothingInBag DEF UpdaterInit, Mandatory, Closed, View
<1>2. ASSUME UpdaterTypeOK, Mandatory, [UpdaterNext]_updaterVars, tools.mandatory, ~tools'.mandatory
      PROVE  \/ "ytdlp" \in installed
             \/ \E call \in BagToSet(calls) : ~call.mandatory /\ calls' = calls (-) One(call)
  <2> USE <1>2 DEF UpdaterTypeOK, dialogs, budget, ShowUpdate, ShowTools, Restage, Setup, Closed, View
  <2>1. ~(Startup \/ Silent)
    BY DEF Startup, Silent, StartupAsks, StartupOffers, StartupFindsNone, CheckSilently,
       SilentLooks, SilentNeedsSetup, SilentIsReady
  <2>2. ~(\/ HandleCheckAppUpdate \/ HandleStartAppUpdate \/ HandleRestartAppForUpdate
          \/ CheckAnswered \/ FetchProgresses \/ FetchEnds \/ FetchFails \/ Hear \/ BackendServes)
    BY DEF HandleCheckAppUpdate, HandleStartAppUpdate, HandleRestartAppForUpdate, CheckAnswered,
       FetchProgresses, FetchEnds, FetchFails, Hear, BackendServes
  <2>3. ~HandleMediaTools
    <3>1. tools # Closed
      OBVIOUS
    <3> QED
      BY <3>1 DEF HandleMediaTools, Menu
  <2>4. ~HandleInstallYTDLP
    <3>1. ASSUME HandleInstallYTDLP PROVE tools'.mandatory = tools.mandatory
      BY <3>1 DEF HandleInstallYTDLP
    <3> QED
      BY <3>1
  <2>5. tools.shows # "success"
    BY DEF Mandatory
  <2>6. ~(DismissUpdate \/ DismissTools \/ Escape)
    BY <2>5 DEF DismissUpdate, DismissTools, Escape, CheckSilently, ToolsClosable
  <2>7. CASE ToolsAnswered
    <3>1. PICK call \in BagToSet(calls) :
            /\ \/ call.answer # "none" /\ tools' = Outcome(call)
               \/ tools' = Outcome([call EXCEPT !.answer = "failed"])
            /\ calls' = calls (-) One(call)
      BY <2>7 DEF ToolsAnswered
    <3>2. CASE ~call.mandatory
      BY <3>1, <3>2
    <3>3. CASE call.mandatory
      <4>1. call.op = "install" /\ call.answer # "missing"
        BY <3>3 DEF Mandatory
      <4>2. Outcome([call EXCEPT !.answer = "failed"]).mandatory
        BY <3>3, <4>1 DEF Outcome
      <4>3. call.answer = "failed" => Outcome(call).mandatory
        BY <3>3, <4>1 DEF Outcome
      <4>4. call.answer = "success"
        BY <3>1, <4>1, <4>2, <4>3
      <4> QED
        BY <4>1, <4>4 DEF Mandatory
    <3> QED
      BY <3>2, <3>3
  <2>8. ~UNCHANGED updaterVars
    BY DEF updaterVars
  <2> QED
    BY <2>1, <2>2, <2>3, <2>4, <2>6, <2>7, <2>8 DEF UpdaterNext, Backend, Answers, UpdaterUser
<1>3. UpdaterTypeOK /\ Mandatory /\ [UpdaterNext]_updaterVars => Mandatory' /\ [Step]_updaterVars
  BY <1>2, MandatoryStep
<1> QED
  BY <1>1, <1>3, UpdaterTypeCorrect, PTL DEF UpdaterSpec, MandatoryHolds
=============================================================================
