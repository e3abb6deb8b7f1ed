----------------------------- MODULE PartsProofs -----------------------------
(***************************************************************************)
(* Proofs about parts that share no state with each other: PageEnhance for *)
(* any transforms; Config for every configuration file and all flags;      *)
(* CertStore for any set of Managers and of key pairs, when the operations *)
(* of two Managers do not overlap; MacProxy for any network services.      *)
(***************************************************************************)
EXTENDS PageEnhance, Config, CertStore, MacProxy, TLAPS

-----------------------------------------------------------------------------
(* PageEnhance: until the run is over the response is as it came, but for  *)
(* the edits of headers and what a custom transformer did by hand;         *)
(* originalBody is that of the upstream; and the local body differs from   *)
(* it only if it is marked modified or was changed in place.               *)
PageShape(p) ==
    DOMAIN p = DOMAIN NoPage /\ DOMAIN p.header = DOMAIN Original

AsSent(p) == p.byHand \/ (p.sent = <<>> /\ p.status = "upstream")

Untouched(p) ==
    /\ AsSent(p) /\ p.header.length = 0 /\ ~p.failed
    /\ p.modified \/ p.byHand \/ p.body = <<>>

PageIInv ==
    /\ PageShape(page)
    /\ page.kept = <<>>
    /\ page.pc # "done" => Untouched(page)
    /\ page.pc = "idle" => ~page.byHand
    /\ PassedOnWhole(page)

(* restore gives the original response back, whatever happened to it, if   *)
(* its body was read, or else not replaced.                                *)
LEMMA FailRestores ==
    ASSUME NEW p, PageShape(p), p.kept = <<>>, AsSent(p)
    PROVE  /\ PageShape(Fail(p)) /\ Fail(p).kept = <<>>
           /\ Fail(p).pc = "done" /\ PassedOnWhole(Fail(p))
<1> DEFINE q == [p EXCEPT !.pc = "done", !.failed = TRUE]
           o == [q EXCEPT !.header = Original]
           s == [o EXCEPT !.sent = q.kept, !.header.length = Len(q.kept)]
           e == [q EXCEPT !.result = "error"]
           n == [s EXCEPT !.result = "nil"]
           m == [o EXCEPT !.result = "nil"]
<1>1. PageShape(q) /\ q.kept = <<>> /\ q.pc = "done" /\ q.sent = p.sent /\ q.status = p.status
      /\ q.byHand = p.byHand /\ q.loaded = p.loaded
  BY DEF PageShape, NoPage
<1>2. /\ PageShape(o) /\ o.kept = <<>> /\ o.sent = p.sent /\ o.pc = "done"
      /\ o.header = Original /\ o.loaded = q.loaded /\ o.status = p.status /\ o.byHand = p.byHand
  BY <1>1 DEF PageShape, NoPage
<1>3. e.pc = "done" /\ e.kept = <<>> /\ e.result = "error" /\ PageShape(e)
  BY <1>1 DEF PageShape, NoPage
<1>4. m.pc = "done" /\ m.kept = <<>> /\ m.header = Original /\ m.sent = p.sent /\ PageShape(m)
      /\ m.status = p.status /\ m.byHand = p.byHand /\ m.loaded = p.loaded
  BY <1>1, <1>2 DEF PageShape, NoPage
<1>5. s.pc = "done" /\ s.kept = <<>> /\ s.header = Original /\ s.sent = <<>> /\ PageShape(s)
      /\ s.status = p.status /\ s.byHand = p.byHand
  BY <1>1, <1>2 DEF PageShape, NoPage, Original
<1>6. n.pc = "done" /\ n.kept = <<>> /\ n.header = Original /\ n.sent = <<>> /\ PageShape(n)
      /\ n.status = p.status /\ n.byHand = p.byHand
  BY <1>5 DEF PageShape, NoPage
<1>7. Fail(p) = e \/ Fail(p) = n \/ (Fail(p) = m /\ ~q.loaded)
  BY Zenon DEF Fail, RestoreResponse, SetBody
<1> HIDE DEF q, o, s, e, n, m
<1>8. PassedOnWhole(e)
  BY <1>3, Zenon DEF PassedOnWhole
<1>9. Original.length = 0 /\ Len(<<>>) = 0
  BY DEF Original
<1>10. PassedOnWhole(n)
  BY <1>6, <1>9, Zenon DEF PassedOnWhole, AsSent
<1>11. ~q.loaded => PassedOnWhole(m)
  BY <1>1, <1>4, <1>9, Zenon DEF PassedOnWhole, AsSent
<1> QED BY <1>3, <1>4, <1>6, <1>7, <1>8, <1>10, <1>11, Zenon

(* A step on the way keeps the response as it was. *)
LEMMA GoesOn ==
    ASSUME NEW p, PageShape(p), p.kept = <<>>, p.pc = "apply", Untouched(p), SetPage(p)
    PROVE  PageIInv'
BY DEF PageIInv, SetPage, PassedOnWhole

LEMMA FailsWhole ==
    ASSUME NEW p, PageShape(p), p.kept = <<>>, AsSent(p), SetPage(Fail(p))
    PROVE  PageIInv'
<1>1. page' = Fail(p)
  BY DEF SetPage
<1> QED BY <1>1, FailRestores, Zenon DEF PageIInv

LEMMA PageNextInv ==
    ASSUME PageIInv, [PageNext]_pageVars
    PROVE  PageIInv'
<1>0. /\ PageShape(page) /\ page.kept = <<>> /\ PassedOnWhole(page)
      /\ page.pc # "done" => Untouched(page)
      /\ page.pc = "idle" => ~page.byHand
  BY DEF PageIInv
<1>1. CASE MatchResponse
  <2>1. PICK ts \in SUBSET Range(Transforms), cs \in SUBSET Range(Customs) :
          LET needsBody == \E t \in ts \cup cs : t.body
          IN SetPage([page EXCEPT
                    !.left = SelectSeq(Transforms, LAMBDA t : t \in ts),
                    !.customs = SelectSeq(Customs, LAMBDA t : t \in cs),
                    !.pc = CASE ts \cup cs = {} -> "done"
                             [] needsBody -> "read"
                             [] OTHER -> "apply",
                    !.result = IF ts \cup cs = {} THEN "nil" ELSE "none"])
    BY <1>1, Zenon DEF MatchResponse
  <2> DEFINE l == SelectSeq(Transforms, LAMBDA t : t \in ts)
             c == SelectSeq(Customs, LAMBDA t : t \in cs)
             pc == CASE ts \cup cs = {} -> "done"
                     [] \E t \in ts \cup cs : t.body -> "read"
                     [] OTHER -> "apply"
             r == IF ts \cup cs = {} THEN "nil" ELSE "none"
             p == [page EXCEPT !.left = l, !.customs = c, !.pc = pc, !.result = r]
  <2>3. page' = p
    BY <2>1 DEF SetPage
  <2> HIDE DEF l, c, pc, r
  <2>2. PageShape(p) /\ p.kept = <<>> /\ p.pc = pc /\ p.sent = page.sent /\ p.header = page.header
        /\ p.failed = page.failed /\ p.modified = page.modified /\ p.body = page.body
        /\ p.byHand = page.byHand /\ p.status = page.status
    BY <1>0 DEF PageShape, NoPage
  <2> HIDE DEF p
  <2>4. Untouched(p)
    BY <1>0, <1>1, <2>2 DEF Untouched, AsSent, MatchResponse
  <2>5. ~p.byHand
    BY <1>0, <1>1, <2>2 DEF MatchResponse
  <2>6. PassedOnWhole(p)
    BY <2>4, <2>5 DEF PassedOnWhole, Untouched, AsSent
  <2> QED BY <2>2, <2>3, <2>4, <2>5, <2>6 DEF PageIInv
<1>2. CASE ReadBody
  <2>0. Untouched(page) /\ AsSent(page)
    BY <1>0, <1>2 DEF ReadBody, Untouched
  <2>1. ASSUME NEW p, p \in {[page EXCEPT !.pc = "apply", !.loaded = TRUE],
                             [page EXCEPT !.pc = "apply"]}, SetPage(p)
        PROVE  PageIInv'
    <3>1. PageShape(p) /\ p.kept = <<>> /\ p.pc = "apply" /\ p.sent = page.sent /\ p.header = page.header
          /\ p.failed = page.failed /\ p.modified = page.modified /\ p.body = page.body
          /\ p.byHand = page.byHand /\ p.status = page.status
      BY <1>0, <2>1, ZenonT(30) DEF PageShape, NoPage
    <3>2. Untouched(p)
      BY <2>0, <3>1 DEF Untouched, AsSent
    <3> QED BY <2>1, <3>1, <3>2, GoesOn
  <2>2. CASE SetPage(Fail([page EXCEPT !.cut = TRUE]))
    <3> DEFINE p == [page EXCEPT !.cut = TRUE]
    <3>1. PageShape(p) /\ p.kept = <<>> /\ AsSent(p)
      BY <1>0, <2>0 DEF PageShape, NoPage, AsSent
    <3> HIDE DEF p
    <3>2. SetPage(Fail(p))
      BY <2>2 DEF p
    <3> QED BY <3>1, <3>2, FailsWhole
  <2> QED BY <1>2, <2>1, <2>2 DEF ReadBody
<1>3. CASE ApplyTransform
  <2>0. Untouched(page)
    BY <1>0, <1>3 DEF ApplyTransform
  <2> DEFINE t == Head(page.left)
             p == [page EXCEPT !.left = Tail(@),
                     !.header.edits = IF t.header THEN @ \cup {t.name} ELSE @]
             b == [p EXCEPT !.body = Append(@, t.name), !.modified = TRUE]
  <2>1. PageShape(p) /\ p.kept = <<>> /\ p.pc = page.pc /\ p.sent = page.sent
        /\ p.header.length = page.header.length /\ p.status = page.status /\ p.byHand = page.byHand
        /\ p.failed = page.failed /\ p.modified = page.modified /\ p.body = page.body
    BY <1>0 DEF PageShape, NoPage, Original
  <2>2. SetPage(p) \/ SetPage(Fail(p)) \/ SetPage(b)
    BY <1>3 DEF ApplyTransform, NewBody
  <2>3. page.pc = "apply"
    BY <1>3 DEF ApplyTransform
  <2> HIDE DEF p
  <2>4. PageShape(b) /\ b.kept = <<>> /\ b.pc = p.pc /\ b.sent = p.sent
        /\ b.header = p.header /\ b.failed = p.failed /\ b.modified = TRUE
        /\ b.status = p.status /\ b.byHand = p.byHand
    BY <2>1 DEF PageShape, NoPage
  <2> HIDE DEF b
  <2>5. Untouched(p) /\ Untouched(b) /\ AsSent(p)
    BY <2>0, <2>1, <2>4 DEF Untouched, AsSent
  <2> QED BY <2>1, <2>2, <2>3, <2>4, <2>5, GoesOn, FailsWhole
<1>4. CASE ApplyCustom
  <2>0. Untouched(page) /\ page.pc = "apply"
    BY <1>0, <1>4 DEF ApplyCustom
  <2> DEFINE name == Head(page.customs).name
             p == [page EXCEPT !.customs = Tail(@)]
  <2>1. \/ SetPage(p)
        \/ \E headers, sent, status, bytes \in BOOLEAN :
              \/ SetPage(Handled(p, name, headers, sent, status, bytes))
              \/ SetPage(Fail(Handled(p, name, headers, sent, status, bytes)))
              \/ SetPage(NewBody(Handled(p, name, headers, sent, status, bytes), name))
    BY <1>4, ZenonT(30) DEF ApplyCustom
  <2>2. PageShape(p) /\ p.kept = <<>> /\ p.pc = page.pc /\ p.sent = page.sent /\ p.header = page.header
        /\ p.failed = page.failed /\ p.modified = page.modified /\ p.body = page.body
        /\ p.status = page.status /\ p.byHand = page.byHand
    BY <1>0 DEF PageShape, NoPage
  <2> HIDE DEF p, name
  <2>3. Untouched(p)
    BY <2>0, <2>2 DEF Untouched, AsSent
  <2>4. CASE SetPage(p)
    BY <2>0, <2>2, <2>3, <2>4, GoesOn
  <2>5. ASSUME NEW h \in BOOLEAN, NEW o \in BOOLEAN, NEW c \in BOOLEAN, NEW y \in BOOLEAN,
               \/ SetPage(Handled(p, name, h, o, c, y))
               \/ SetPage(Fail(Handled(p, name, h, o, c, y)))
               \/ SetPage(NewBody(Handled(p, name, h, o, c, y), name))
        PROVE  PageIInv'
    <3> DEFINE r == Handled(p, name, h, o, c, y)
               b == NewBody(r, name)
    <3>1. PageShape(r) /\ r.kept = <<>> /\ r.pc = page.pc /\ r.header.length = p.header.length
          /\ r.failed = p.failed /\ r.modified = p.modified
      BY <2>2 DEF PageShape, NoPage, Original, Handled
    <3>2. /\ r.byHand = (p.byHand \/ o \/ c \/ y)
          /\ ~o => r.sent = p.sent
          /\ ~c => r.status = p.status
          /\ ~y => r.body = p.body
      BY <2>2 DEF PageShape, NoPage, Original, Handled
    <3>3. SetPage(r) \/ SetPage(Fail(r)) \/ SetPage(b)
      BY <2>5, Zenon
    <3> HIDE DEF r
    <3>4. PageShape(b) /\ b.kept = <<>> /\ b.pc = page.pc /\ b.header = r.header
          /\ b.failed = r.failed /\ b.modified = TRUE /\ b.sent = r.sent /\ b.status = r.status
          /\ b.byHand = r.byHand
      BY <3>1 DEF PageShape, NoPage, NewBody
    <3> HIDE DEF b
    <3>5. Untouched(r) /\ AsSent(r)
      BY <2>3, <3>1, <3>2 DEF Untouched, AsSent
    <3>6. Untouched(b)
      BY <3>4, <3>5 DEF Untouched, AsSent
    <3> QED BY <2>0, <3>1, <3>3, <3>4, <3>5, <3>6, GoesOn, FailsWhole
  <2> QED BY <2>1, <2>4, <2>5, Zenon
<1>5. CASE FinishResponse
  <2>0. Untouched(page)
    BY <1>0, <1>5 DEF FinishResponse
  <2> DEFINE p == [page EXCEPT !.pc = "done", !.result = "nil"]
             s == [p EXCEPT !.sent = p.body, !.header.length = Len(p.body)]
             m == [s EXCEPT !.header.etag = FALSE]
  <2>1. PageShape(p) /\ p.kept = <<>> /\ p.sent = page.sent /\ p.header = page.header
        /\ p.failed = page.failed /\ p.modified = page.modified /\ p.body = page.body
        /\ p.status = page.status /\ p.byHand = page.byHand /\ p.loaded = page.loaded
    BY <1>0 DEF PageShape, NoPage
  <2>2. \/ page.modified /\ page' = m
        \/ ~page.modified /\ page' = s
        \/ ~page.modified /\ ~page.loaded /\ page' = p
    BY <1>5, Zenon DEF FinishResponse, SetPage, SetBody
  <2> HIDE DEF p
  <2>3. PageShape(s) /\ s.kept = <<>> /\ s.sent = p.body /\ s.header.length = Len(p.body)
        /\ s.failed = p.failed /\ s.pc = p.pc /\ s.status = p.status /\ s.byHand = p.byHand
    BY <2>1 DEF PageShape, NoPage, Original
  <2> HIDE DEF s
  <2>4. PageShape(m) /\ m.kept = <<>> /\ m.sent = s.sent /\ m.header.length = s.header.length
        /\ m.header.etag = FALSE /\ m.failed = s.failed /\ m.pc = s.pc /\ m.status = s.status
        /\ m.byHand = s.byHand
    BY <2>3 DEF PageShape, NoPage, Original
  <2> HIDE DEF m
  <2>5. p.pc = "done"
    BY <1>0 DEF p, PageShape, NoPage
  <2>6. PassedOnWhole(m)
    BY <2>0, <2>1, <2>3, <2>4 DEF PassedOnWhole, Untouched, AsSent
  <2>7. ~page.modified => PassedOnWhole(s)
    BY <2>0, <2>1, <2>3 DEF PassedOnWhole, Untouched, AsSent
  <2>8. ~page.loaded => PassedOnWhole(p)
    BY <2>0, <2>1 DEF PassedOnWhole, Untouched, AsSent
  <2> QED BY <2>1, <2>2, <2>3, <2>4, <2>5, <2>6, <2>7, <2>8 DEF PageIInv
<1>6. CASE UNCHANGED pageVars
  BY <1>0, <1>6 DEF PageIInv, pageVars
<1> QED BY <1>1, <1>2, <1>3, <1>4, <1>5, <1>6 DEF PageNext

(* Whatever transforms are configured and whichever of them match, change  *)
(* something or fail, a response the reverse proxy passes on is whole:     *)
(* after a failure under pass_through with the headers of the upstream,    *)
(* and its body unless reading it failed or a custom transformer had       *)
(* replaced one that was never read; otherwise, with the same exceptions,  *)
(* with the Content-Length of its body and no ETag of another body.        *)
THEOREM PageResponseWhole == PageSpec => []ResponseWhole
<1>1. PageInit => PageIInv
  BY DEF PageInit, PageIInv, PageShape, NoPage, Original, Untouched, AsSent, PassedOnWhole
<1>2. PageIInv => ResponseWhole
  BY DEF PageIInv, ResponseWhole
<1> QED BY <1>1, <1>2, PageNextInv, PTL DEF PageSpec

-----------------------------------------------------------------------------
(* Config *)

ConfigFields ==
    {"mode", "nonTarget", "scope", "path", "timeout", "listen", "lan", "control", "pac",
     "hosts", "dns", "resolver", "upstream", "page"}

(* What Validate leaves in each field. *)
NormalOf(n, c) ==
    /\ n.mode = NormalizeMode(c.mode)
    /\ n.nonTarget = OrElse(c.nonTarget, "reject")
    /\ n.scope = NormalizeScope(c.scope)
    /\ n.control = OrControl(c.control)
    /\ n.path = c.path /\ n.timeout = c.timeout /\ n.listen = c.listen /\ n.lan = c.lan
    /\ n.pac = c.pac /\ n.hosts = c.hosts
    /\ n.dns = [enabled |-> (c.dns.enabled \/ NormalizeMode(c.mode) = "dns"),
                strategy |-> OrElse(c.dns.strategy, "manual"), listen |-> c.dns.listen,
                lan |-> c.dns.lan, map4 |-> c.dns.map4, map6 |-> c.dns.map6,
                ttl |-> c.dns.ttl, interfaces |-> c.dns.interfaces]
    /\ n.resolver = [mode |-> OrElse(c.resolver.mode, "system"),
                     servers |-> IF c.resolver.mode = "doh" /\ c.resolver.servers = {}
                                 THEN {"default"} ELSE c.resolver.servers,
                     prefer4 |-> c.resolver.prefer4, prefer6 |-> c.resolver.prefer6]
    /\ n.upstream = [type |-> OrElse(c.upstream.type, "direct"),
                     address |-> c.upstream.address, profiles |-> c.upstream.profiles]
    /\ n.page = [enabled |-> c.page.enabled, onError |-> NormalizeOnError(c.page.onError),
                 maxBody |-> OrMaxBody(c.page.maxBody), assets |-> c.page.assets,
                 transforms |-> c.page.transforms]

LEMMA NormalizedFields ==
    ASSUME NEW c, IsConfig(c)
    PROVE  IsConfig(Normalized(c)) /\ NormalOf(Normalized(c), c)
<1> DEFINE m == NormalizeMode(c.mode)
           e == (c.dns.enabled \/ NormalizeMode(c.mode) = "dns")
           ds == OrElse(c.dns.strategy, "manual")
           nt == OrElse(c.nonTarget, "reject")
           sc == NormalizeScope(c.scope)
           ct == OrControl(c.control)
           rm == OrElse(c.resolver.mode, "system")
           rs == IF c.resolver.mode = "doh" /\ c.resolver.servers = {}
                 THEN {"default"} ELSE c.resolver.servers
           ut == OrElse(c.upstream.type, "direct")
           oe == NormalizeOnError(c.page.onError)
           mb == OrMaxBody(c.page.maxBody)
           n == Normalized(c)
<1>1. n = [c EXCEPT !.mode = m, !.dns.enabled = e, !.dns.strategy = ds, !.nonTarget = nt,
                    !.scope = sc, !.control = ct, !.resolver.mode = rm, !.resolver.servers = rs,
                    !.upstream.type = ut, !.page.onError = oe, !.page.maxBody = mb]
  BY Zenon DEF Normalized
<1>2. e \in BOOLEAN
  OBVIOUS
<1> HIDE DEF m, e, ds, nt, sc, ct, rm, rs, ut, oe, mb, n
<1>3. DOMAIN c = ConfigFields
  BY DEF IsConfig, ConfigFields
<1>4. n = [x \in ConfigFields |-> n[x]]
  BY <1>1, <1>3, ZenonT(30)
<1>5. n.mode = m /\ n.nonTarget = nt /\ n.scope = sc /\ n.control = ct
  BY <1>1, <1>3 DEF ConfigFields
<1>6. n.path = c.path /\ n.timeout = c.timeout /\ n.listen = c.listen /\ n.lan = c.lan
  BY <1>1, <1>3 DEF ConfigFields
<1>7. n.pac = c.pac /\ n.hosts = c.hosts
  BY <1>1, <1>3 DEF ConfigFields
<1>8. n.dns = [enabled |-> e, strategy |-> ds, listen |-> c.dns.listen, lan |-> c.dns.lan,
               map4 |-> c.dns.map4, map6 |-> c.dns.map6, ttl |-> c.dns.ttl,
               interfaces |-> c.dns.interfaces]
  <2>1. n.dns = [c.dns EXCEPT !.enabled = e, !.strategy = ds]
    BY <1>1, <1>3 DEF ConfigFields
  <2> QED BY <2>1, Zenon DEF IsConfig
<1>9. n.resolver = [mode |-> rm, servers |-> rs,
                    prefer4 |-> c.resolver.prefer4, prefer6 |-> c.resolver.prefer6]
  <2>1. n.resolver = [c.resolver EXCEPT !.mode = rm, !.servers = rs]
    BY <1>1, <1>3 DEF ConfigFields
  <2> QED BY <2>1, Zenon DEF IsConfig
<1>10. n.upstream = [type |-> ut, address |-> c.upstream.address, profiles |-> c.upstream.profiles]
  <2>1. n.upstream = [c.upstream EXCEPT !.type = ut]
    BY <1>1, <1>3 DEF ConfigFields
  <2> QED BY <2>1 DEF IsConfig
<1>11. n.page = [enabled |-> c.page.enabled, onError |-> oe, maxBody |-> mb,
                 assets |-> c.page.assets, transforms |-> c.page.transforms]
  <2>1. n.page = [c.page EXCEPT !.onError = oe, !.maxBody = mb]
    BY <1>1, <1>3 DEF ConfigFields
  <2> QED BY <2>1 DEF IsConfig
<1>12. IsConfig(n)
  <2>1. n = [mode |-> n.mode, nonTarget |-> n.nonTarget, scope |-> n.scope, path |-> n.path,
             timeout |-> n.timeout, listen |-> n.listen, lan |-> n.lan, control |-> n.control,
             pac |-> n.pac, hosts |-> n.hosts, dns |-> n.dns, resolver |-> n.resolver,
             upstream |-> n.upstream, page |-> n.page]
    BY <1>4 DEF ConfigFields
  <2>2. /\ n.pac = [listen |-> n.pac.listen, lan |-> n.pac.lan]
        /\ n.hosts = [map |-> n.hosts.map, listen |-> n.hosts.listen, lan |-> n.hosts.lan,
                      extra |-> n.hosts.extra]
    BY <1>7, Zenon DEF IsConfig
  <2>3. /\ n.dns = [enabled |-> n.dns.enabled, strategy |-> n.dns.strategy, listen |-> n.dns.listen,
                lan |-> n.dns.lan, map4 |-> n.dns.map4, map6 |-> n.dns.map6, ttl |-> n.dns.ttl,
                interfaces |-> n.dns.interfaces]
        /\ n.dns.enabled \in BOOLEAN
    BY <1>2, <1>8
  <2>4. n.resolver = [mode |-> n.resolver.mode, servers |-> n.resolver.servers,
                      prefer4 |-> n.resolver.prefer4, prefer6 |-> n.resolver.prefer6]
    BY <1>9
  <2>5. n.upstream = [type |-> n.upstream.type, address |-> n.upstream.address,
                      profiles |-> n.upstream.profiles]
    BY <1>10
  <2>6. n.page = [enabled |-> n.page.enabled, onError |-> n.page.onError,
                  maxBody |-> n.page.maxBody, assets |-> n.page.assets,
                  transforms |-> n.page.transforms]
    BY <1>11
  <2> QED BY <2>1, <2>2, <2>3, <2>4, <2>5, <2>6, Zenon DEF IsConfig
<1> QED BY <1>5, <1>6, <1>7, <1>8, <1>9, <1>10, <1>11, <1>12, Zenon
           DEF NormalOf, m, e, ds, nt, sc, ct, rm, rs, ut, oe, mb, n

LEMMA EnabledInDnsMode ==
    ASSUME NEW n, NEW c, NormalOf(n, c)
    PROVE  n.dns.enabled = (c.dns.enabled \/ n.mode = "dns")
<1>1. n.dns = [enabled |-> (c.dns.enabled \/ NormalizeMode(c.mode) = "dns"),
               strategy |-> OrElse(c.dns.strategy, "manual"), listen |-> c.dns.listen,
               lan |-> c.dns.lan, map4 |-> c.dns.map4, map6 |-> c.dns.map6,
               ttl |-> c.dns.ttl, interfaces |-> c.dns.interfaces]
  BY Zenon DEF NormalOf
<1>2. n.dns.enabled = (c.dns.enabled \/ NormalizeMode(c.mode) = "dns")
  BY <1>1, SMTT(30)
<1>3. n.mode = NormalizeMode(c.mode)
  BY Zenon DEF NormalOf
<1> QED BY <1>2, <1>3, Zenon

(* What applyStartOverrides leaves in each field. *)
OverOf(n, c, f) ==
    /\ n.mode = Flag(f, "mode", c.mode)
    /\ n.nonTarget = Flag(f, "nonTarget", c.nonTarget)
    /\ n.control = Flag(f, "control", c.control)
    /\ n.path = Flag(f, "state", c.path)
    /\ n.listen = Flag(f, "listen", c.listen)
    /\ n.lan = Flag(f, "allowLAN", c.lan)
    /\ n.scope = c.scope /\ n.timeout = c.timeout
    /\ n.resolver = c.resolver /\ n.upstream = c.upstream /\ n.page = c.page
    /\ n.pac = [listen |-> Flag(f, "pacListen", c.pac.listen), lan |-> c.pac.lan]
    /\ n.hosts = [map |-> c.hosts.map, listen |-> Flag(f, "hostsListen", c.hosts.listen),
                  lan |-> c.hosts.lan, extra |-> c.hosts.extra]
    /\ n.dns = [enabled |-> c.dns.enabled, strategy |-> c.dns.strategy,
                listen |-> Flag(f, "dnsListen", c.dns.listen), lan |-> c.dns.lan,
                map4 |-> c.dns.map4, map6 |-> c.dns.map6, ttl |-> c.dns.ttl,
                interfaces |-> c.dns.interfaces]

LEMMA OverriddenFields ==
    ASSUME NEW c, IsConfig(c), NEW f
    PROVE  IsConfig(Overridden(c, f)) /\ OverOf(Overridden(c, f), c, f)
<1> DEFINE m == Flag(f, "mode", c.mode)
           l == Flag(f, "listen", c.listen)
           pl == Flag(f, "pacListen", c.pac.listen)
           hl == Flag(f, "hostsListen", c.hosts.listen)
           dl == Flag(f, "dnsListen", c.dns.listen)
           nt == Flag(f, "nonTarget", c.nonTarget)
           al == Flag(f, "allowLAN", c.lan)
           st == Flag(f, "state", c.path)
           ct == Flag(f, "control", c.control)
           n == Overridden(c, f)
<1>1. n = [c EXCEPT !.mode = m, !.listen = l, !.pac.listen = pl, !.hosts.listen = hl,
                    !.dns.listen = dl, !.nonTarget = nt, !.lan = al, !.path = st, !.control = ct]
  BY Zenon DEF Overridden
<1> HIDE DEF m, l, pl, hl, dl, nt, al, st, ct, n
<1>2. DOMAIN c = ConfigFields
  BY DEF IsConfig, ConfigFields
<1>3. n = [x \in ConfigFields |-> n[x]]
  BY <1>1, <1>2, ZenonT(30) DEF ConfigFields
<1>4. n.mode = m /\ n.nonTarget = nt /\ n.control = ct /\ n.path = st /\ n.listen = l /\ n.lan = al
  BY <1>1, <1>2 DEF ConfigFields
<1>5. /\ n.scope = c.scope /\ n.timeout = c.timeout
      /\ n.resolver = c.resolver /\ n.upstream = c.upstream /\ n.page = c.page
  BY <1>1, <1>2 DEF ConfigFields
<1>6. n.pac = [listen |-> pl, lan |-> c.pac.lan]
  <2>1. n.pac = [c.pac EXCEPT !.listen = pl]
    BY <1>1, <1>2 DEF ConfigFields
  <2> QED BY <2>1 DEF IsConfig
<1>7. n.hosts = [map |-> c.hosts.map, listen |-> hl, lan |-> c.hosts.lan, extra |-> c.hosts.extra]
  <2>1. n.hosts = [c.hosts EXCEPT !.listen = hl]
    BY <1>1, <1>2 DEF ConfigFields
  <2> QED BY <2>1 DEF IsConfig
<1>8. n.dns = [enabled |-> c.dns.enabled, strategy |-> c.dns.strategy, listen |-> dl,
               lan |-> c.dns.lan, map4 |-> c.dns.map4, map6 |-> c.dns.map6, ttl |-> c.dns.ttl,
               interfaces |-> c.dns.interfaces]
  <2>1. n.dns = [c.dns EXCEPT !.listen = dl]
    BY <1>1, <1>2 DEF ConfigFields
  <2> QED BY <2>1 DEF IsConfig
<1>9. IsConfig(n)
  <2>1. n = [mode |-> n.mode, nonTarget |-> n.nonTarget, scope |-> n.scope, path |-> n.path,
             timeout |-> n.timeout, listen |-> n.listen, lan |-> n.lan, control |-> n.control,
             pac |-> n.pac, hosts |-> n.hosts, dns |-> n.dns, resolver |-> n.resolver,
             upstream |-> n.upstream, page |-> n.page]
    BY <1>3 DEF ConfigFields
  <2>2. n.pac = [listen |-> n.pac.listen, lan |-> n.pac.lan]
    BY <1>6
  <2>3. n.hosts = [map |-> n.hosts.map, listen |-> n.hosts.listen, lan |-> n.hosts.lan,
                   extra |-> n.hosts.extra]
    BY <1>7
  <2>4. /\ n.dns = [enabled |-> n.dns.enabled, strategy |-> n.dns.strategy, listen |-> n.dns.listen,
                lan |-> n.dns.lan, map4 |-> n.dns.map4, map6 |-> n.dns.map6, ttl |-> n.dns.ttl,
                interfaces |-> n.dns.interfaces]
        /\ n.dns.enabled = c.dns.enabled
    BY <1>8
  <2>5. n.dns.enabled \in BOOLEAN
    BY <2>4, Zenon DEF IsConfig
  <2> QED BY <1>5, <2>1, <2>2, <2>3, <2>4, <2>5, Zenon DEF IsConfig
<1> QED BY <1>4, <1>5, <1>6, <1>7, <1>8, <1>9, Zenon
           DEF OverOf, m, l, pl, hl, dl, nt, al, st, ct, n

LEMMA SameFields ==
    ASSUME NEW a, NEW b, IsConfig(a), IsConfig(b),
           a.mode = b.mode, a.nonTarget = b.nonTarget, a.scope = b.scope, a.path = b.path,
           a.timeout = b.timeout, a.listen = b.listen, a.lan = b.lan, a.control = b.control,
           a.pac = b.pac, a.hosts = b.hosts, a.dns = b.dns, a.resolver = b.resolver,
           a.upstream = b.upstream, a.page = b.page
    PROVE  a = b
<1> DEFINE R(c) == [mode |-> c.mode, nonTarget |-> c.nonTarget, scope |-> c.scope, path |-> c.path,
                    timeout |-> c.timeout, listen |-> c.listen, lan |-> c.lan,
                    control |-> c.control, pac |-> c.pac, hosts |-> c.hosts, dns |-> c.dns,
                    resolver |-> c.resolver, upstream |-> c.upstream, page |-> c.page]
<1>1. a = R(a) /\ b = R(b)
  BY Zenon DEF IsConfig
<1>2. R(a) = R(b)
  OBVIOUS
<1> QED BY <1>1, <1>2, Zenon

(* The flags may as well be laid over the file as it was: normalising the  *)
(* file before them makes no difference, unless it is a file for mode dns  *)
(* and the flags ask for another mode.                                     *)
LEMMA NormalizedFirst ==
    ASSUME NEW c, IsConfig(c), NEW f,
           NormalizeMode(c.mode) # "dns" \/ NormalizeMode(Overridden(c, f).mode) = "dns"
    PROVE  Normalized(Overridden(Normalized(c), f)) = Normalized(Overridden(c, f))
<1> DEFINE n == Normalized(c)
           v == Overridden(n, f)
           w == Overridden(c, f)
           a == Normalized(v)
           b == Normalized(w)
<1> HIDE DEF n, v, w, a, b
<1>1. IsConfig(n) /\ IsConfig(v) /\ IsConfig(w) /\ IsConfig(a) /\ IsConfig(b)
      /\ NormalOf(n, c) /\ NormalOf(a, v) /\ NormalOf(b, w)
      /\ OverOf(v, n, f) /\ OverOf(w, c, f)
  <2>1. IsConfig(n) /\ NormalOf(n, c)
    BY NormalizedFields, Zenon DEF n
  <2>2. IsConfig(v) /\ IsConfig(w) /\ OverOf(v, n, f) /\ OverOf(w, c, f)
    BY <2>1, OverriddenFields, Zenon DEF v, w
  <2>3. IsConfig(a) /\ IsConfig(b) /\ NormalOf(a, v) /\ NormalOf(b, w)
    BY <2>2, NormalizedFields, Zenon DEF a, b
  <2> QED BY <2>1, <2>2, <2>3
<1>2. a.mode = b.mode
  <2>1. n.mode = NormalizeMode(c.mode) /\ v.mode = Flag(f, "mode", n.mode)
        /\ w.mode = Flag(f, "mode", c.mode)
        /\ a.mode = NormalizeMode(v.mode) /\ b.mode = NormalizeMode(w.mode)
    BY <1>1, Zenon DEF NormalOf, OverOf
  <2> QED BY <2>1, Zenon DEF NormalizeMode, Flag
<1>3. a.nonTarget = b.nonTarget
  <2>1. /\ n.nonTarget = OrElse(c.nonTarget, "reject")
        /\ v.nonTarget = Flag(f, "nonTarget", n.nonTarget)
        /\ w.nonTarget = Flag(f, "nonTarget", c.nonTarget)
        /\ a.nonTarget = OrElse(v.nonTarget, "reject") /\ b.nonTarget = OrElse(w.nonTarget, "reject")
    BY <1>1, Zenon DEF NormalOf, OverOf
  <2> QED BY <2>1, Zenon DEF OrElse, Flag
<1>4. a.scope = b.scope
  <2>1. /\ n.scope = NormalizeScope(c.scope) /\ v.scope = n.scope /\ w.scope = c.scope
        /\ a.scope = NormalizeScope(v.scope) /\ b.scope = NormalizeScope(w.scope)
    BY <1>1, Zenon DEF NormalOf, OverOf
  <2> QED BY <2>1, Zenon DEF NormalizeScope
<1>5. a.control = b.control
  <2>1. /\ n.control = OrControl(c.control) /\ v.control = Flag(f, "control", n.control)
        /\ w.control = Flag(f, "control", c.control)
        /\ a.control = OrControl(v.control) /\ b.control = OrControl(w.control)
    BY <1>1, Zenon DEF NormalOf, OverOf
  <2>2. OrControl(OrControl(c.control)) = OrControl(c.control)
    <3>1. ControlDefault.host # NoAddr.host
      BY DEF ControlDefault, NoAddr
    <3>2. ControlDefault # NoAddr
      BY <3>1
    <3> QED BY <3>2, Zenon DEF OrControl
  <2> QED BY <2>1, <2>2, Zenon DEF Flag
<1>6. /\ a.path = b.path /\ a.timeout = b.timeout /\ a.listen = b.listen /\ a.lan = b.lan
      /\ a.pac = b.pac /\ a.hosts = b.hosts
  <2>1. /\ n.path = c.path /\ n.timeout = c.timeout /\ n.listen = c.listen /\ n.lan = c.lan
        /\ n.pac = c.pac /\ n.hosts = c.hosts
    BY <1>1, Zenon DEF NormalOf, OverOf
  <2>2. /\ v.path = w.path /\ v.timeout = w.timeout /\ v.listen = w.listen /\ v.lan = w.lan
        /\ v.pac = w.pac /\ v.hosts = w.hosts
    BY <1>1, <2>1, ZenonT(30) DEF OverOf
  <2> QED BY <1>1, <2>2, Zenon DEF NormalOf, OverOf
<1>7. a.dns = b.dns
  <2>n. n.dns = [enabled |-> (c.dns.enabled \/ NormalizeMode(c.mode) = "dns"),
                 strategy |-> OrElse(c.dns.strategy, "manual"), listen |-> c.dns.listen,
                 lan |-> c.dns.lan, map4 |-> c.dns.map4, map6 |-> c.dns.map6,
                 ttl |-> c.dns.ttl, interfaces |-> c.dns.interfaces]
    BY <1>1, Zenon DEF NormalOf
  <2>v. v.dns = [enabled |-> n.dns.enabled, strategy |-> n.dns.strategy,
                 listen |-> Flag(f, "dnsListen", n.dns.listen), lan |-> n.dns.lan,
                 map4 |-> n.dns.map4, map6 |-> n.dns.map6, ttl |-> n.dns.ttl,
                 interfaces |-> n.dns.interfaces]
    BY <1>1, Zenon DEF OverOf
  <2>w. w.dns = [enabled |-> c.dns.enabled, strategy |-> c.dns.strategy,
                 listen |-> Flag(f, "dnsListen", c.dns.listen), lan |-> c.dns.lan,
                 map4 |-> c.dns.map4, map6 |-> c.dns.map6, ttl |-> c.dns.ttl,
                 interfaces |-> c.dns.interfaces]
    BY <1>1, Zenon DEF OverOf
  <2>1. /\ n.dns.enabled = (c.dns.enabled \/ NormalizeMode(c.mode) = "dns")
        /\ n.dns.strategy = OrElse(c.dns.strategy, "manual")
        /\ n.dns.listen = c.dns.listen /\ n.dns.lan = c.dns.lan
        /\ n.dns.map4 = c.dns.map4 /\ n.dns.map6 = c.dns.map6
        /\ n.dns.ttl = c.dns.ttl /\ n.dns.interfaces = c.dns.interfaces
    BY <2>n, SMTT(30)
  <2>2. /\ v.dns.enabled = n.dns.enabled /\ v.dns.strategy = n.dns.strategy
        /\ v.dns.listen = Flag(f, "dnsListen", n.dns.listen) /\ v.dns.lan = n.dns.lan
        /\ v.dns.map4 = n.dns.map4 /\ v.dns.map6 = n.dns.map6
        /\ v.dns.ttl = n.dns.ttl /\ v.dns.interfaces = n.dns.interfaces
    BY <2>v, SMTT(30)
  <2>3. /\ w.dns.enabled = c.dns.enabled /\ w.dns.strategy = c.dns.strategy
        /\ w.dns.listen = Flag(f, "dnsListen", c.dns.listen) /\ w.dns.lan = c.dns.lan
        /\ w.dns.map4 = c.dns.map4 /\ w.dns.map6 = c.dns.map6
        /\ w.dns.ttl = c.dns.ttl /\ w.dns.interfaces = c.dns.interfaces
    BY <2>w, SMTT(30)
  <2> DEFINE D(x) == [enabled |-> (x.dns.enabled \/ NormalizeMode(x.mode) = "dns"),
                      strategy |-> OrElse(x.dns.strategy, "manual"), listen |-> x.dns.listen,
                      lan |-> x.dns.lan, map4 |-> x.dns.map4, map6 |-> x.dns.map6,
                      ttl |-> x.dns.ttl, interfaces |-> x.dns.interfaces]
  <2>4. a.dns = D(v) /\ b.dns = D(w)
    BY <1>1, Zenon DEF NormalOf, OverOf
  <2>5. a.mode = NormalizeMode(v.mode) /\ b.mode = NormalizeMode(w.mode)
    BY <1>1, Zenon DEF NormalOf, OverOf
  <2>6. (v.dns.enabled \/ NormalizeMode(v.mode) = "dns") = (w.dns.enabled \/ NormalizeMode(w.mode) = "dns")
    <3>1. NormalizeMode(c.mode) # "dns" \/ NormalizeMode(w.mode) = "dns"
      BY DEF w
    <3>2. NormalizeMode(v.mode) = NormalizeMode(w.mode)
      BY <1>2, <2>5, Zenon
    <3>3. c.dns.enabled \in BOOLEAN
      BY SMTT(30) DEF IsConfig
    <3> QED BY <2>1, <2>2, <2>3, <3>1, <3>2, <3>3
  <2>7. OrElse(v.dns.strategy, "manual") = OrElse(w.dns.strategy, "manual")
    BY <2>1, <2>2, <2>3, Zenon DEF OrElse
  <2>8. v.dns.listen = w.dns.listen /\ v.dns.lan = w.dns.lan /\ v.dns.map4 = w.dns.map4
        /\ v.dns.map6 = w.dns.map6 /\ v.dns.ttl = w.dns.ttl /\ v.dns.interfaces = w.dns.interfaces
    BY <2>1, <2>2, <2>3
  <2>9. D(v) = D(w)
    BY <2>6, <2>7, <2>8, Zenon
  <2> QED BY <2>4, <2>9, Zenon
<1>8. a.resolver = b.resolver
  <2> DEFINE S(x) == IF x.resolver.mode = "doh" /\ x.resolver.servers = {}
                     THEN {"default"} ELSE x.resolver.servers
             N(x) == [mode |-> OrElse(x.resolver.mode, "system"), servers |-> S(x),
                      prefer4 |-> x.resolver.prefer4, prefer6 |-> x.resolver.prefer6]
  <2>1. n.resolver = N(c) /\ a.resolver = N(v) /\ b.resolver = N(w)
    BY <1>1, Zenon DEF NormalOf, OverOf
  <2>2. v.resolver = n.resolver /\ w.resolver = c.resolver
    BY <1>1, Zenon DEF NormalOf, OverOf
  <2>0. v.resolver.mode = OrElse(w.resolver.mode, "system") /\ v.resolver.servers = S(w)
    <3>1. v.resolver = [mode |-> OrElse(c.resolver.mode, "system"), servers |-> S(c),
                        prefer4 |-> c.resolver.prefer4, prefer6 |-> c.resolver.prefer6]
      BY <2>1, <2>2, Zenon
    <3>2. S(w) = S(c)
      BY <2>2, Zenon
    <3> HIDE DEF S
    <3> QED BY <2>2, <3>1, <3>2
  <2>3. OrElse(v.resolver.mode, "system") = OrElse(w.resolver.mode, "system")
    BY <2>0, Zenon DEF OrElse
  <2>4. S(v) = S(w)
    BY <2>0, Zenon DEF OrElse
  <2>5. v.resolver.prefer4 = w.resolver.prefer4 /\ v.resolver.prefer6 = w.resolver.prefer6
    BY <2>1, <2>2
  <2> QED BY <2>1, <2>3, <2>4, <2>5, Zenon
<1>9. a.upstream = b.upstream /\ a.page = b.page
  <2>1. /\ n.upstream = [type |-> OrElse(c.upstream.type, "direct"),
                         address |-> c.upstream.address, profiles |-> c.upstream.profiles]
        /\ n.page = [enabled |-> c.page.enabled, onError |-> NormalizeOnError(c.page.onError),
                     maxBody |-> OrMaxBody(c.page.maxBody), assets |-> c.page.assets,
                     transforms |-> c.page.transforms]
    BY <1>1, Zenon DEF NormalOf, OverOf
  <2>2. v.upstream = n.upstream /\ w.upstream = c.upstream /\ v.page = n.page /\ w.page = c.page
    BY <1>1, Zenon DEF NormalOf, OverOf
  <2>3. /\ a.upstream = [type |-> OrElse(v.upstream.type, "direct"),
                         address |-> v.upstream.address, profiles |-> v.upstream.profiles]
        /\ b.upstream = [type |-> OrElse(w.upstream.type, "direct"),
                         address |-> w.upstream.address, profiles |-> w.upstream.profiles]
    BY <1>1, Zenon DEF NormalOf, OverOf
  <2>4. /\ a.page = [enabled |-> v.page.enabled, onError |-> NormalizeOnError(v.page.onError),
                     maxBody |-> OrMaxBody(v.page.maxBody), assets |-> v.page.assets,
                     transforms |-> v.page.transforms]
        /\ b.page = [enabled |-> w.page.enabled, onError |-> NormalizeOnError(w.page.onError),
                     maxBody |-> OrMaxBody(w.page.maxBody), assets |-> w.page.assets,
                     transforms |-> w.page.transforms]
    BY <1>1, Zenon DEF NormalOf, OverOf
  <2>0. /\ v.upstream.type = OrElse(w.upstream.type, "direct")
        /\ v.page.onError = NormalizeOnError(w.page.onError)
        /\ v.page.maxBody = OrMaxBody(w.page.maxBody)
    <3>1. /\ v.upstream = [type |-> OrElse(w.upstream.type, "direct"),
                           address |-> w.upstream.address, profiles |-> w.upstream.profiles]
          /\ v.page = [enabled |-> w.page.enabled, onError |-> NormalizeOnError(w.page.onError),
                       maxBody |-> OrMaxBody(w.page.maxBody), assets |-> w.page.assets,
                       transforms |-> w.page.transforms]
      BY <2>1, <2>2, Zenon
    <3> QED BY <3>1, SMTT(30)
  <2>5. OrElse(v.upstream.type, "direct") = OrElse(w.upstream.type, "direct")
    BY <2>0, Zenon DEF OrElse
  <2>6. NormalizeOnError(v.page.onError) = NormalizeOnError(w.page.onError)
    BY <2>0, Zenon DEF NormalizeOnError
  <2>7. OrMaxBody(v.page.maxBody) = OrMaxBody(w.page.maxBody)
    BY <2>0 DEF OrMaxBody, MaxBodyDefault
  <2>8. v.upstream.address = w.upstream.address /\ v.upstream.profiles = w.upstream.profiles
        /\ v.page.enabled = w.page.enabled /\ v.page.transforms = w.page.transforms
        /\ v.page.assets = w.page.assets
    BY <2>1, <2>2
  <2> QED BY <2>3, <2>4, <2>5, <2>6, <2>7, <2>8, Zenon
<1> QED BY <1>1, <1>2, <1>3, <1>4, <1>5, <1>6, <1>7, <1>8, <1>9, SameFields, ZenonT(30) DEF n, v, w, a, b

(* Validate leaves alone what it has normalised before. *)
LEMMA NormalizedTwice ==
    ASSUME NEW c, IsConfig(c)
    PROVE  Normalized(Normalized(c)) = Normalized(c)
<1> DEFINE none == [x \in {} |-> TRUE]
<1>1. ASSUME NEW d, IsConfig(d)
      PROVE  Overridden(d, none) = d
  <2>1. IsConfig(Overridden(d, none)) /\ OverOf(Overridden(d, none), d, none)
    BY <1>1, OverriddenFields
  <2>2. /\ Flag(none, "mode", d.mode) = d.mode
        /\ Flag(none, "nonTarget", d.nonTarget) = d.nonTarget
        /\ Flag(none, "control", d.control) = d.control
        /\ Flag(none, "state", d.path) = d.path
        /\ Flag(none, "listen", d.listen) = d.listen
        /\ Flag(none, "allowLAN", d.lan) = d.lan
        /\ Flag(none, "pacListen", d.pac.listen) = d.pac.listen
        /\ Flag(none, "hostsListen", d.hosts.listen) = d.hosts.listen
        /\ Flag(none, "dnsListen", d.dns.listen) = d.dns.listen
    BY DEF Flag
  <2> DEFINE n == Overridden(d, none)
  <2> HIDE DEF none, n
  <2>3. OverOf(n, d, none)
    BY <2>1, Zenon DEF n
  <2>4. /\ n.mode = d.mode /\ n.nonTarget = d.nonTarget /\ n.control = d.control
        /\ n.path = d.path /\ n.listen = d.listen /\ n.lan = d.lan
    BY <2>2, <2>3, Zenon DEF OverOf
  <2>5. /\ n.scope = d.scope /\ n.timeout = d.timeout
        /\ n.resolver = d.resolver /\ n.upstream = d.upstream /\ n.page = d.page
    BY <2>3, Zenon DEF OverOf
  <2>6. n.pac = [listen |-> d.pac.listen, lan |-> d.pac.lan]
    BY <2>2, <2>3, Zenon DEF OverOf
  <2>7. n.hosts = [map |-> d.hosts.map, listen |-> d.hosts.listen,
                   lan |-> d.hosts.lan, extra |-> d.hosts.extra]
    BY <2>2, <2>3, Zenon DEF OverOf
  <2>8. n.dns = [enabled |-> d.dns.enabled, strategy |-> d.dns.strategy,
                 listen |-> d.dns.listen, lan |-> d.dns.lan,
                 map4 |-> d.dns.map4, map6 |-> d.dns.map6, ttl |-> d.dns.ttl,
                 interfaces |-> d.dns.interfaces]
    BY <2>2, <2>3, Zenon DEF OverOf
  <2>9. n.pac = d.pac /\ n.hosts = d.hosts /\ n.dns = d.dns
    BY <1>1, <2>6, <2>7, <2>8, Zenon DEF IsConfig
  <2> QED BY <1>1, <2>1, <2>4, <2>5, <2>9, SameFields, Zenon DEF n
<1>2. IsConfig(Normalized(c))
  BY NormalizedFields
<1> HIDE DEF none
<1>3. Overridden(c, none) = c /\ Overridden(Normalized(c), none) = Normalized(c)
  BY <1>1, <1>2
<1>4. NormalizeMode(c.mode) # "dns" \/ NormalizeMode(Overridden(c, none).mode) = "dns"
  BY <1>3
<1>5. Normalized(Overridden(Normalized(c), none)) = Normalized(Overridden(c, none))
  BY <1>4, NormalizedFirst, ZenonT(30)
<1> QED BY <1>3, <1>5

(* A configuration that has left mode dns by a flag is refused: Validate   *)
(* of the file has set dns_intercept.enabled.                              *)
LEMMA StaysInDnsMode ==
    ASSUME NEW c, IsConfig(c), NEW f, Accepts(Overridden(Normalized(c), f))
    PROVE  NormalizeMode(c.mode) # "dns" \/ NormalizeMode(Overridden(c, f).mode) = "dns"
<1> DEFINE n == Normalized(c)
           v == Overridden(n, f)
           w == Overridden(c, f)
           a == Normalized(v)
<1>1. IsConfig(n) /\ NormalOf(n, c)
  BY NormalizedFields
<1>2. IsConfig(v) /\ OverOf(v, n, f) /\ OverOf(w, c, f)
  BY <1>1, OverriddenFields, Zenon
<1>3. NormalOf(a, v)
  BY <1>2, NormalizedFields, ZenonT(30)
<1>4. a.dns.enabled => a.mode = "dns"
  BY Zenon DEF Accepts, Valid, ValidDNS
<1> HIDE DEF n, v, w, a
<1>5. /\ n.mode = NormalizeMode(c.mode) /\ v.mode = Flag(f, "mode", n.mode)
      /\ w.mode = Flag(f, "mode", c.mode) /\ a.mode = NormalizeMode(v.mode)
  BY <1>1, <1>2, <1>3, Zenon DEF NormalOf, OverOf
<1>6. NormalizeMode(c.mode) = "dns" => a.dns.enabled
  <2>1. NormalizeMode(c.mode) = "dns" => n.dns.enabled
    BY <1>1, <1>5, EnabledInDnsMode, ZenonT(30)
  <2>2. v.dns.enabled = n.dns.enabled
    <3>1. v.dns = [enabled |-> n.dns.enabled, strategy |-> n.dns.strategy,
                   listen |-> Flag(f, "dnsListen", n.dns.listen), lan |-> n.dns.lan,
                   map4 |-> n.dns.map4, map6 |-> n.dns.map6, ttl |-> n.dns.ttl,
                   interfaces |-> n.dns.interfaces]
      BY <1>2, Zenon DEF OverOf
    <3> QED BY <3>1, SMTT(30)
  <2>3. v.dns.enabled => a.dns.enabled
    BY <1>3, EnabledInDnsMode, Zenon
  <2> QED BY <2>1, <2>2, <2>3, Zenon
<1>7. NormalizeMode(c.mode) = "dns" => NormalizeMode(w.mode) = "dns"
  BY <1>4, <1>5, <1>6, Zenon DEF Flag, NormalizeMode
<1> QED BY <1>7 DEF w

ConfIInv ==
    LET wanted == Overridden(confFile, confFlags)
    IN  /\ IsConfig(confFile)
        /\ stage = "parsed" => conf = confFile
        /\ stage = "loaded" => Accepts(confFile) /\ conf = Normalized(confFile)
        /\ stage = "flagged" =>
              Accepts(confFile) /\ conf = Overridden(Normalized(confFile), confFlags)
        /\ stage \in {"checked", "built"} => Accepts(wanted) /\ conf = Normalized(wanted)
        /\ stage = "refused" /\ NormalizeMode(confFile.mode) # "dns" =>
              ~Accepts(wanted) \/ ~Accepts(confFile)

LEMMA ConfNextInv == ConfIInv /\ [ConfNext]_confVars => ConfIInv'
<1> SUFFICES ASSUME ConfIInv, [ConfNext]_confVars PROVE ConfIInv'
  OBVIOUS
<1> DEFINE f == confFile
           n == Normalized(f)
           v == Overridden(n, confFlags)
           w == Overridden(f, confFlags)
<1>0. IsConfig(f)
  BY DEF ConfIInv
<1>00. IsConfig(w)
  BY <1>0, OverriddenFields
<1> HIDE DEF f
<1>1. CASE LoadFile
  <2>1. /\ confFile' = f /\ conf' = n /\ stage' = IF Accepts(f) THEN "loaded" ELSE "refused"
        /\ confFlags' = confFlags
    BY <1>1 DEF LoadFile, Validate, ConfIInv, f
  <2> QED BY <1>0, <2>1 DEF ConfIInv
<1>2. CASE ApplyStartOverrides
  <2>1. /\ confFile' = f /\ conf' = v /\ stage' = "flagged" /\ confFlags' = confFlags /\ Accepts(f)
    BY <1>2 DEF ApplyStartOverrides, ConfIInv, f
  <2> QED BY <1>0, <2>1 DEF ConfIInv
<1>3. CASE CheckFlags
  <2>1. /\ confFile' = f /\ confFlags' = confFlags
        /\ conf' = Normalized(v) /\ stage' = IF Accepts(v) THEN "checked" ELSE "refused"
    BY <1>3 DEF CheckFlags, Validate, ConfIInv, f
  <2>2. NormalizeMode(f.mode) # "dns" \/ NormalizeMode(w.mode) = "dns"
           => Normalized(v) = Normalized(w)
    BY <1>0, NormalizedFirst
  <2>3. Accepts(v) => Normalized(v) = Normalized(w)
    BY <1>0, <2>2, StaysInDnsMode
  <2> HIDE DEF v, w
  <2>4. Normalized(v) = Normalized(w) => (Accepts(v) <=> Accepts(w))
    BY Zenon DEF Accepts
  <2>5. CASE Accepts(v)
    BY <1>0, <2>1, <2>3, <2>4, <2>5, Zenon DEF ConfIInv, w
  <2>6. CASE ~Accepts(v)
    <3>1. NormalizeMode(f.mode) # "dns" => ~Accepts(w)
      BY <2>2, <2>4, <2>6
    <3> QED BY <1>0, <2>1, <2>6, <3>1 DEF ConfIInv, w
  <2> QED BY <2>5, <2>6
<1>4. CASE EngineNew
  <2>1. /\ confFile' = f /\ confFlags' = confFlags /\ Accepts(w)
        /\ conf' = Normalized(Normalized(w))
        /\ stage' = IF Accepts(Normalized(w)) THEN "built" ELSE "refused"
    BY <1>4 DEF EngineNew, Validate, ConfIInv, f
  <2>2. Normalized(Normalized(w)) = Normalized(w)
    BY <1>00, NormalizedTwice
  <2>3. Accepts(Normalized(w))
    BY <2>1, <2>2 DEF Accepts
  <2> QED BY <1>0, <2>1, <2>2, <2>3, Zenon DEF ConfIInv
<1>5. CASE UNCHANGED confVars
  BY <1>5 DEF ConfIInv, confVars
<1> QED BY <1>1, <1>2, <1>3, <1>4, <1>5 DEF ConfNext

LEMMA ConfInvariant == ConfSpec => []ConfIInv
<1>1. ConfInit => ConfIInv
  BY ConfigAssumption DEF ConfInit, ConfIInv
<1> QED BY <1>1, ConfNextInv, PTL DEF ConfSpec

(* Whatever the file and the flags say, the engine runs both together, a   *)
(* flag before the file, and a start is refused only for a configuration   *)
(* that is invalid, or to leave mode dns, although Validate runs three     *)
(* times on the way and changes what it validates.                         *)
THEOREM ConfFlagsOverFile == ConfSpec => []FlagsOverFile
<1>1. ConfIInv => FlagsOverFile
  BY DEF ConfIInv, FlagsOverFile
<1> QED BY <1>1, ConfInvariant, PTL

(* A configuration the engine runs, whatever file and flags it comes from, *)
(* has all the servers of its mode on loopback addresses unless the        *)
(* allow_lan of the server is set, points the DNS of the system at         *)
(* loopback and port 53 only, and does not look names up through the       *)
(* resolver of the system where they are diverted to ourselves.            *)
THEOREM ConfSound == ConfSpec => []SoundConfig
<1>1. ASSUME ConfIInv PROVE SoundConfig
  <2> SUFFICES ASSUME stage = "built" PROVE SoundConfig
    BY DEF SoundConfig
  <2> DEFINE w == Overridden(confFile, confFlags)
             r == EffectiveResolver(conf)
  <2>1. Valid(conf) /\ NormalOf(conf, w) /\ IsConfig(conf)
    <3>1. IsConfig(w)
      BY <1>1, OverriddenFields DEF ConfIInv
    <3>2. Accepts(w) /\ conf = Normalized(w)
      BY <1>1 DEF ConfIInv
    <3> HIDE DEF w
    <3> QED BY <3>1, <3>2, NormalizedFields DEF Accepts
  <2> HIDE DEF w
  <2>2. conf.mode = "dns" /\ conf.dns.strategy = "system" =>
                  /\ conf.dns.listen.host \in {"lo4", "localhost"} /\ conf.dns.listen.port = "53"
                  /\ conf.dns.interfaces # {}
    BY <2>1, Zenon DEF Valid, ValidDNS, ValidDNSSystem
  <2>3. conf.resolver.mode # "system" => conf.resolver.servers # {}
    BY <2>1, Zenon DEF Valid
  <2>4. \A l \in ListensAt(conf) : Loopback(l.address) \/ l.lan
    <3>1. /\ Loopback(conf.control) /\ (Loopback(conf.listen) \/ conf.lan)
          /\ Loopback(conf.pac.listen) \/ conf.pac.lan
          /\ Loopback(conf.hosts.listen) \/ conf.hosts.lan
      BY <2>1, Zenon DEF Valid, ValidListen
    <3>2. conf.mode = "dns" => Loopback(conf.dns.listen) \/ conf.dns.lan
      BY <2>1, Zenon DEF Valid, ValidDNS, ValidListen
    <3>3. ASSUME NEW a, NEW lan, Loopback(a) \/ lan, NEW l, l = Listener(a, lan)
          PROVE  Loopback(l.address) \/ l.lan
      <4>1. l.address = a /\ l.lan = lan
        BY <3>3 DEF Listener
      <4> QED BY <3>3, <4>1, Zenon
    <3> HIDE DEF r
    <3>4. ASSUME NEW l \in ListensAt(conf)
          PROVE  \/ l = Listener(conf.control, FALSE) \/ l = Listener(conf.listen, conf.lan)
                 \/ l = Listener(conf.hosts.listen, conf.hosts.lan)
                 \/ l = Listener(conf.pac.listen, conf.pac.lan)
                 \/ conf.mode = "dns" /\ l = Listener(conf.dns.listen, conf.dns.lan)
      BY <3>4, Zenon DEF ListensAt
    <3> QED BY <3>1, <3>2, <3>3, <3>4, Zenon
  <2>5. CASE r = conf.resolver /\ ~(RequiresLoopSafeResolver(conf) /\ conf.resolver.mode = "system")
    BY <2>2, <2>3, <2>4, <2>5, Zenon DEF SoundConfig
  <2>6. CASE r = [conf.resolver EXCEPT !.mode = "doh", !.servers = {"default"}]
    <3>1. r.mode = "doh" /\ r.servers = {"default"}
      BY <2>1, <2>6 DEF IsConfig
    <3>2. r.mode # "system" /\ r.servers # {}
      BY <3>1
    <3> QED BY <2>2, <2>4, <3>2, Zenon DEF SoundConfig
  <2> QED BY <2>5, <2>6, ZenonT(30) DEF EffectiveResolver
<1> QED BY <1>1, ConfInvariant, PTL

-----------------------------------------------------------------------------
(* CertStore *)

Content == Pair \cup {"none", "torn"}

Loads == {"loadCert", "loadKey"}

Writes == {"generate", "openCert", "writeCert", "openKey", "writeKey"}

Stores == {"check", "install", "remove"}

TaskPc == {"free", "ok", "err"} \cup Loads \cup Writes \cup Stores

TaskState ==
    [op : {"none", "trust", "uninstall", "serve"}, scope : Scopes \cup {"none"},
     pc : TaskPc, cert : Content]

CertTypes ==
    /\ certFile \in Content
    /\ keyFile \in Content
    /\ store \in [{"machine", "user"} -> SUBSET Pair]
    /\ mem \in [Manager -> [cert : Content, key : Content]]
    /\ task \in [Manager -> TaskState]

(* One operation at a time is in progress. *)
OneTask == \A m, n \in Manager : Over(m) \/ Over(n) \/ m = n

(* The key file is written after the certificate it belongs to. *)
FilesAgree ==
    /\ keyFile # "none" => certFile \in Pair
    /\ keyFile \in Pair => certFile = keyFile

(* A pair in memory is the pair on disk. *)
MemoryAgrees ==
    \A m \in Manager :
        mem[m] # NotLoaded =>
            /\ keyFile \in Pair
            /\ mem[m] = [cert |-> keyFile, key |-> keyFile]

(* What the operation of m knows of the files at each of its steps. *)
TaskPhase(m) ==
    LET t == task[m]
    IN  /\ ~Over(m) => t.op # "none" /\ t.scope \in Scopes
        /\ t.pc = "loadKey" => t.cert = certFile /\ certFile # "none"
        /\ t.pc \in {"generate", "openCert", "writeCert", "openKey"} => keyFile = "none"
        /\ t.pc \in {"openCert", "writeCert", "openKey", "writeKey"} => t.cert \in Pair
        /\ t.pc \in {"openKey", "writeKey"} => certFile = t.cert
        /\ t.pc = "writeKey" => keyFile = "torn"
        /\ t.pc \in Stores => mem[m] # NotLoaded /\ t.op # "serve"
        /\ t.pc = "remove" => t.op = "uninstall"

CertIInv ==
    /\ CertTypes
    /\ OneTask
    /\ FilesAgree
    /\ MemoryAgrees
    /\ \A m \in Manager : TaskPhase(m)

-----------------------------------------------------------------------------
(* What TaskGoto does: the operation goes on, nothing else of it changes.  *)
LEMMA GotoStep ==
    ASSUME CertTypes, NEW m \in Manager, NEW pc \in TaskPc, TaskGoto(m, pc)
    PROVE  /\ task' \in [Manager -> TaskState]
           /\ task'[m].pc = pc
           /\ task'[m].op = task[m].op
           /\ task'[m].scope = task[m].scope
           /\ task'[m].cert = task[m].cert
           /\ \A n \in Manager \ {m} : task'[n] = task[n]
BY Zenon DEF TaskGoto, CertTypes, TaskState

(* The same when the operation also remembers a certificate. *)
LEMMA GotoWithStep ==
    ASSUME CertTypes, NEW m \in Manager, NEW pc \in {"loadKey", "openCert"}, NEW c \in Content,
           task' = [task EXCEPT ![m].pc = pc, ![m].cert = c]
    PROVE  /\ task' \in [Manager -> TaskState]
           /\ task'[m].pc = pc
           /\ task'[m].op = task[m].op
           /\ task'[m].scope = task[m].scope
           /\ task'[m].cert = c
           /\ \A n \in Manager \ {m} : task'[n] = task[n]
<1> DEFINE t == [task[m] EXCEPT !.pc = pc, !.cert = c]
<1>1. /\ t \in TaskState
      /\ t.pc = pc /\ t.cert = c /\ t.op = task[m].op /\ t.scope = task[m].scope
  BY Zenon DEF CertTypes, TaskState, TaskPc, Loads, Writes
<1>2. task' = [task EXCEPT ![m] = t]
  BY Zenon DEF CertTypes
<1> HIDE DEF t
<1>3. task' \in [Manager -> TaskState] /\ task'[m] = t
  BY <1>1, <1>2, ZenonT(100) DEF CertTypes
<1>4. \A n \in Manager \ {m} : task'[n] = task[n]
  BY <1>2 DEF CertTypes
<1> QED BY <1>1, <1>3, <1>4

(* The operation in progress is the only one: the other Managers are at    *)
(* rest before and after its step, and have no phase to keep.              *)
LEMMA StepOfOne ==
    ASSUME CertIInv, NEW m \in Manager, ~Over(m),
           \A n \in Manager \ {m} : task'[n] = task[n],
           CertTypes', FilesAgree', MemoryAgrees', TaskPhase(m)'
    PROVE  CertIInv'
<1>1. \A n \in Manager \ {m} : Over(n)
  BY DEF CertIInv, OneTask
<1>2. \A n \in Manager \ {m} : Over(n)'
  BY <1>1 DEF Over
<1>3. OneTask'
  BY <1>2 DEF OneTask
<1>4. ASSUME NEW n \in Manager \ {m} PROVE TaskPhase(n)'
  BY <1>2, Zenon DEF TaskPhase, Over, Stores
<1> QED BY <1>3, <1>4 DEF CertIInv

(* Initially nothing is on disk, in memory or in progress. *)
LEMMA CertInitial == CertInit => CertIInv
<1> SUFFICES ASSUME CertInit PROVE CertIInv
  OBVIOUS
<1>1. CertTypes
  BY ManagerAssumption, ZenonT(30) DEF CertInit, CertTypes, Free, NotLoaded, Content, TaskState, TaskPc
<1>2. ASSUME NEW m \in Manager PROVE task[m].pc = "free" /\ mem[m] = NotLoaded
  BY Zenon DEF CertInit, Free
<1>3. OneTask
  BY <1>2, Zenon DEF OneTask, Over
<1>4. FilesAgree /\ MemoryAgrees
  BY <1>2, ManagerAssumption DEF FilesAgree, MemoryAgrees, CertInit
<1>5. \A m \in Manager : TaskPhase(m)
  BY <1>2, Zenon DEF TaskPhase, Over, Stores
<1> QED BY <1>1, <1>3, <1>4, <1>5, Zenon DEF CertIInv

(* Begin, in turn. *)
LEMMA BeginStep ==
    ASSUME TakeTurns, CertIInv,
           NEW m \in Manager, NEW op \in {"trust", "uninstall", "serve"}, NEW s \in Scopes,
           Begin(m, op, s)
    PROVE  CertIInv'
<1> DEFINE pc == IF mem[m] = NotLoaded THEN "loadCert" ELSE IF op = "serve" THEN "ok" ELSE "check"
           t == [op |-> op, scope |-> s, cert |-> "none", pc |-> pc]
<1>1. /\ CertTypes /\ OneTask /\ FilesAgree /\ MemoryAgrees /\ \A n \in Manager : Over(n)
      /\ task' = [task EXCEPT ![m] = t] /\ UNCHANGED <<certFile, keyFile, store, mem>>
  BY Zenon DEF Begin, CertIInv
<1>2. pc \in {"loadCert", "ok", "check"} /\ pc \in TaskPc
  BY Zenon DEF TaskPc, Loads, Stores
<1>3. t \in TaskState /\ t.op = op /\ t.scope = s /\ t.pc = pc
  BY <1>2, Zenon DEF TaskState, Content
<1>4. pc \in Stores => mem[m] # NotLoaded /\ op # "serve"
  BY Zenon DEF Stores
<1> HIDE DEF pc, t
<1>5. /\ task' \in [Manager -> TaskState] /\ task'[m] = t
      /\ \A n \in Manager \ {m} : task'[n] = task[n]
  BY <1>1, <1>3, ZenonT(30) DEF CertTypes
<1>6. CertTypes' /\ FilesAgree' /\ MemoryAgrees'
  BY <1>1, <1>5, Zenon DEF CertTypes, FilesAgree, MemoryAgrees
<1>7. \A n \in Manager \ {m} : Over(n)'
  BY <1>1, <1>5, Zenon DEF Over
<1>8. OneTask'
  BY <1>7, Zenon DEF OneTask
<1>9. ASSUME NEW n \in Manager \ {m} PROVE TaskPhase(n)'
  BY <1>7, Zenon DEF TaskPhase, Over, Stores
<1>10. TaskPhase(m)'
  BY <1>1, <1>2, <1>3, <1>4, <1>5, Zenon DEF TaskPhase, Over
<1> QED BY <1>6, <1>8, <1>9, <1>10, Zenon DEF CertIInv

(* A step of m that only goes on to pc keeps the invariant if the phase at *)
(* pc asks for nothing that is not known.                                  *)
LEMMA OnlyGoto ==
    ASSUME CertIInv, NEW m \in Manager, ~Over(m),
           NEW pc \in {"ok", "err"} \cup Loads \cup Writes \cup Stores,
           TaskGoto(m, pc), UNCHANGED <<certFile, keyFile, mem>>,
           store' \in [{"machine", "user"} -> SUBSET Pair],
           \/ pc \in {"ok", "err"}
           \/ pc = "generate" /\ keyFile = "none"
           \/ /\ pc \in Stores /\ mem[m] # NotLoaded /\ task[m].op # "serve"
              /\ pc = "remove" => task[m].op = "uninstall"
    PROVE  CertIInv'
<1>1. CertTypes' /\ \A n \in Manager \ {m} : task'[n] = task[n]
  BY GotoStep, Zenon DEF TaskPc, CertIInv, CertTypes
<1>2. FilesAgree' /\ MemoryAgrees'
  BY Zenon DEF CertIInv, FilesAgree, MemoryAgrees
<1>3. TaskPhase(m)'
  <2>1. task'[m].pc = pc /\ task'[m].op = task[m].op /\ task'[m].scope = task[m].scope
    BY GotoStep, Zenon DEF TaskPc, CertIInv
  <2>2. task[m].op # "none" /\ task[m].scope \in Scopes
    BY DEF CertIInv, TaskPhase
  <2> QED BY <2>1, <2>2, Zenon DEF TaskPhase, Stores
<1> QED BY <1>1, <1>2, <1>3, StepOfOne, ZenonT(30)

(* LoadCert and LoadKey, which read the files one after the other. *)
LEMMA LoadStep ==
    ASSUME CertIInv, NEW m \in Manager, LoadCert(m) \/ LoadKey(m)
    PROVE  CertIInv'
<1>1. ~Over(m)
  BY DEF LoadCert, LoadKey, Over
<1>2. ASSUME TaskGoto(m, "err") \/ (NoCA(m) /\ keyFile = "none"),
             UNCHANGED <<certFile, keyFile, store, mem>>
      PROVE  CertIInv'
  <2>1. store' \in [{"machine", "user"} -> SUBSET Pair]
    BY <1>2, Zenon DEF CertIInv, CertTypes
  <2>2. CASE TaskGoto(m, "err")
    BY <1>1, <1>2, <2>1, <2>2, OnlyGoto, Zenon
  <2>3. CASE NoCA(m) /\ keyFile = "none"
    BY <1>1, <1>2, <2>1, <2>3, OnlyGoto DEF NoCA, Writes
  <2> QED BY <1>2, <2>2, <2>3
<1>3. CASE LoadCert(m)
  <2>1. CASE certFile = "none" /\ NoCA(m)
    BY <1>2, <1>3, <2>1, ManagerAssumption DEF LoadCert, CertIInv, CertTypes, FilesAgree
  <2>2. CASE TaskGoto(m, "err")
    BY <1>2, <1>3, <2>2, Zenon DEF LoadCert
  <2>3. CASE /\ certFile # "none"
             /\ task' = [task EXCEPT ![m].pc = "loadKey", ![m].cert = certFile]
    <3>1. certFile \in Content
      BY SMTT(30) DEF CertIInv, CertTypes
    <3>2. CertTypes' /\ \A n \in Manager \ {m} : task'[n] = task[n]
      BY <1>3, <2>3, <3>1, GotoWithStep, Zenon DEF LoadCert, CertIInv, CertTypes
    <3>3. /\ task'[m].pc = "loadKey" /\ task'[m].cert = certFile
          /\ task'[m].op = task[m].op /\ task'[m].scope = task[m].scope
      BY <2>3, <3>1, GotoWithStep, Zenon DEF CertIInv
    <3>4. TaskPhase(m)'
      BY <1>1, <1>3, <2>3, <3>3 DEF LoadCert, CertIInv, TaskPhase, Over, Stores
    <3>5. FilesAgree' /\ MemoryAgrees'
      BY <1>3, Zenon DEF LoadCert, CertIInv, FilesAgree, MemoryAgrees
    <3> QED BY <1>1, <3>2, <3>4, <3>5, StepOfOne, ZenonT(30)
  <2> QED BY <1>3, <2>1, <2>2, <2>3 DEF LoadCert
<1>4. CASE LoadKey(m)
  <2>1. CASE keyFile = "none" /\ NoCA(m) /\ UNCHANGED mem
    BY <1>2, <1>4, <2>1, Zenon DEF LoadKey
  <2>2. CASE TaskGoto(m, "err") /\ UNCHANGED mem
    BY <1>2, <1>4, <2>2, Zenon DEF LoadKey
  <2>3. CASE /\ keyFile # "none" /\ "torn" \notin {keyFile, task[m].cert}
             /\ mem' = [mem EXCEPT ![m] = [cert |-> task[m].cert, key |-> keyFile]]
             /\ Loaded(m)
    <3> DEFINE pc == IF task[m].op = "serve" THEN "ok" ELSE "check"
    <3>1. keyFile \in Pair /\ task[m].cert = keyFile
      BY <1>4, <2>3, Zenon DEF LoadKey, CertIInv, CertTypes, FilesAgree, TaskPhase, Content
    <3>2. TaskGoto(m, pc) /\ pc \in {"ok"} \cup Stores
      <4>1. TaskGoto(m, pc)
        BY <2>3, Zenon DEF Loaded
      <4>2. pc = "ok" \/ pc = "check"
        BY Zenon
      <4> HIDE DEF pc
      <4> QED BY <4>1, <4>2, Zenon DEF Stores
    <3> HIDE DEF pc
    <3>3. CertTypes' /\ \A n \in Manager \ {m} : task'[n] = task[n]
      BY <1>4, <2>3, <3>1, <3>2, GotoStep, ZenonT(30) DEF TaskPc, LoadKey, CertIInv, CertTypes, Content
    <3>4. FilesAgree' /\ MemoryAgrees'
      BY <1>4, <2>3, <3>1 DEF LoadKey, CertIInv, CertTypes, FilesAgree, MemoryAgrees
    <3>5. task'[m].pc = pc /\ task'[m].op = task[m].op /\ task'[m].scope = task[m].scope
      BY <3>2, GotoStep, ZenonT(30) DEF TaskPc, CertIInv
    <3>6. mem'[m] # NotLoaded
      BY <2>3, <3>1, ManagerAssumption, Zenon DEF CertIInv, CertTypes, NotLoaded
    <3>7. TaskPhase(m)'
      BY <1>1, <3>5, <3>6, ZenonT(30) DEF CertIInv, TaskPhase, Over, Stores, pc
    <3> QED BY <1>1, <3>3, <3>4, <3>7, StepOfOne, ZenonT(30)
  <2> QED BY <1>4, <2>1, <2>2, <2>3, Zenon DEF LoadKey
<1> QED BY <1>3, <1>4

(* The steps of ensureRootKeypairLocked that make a new pair. *)
LEMMA WriteStep ==
    ASSUME CertIInv, NEW m \in Manager,
           \/ Generate(m) \/ OpenCert(m) \/ WriteCert(m) \/ OpenKey(m) \/ WriteKey(m)
    PROVE  CertIInv'
<1>1. ~Over(m)
  BY Zenon DEF Generate, OpenCert, WriteCert, OpenKey, WriteKey, Over
<1>2. ASSUME TaskGoto(m, "err"), UNCHANGED <<certFile, keyFile, store, mem>>
      PROVE  CertIInv'
  <2>1. store' \in [{"machine", "user"} -> SUBSET Pair]
    BY <1>2, Zenon DEF CertIInv, CertTypes
  <2> QED BY <1>1, <1>2, <2>1, OnlyGoto
<1>3. ASSUME NEW g \in Unused, task[m].pc = "generate",
             task' = [task EXCEPT ![m].pc = "openCert", ![m].cert = g],
             UNCHANGED <<certFile, keyFile, store, mem>>
      PROVE  CertIInv'
  <2>1. g \in Pair /\ g \in Content
    BY SMTT(30) DEF Unused, Content
  <2>2. CertTypes' /\ \A n \in Manager \ {m} : task'[n] = task[n]
    BY <1>3, <2>1, GotoWithStep, Zenon DEF CertIInv, CertTypes
  <2>3. FilesAgree' /\ MemoryAgrees'
    BY <1>3 DEF CertIInv, FilesAgree, MemoryAgrees
  <2>4. /\ task'[m].pc = "openCert" /\ task'[m].cert = g
        /\ task'[m].op = task[m].op /\ task'[m].scope = task[m].scope
    BY <1>3, <2>1, GotoWithStep, Zenon DEF CertIInv
  <2>5. TaskPhase(m)'
    BY <1>1, <1>3, <2>1, <2>4 DEF CertIInv, TaskPhase, Over, Stores
  <2> QED BY <1>1, <2>2, <2>3, <2>5, StepOfOne, ZenonT(30)
<1>4. Generate(m) => CertIInv'
  BY <1>2, <1>3, Zenon DEF Generate
<1>5. ASSUME task[m].pc = "openCert", certFile' = "torn", TaskGoto(m, "writeCert"),
             UNCHANGED <<keyFile, store, mem>>
      PROVE  CertIInv'
  <2>1. CertTypes' /\ \A n \in Manager \ {m} : task'[n] = task[n]
    BY <1>5, GotoStep DEF TaskPc, CertIInv, CertTypes, TaskPhase, Content, Writes
  <2>2. FilesAgree' /\ MemoryAgrees'
    <3>1. keyFile = "none" /\ "none" \notin Pair /\ MemoryAgrees
      BY <1>5, ManagerAssumption, Zenon DEF CertIInv, TaskPhase
    <3>2. FilesAgree'
      BY <1>5, <3>1, Zenon DEF FilesAgree
    <3>3. MemoryAgrees'
      BY <1>5, <3>1, Zenon DEF MemoryAgrees
    <3> QED BY <3>2, <3>3, Zenon
  <2>3. /\ task'[m].pc = "writeCert" /\ task'[m].cert = task[m].cert
        /\ task'[m].op = task[m].op /\ task'[m].scope = task[m].scope
    BY <1>5, GotoStep, Zenon DEF TaskPc, CertIInv, Writes
  <2>4. TaskPhase(m)'
    BY <1>1, <1>5, <2>3, ZenonT(30) DEF CertIInv, TaskPhase, Over, Stores
  <2> QED BY <1>1, <2>1, <2>2, <2>4, StepOfOne, ZenonT(30)
<1>6. ASSUME task[m].pc = "writeCert", certFile' = task[m].cert, TaskGoto(m, "openKey"),
             UNCHANGED <<keyFile, store, mem>>
      PROVE  CertIInv'
  <2>1. CertTypes' /\ \A n \in Manager \ {m} : task'[n] = task[n]
    BY <1>6, GotoStep, ZenonT(30) DEF TaskPc, CertIInv, CertTypes, TaskPhase, Content, Writes
  <2>2. FilesAgree' /\ MemoryAgrees'
    <3>1. keyFile = "none" /\ "none" \notin Pair /\ MemoryAgrees
      BY <1>6, ManagerAssumption, Zenon DEF CertIInv, TaskPhase
    <3>2. FilesAgree'
      BY <1>6, <3>1, Zenon DEF FilesAgree
    <3>3. MemoryAgrees'
      BY <1>6, <3>1, Zenon DEF MemoryAgrees
    <3> QED BY <3>2, <3>3
  <2>3. /\ task'[m].pc = "openKey" /\ task'[m].cert = task[m].cert
        /\ task'[m].op = task[m].op /\ task'[m].scope = task[m].scope
    BY <1>6, GotoStep, Zenon DEF TaskPc, CertIInv, Writes
  <2>4. TaskPhase(m)'
    BY <1>1, <1>6, <2>3, ZenonT(30) DEF CertIInv, TaskPhase, Over, Stores
  <2> QED BY <1>1, <2>1, <2>2, <2>4, StepOfOne, ZenonT(30)
<1>7. ASSUME task[m].pc = "openKey", keyFile' = "torn", TaskGoto(m, "writeKey"),
             UNCHANGED <<certFile, store, mem>>
      PROVE  CertIInv'
  <2>1. CertTypes' /\ \A n \in Manager \ {m} : task'[n] = task[n]
    BY <1>7, GotoStep, Zenon DEF TaskPc, CertIInv, CertTypes, TaskPhase, Content, Writes
  <2>2. FilesAgree' /\ MemoryAgrees'
    <3>1. /\ keyFile = "none" /\ "none" \notin Pair /\ "torn" \notin Pair /\ MemoryAgrees
          /\ certFile \in Pair
      BY <1>7, ManagerAssumption, Zenon DEF CertIInv, TaskPhase
    <3>2. FilesAgree'
      BY <1>7, <3>1, Zenon DEF FilesAgree
    <3>3. MemoryAgrees'
      BY <1>7, <3>1, Zenon DEF MemoryAgrees
    <3> QED BY <3>2, <3>3
  <2>3. /\ task'[m].pc = "writeKey" /\ task'[m].cert = task[m].cert
        /\ task'[m].op = task[m].op /\ task'[m].scope = task[m].scope
    BY <1>7, GotoStep, Zenon DEF TaskPc, CertIInv, Writes
  <2>4. TaskPhase(m)'
    BY <1>1, <1>7, <2>3, ZenonT(30) DEF CertIInv, TaskPhase, Over, Stores
  <2> QED BY <1>1, <2>1, <2>2, <2>4, StepOfOne, ZenonT(30)
<1>8. ASSUME task[m].pc = "writeKey", keyFile' = task[m].cert, Loaded(m),
             mem' = [mem EXCEPT ![m] = [cert |-> task[m].cert, key |-> task[m].cert]],
             UNCHANGED <<certFile, store>>
      PROVE  CertIInv'
  <2> DEFINE pc == IF task[m].op = "serve" THEN "ok" ELSE "check"
  <2>1. TaskGoto(m, pc) /\ pc \in {"ok"} \cup Stores
    <3>1. TaskGoto(m, pc)
      BY <1>8, Zenon DEF Loaded
    <3>2. pc = "ok" \/ pc = "check"
      BY Zenon
    <3> HIDE DEF pc
    <3> QED BY <3>1, <3>2, Zenon DEF Stores
  <2>2. task[m].cert \in Pair /\ certFile = task[m].cert
    BY <1>8, Zenon DEF CertIInv, TaskPhase
  <2> HIDE DEF pc
  <2>3. CertTypes' /\ \A n \in Manager \ {m} : task'[n] = task[n]
    BY <1>8, <2>1, <2>2, GotoStep, Zenon DEF TaskPc, CertIInv, CertTypes, Content
  <2>4. FilesAgree' /\ MemoryAgrees'
    <3>1. \A n \in Manager : mem[n] = NotLoaded
      BY <1>8, ManagerAssumption, Zenon DEF CertIInv, TaskPhase, MemoryAgrees
    <3> QED BY <1>8, <2>2, <3>1, Zenon DEF CertIInv, CertTypes, FilesAgree, MemoryAgrees
  <2>5. task'[m].pc = pc /\ task'[m].op = task[m].op /\ task'[m].scope = task[m].scope
    BY <2>1, GotoStep, Zenon DEF TaskPc, CertIInv
  <2>6. mem'[m] # NotLoaded
    BY <1>8, <2>2, ManagerAssumption, Zenon DEF CertIInv, CertTypes, NotLoaded
  <2>7. TaskPhase(m)'
    BY <1>1, <2>5, <2>6, Zenon DEF CertIInv, TaskPhase, Over, Stores, pc
  <2> QED BY <1>1, <2>3, <2>4, <2>7, StepOfOne, ZenonT(30)
<1> QED BY <1>2, <1>4, <1>5, <1>6, <1>7, <1>8 DEF OpenCert, WriteCert, OpenKey, WriteKey

(* The steps on the Root stores. *)
LEMMA StoreStep ==
    ASSUME CertIInv, NEW m \in Manager, Check(m) \/ Install(m) \/ RemoveRoot(m)
    PROVE  CertIInv'
<1>1. ~Over(m) /\ mem[m] # NotLoaded /\ task[m].op # "serve" /\ task[m].op # "none"
  BY Zenon DEF Check, Install, RemoveRoot, Over, CertIInv, TaskPhase, Stores
<1>2. mem[m].cert \in Pair
  BY <1>1 DEF CertIInv, MemoryAgrees
<1>3. store' \in [{"machine", "user"} -> SUBSET Pair]
  BY <1>2 DEF Check, Install, RemoveRoot, CertIInv, CertTypes
<1>4. UNCHANGED <<certFile, keyFile, mem>>
  BY DEF Check, Install, RemoveRoot
<1>5. \E pc \in {"ok", "err", "install", "remove"} :
          TaskGoto(m, pc) /\ (pc = "remove" => task[m].op = "uninstall")
  <2>1. task[m].op \in {"trust", "uninstall"}
    BY <1>1, ZenonT(30) DEF CertIInv, CertTypes, TaskState
  <2> QED BY <2>1 DEF Check, Install, RemoveRoot
<1> QED BY <1>1, <1>3, <1>4, <1>5, OnlyGoto, Zenon DEF Stores

(* The process ends and forgets its pair; the files stay as they are. *)
LEMMA EndsStep ==
    ASSUME CertIInv, NEW m \in Manager, End(m)
    PROVE  CertIInv'
BY ManagerAssumption
   DEF End, Free, CertIInv, CertTypes, OneTask, FilesAgree, MemoryAgrees,
       TaskPhase, Over, NotLoaded, Content, Loads, Writes, Stores,
         TaskState, TaskPc

(* The invariant of all behaviours in which operations take turns. *)
THEOREM CertInvariant ==
    ASSUME TakeTurns
    PROVE  CertSpec => []CertIInv
<1>1. CertIInv /\ [CertNext]_certVars => CertIInv'
  <2> SUFFICES ASSUME CertIInv, [CertNext]_certVars PROVE CertIInv'
    OBVIOUS
  <2>1. CASE UNCHANGED certVars
    BY <2>1, Zenon DEF certVars, CertIInv, CertTypes, OneTask, FilesAgree, MemoryAgrees,
                TaskPhase, Over
  <2>2. CASE CertNext
    BY <2>2, BeginStep, LoadStep, WriteStep, StoreStep, EndsStep DEF CertNext
  <2> QED BY <2>1, <2>2
<1> QED BY <1>1, CertInitial, PTL DEF CertSpec

(* However the processes die, a Manager signs with the key of its root     *)
(* certificate.                                                            *)
THEOREM CertMatchingPair ==
    ASSUME TakeTurns
    PROVE  CertSpec => []MatchingPair
<1>1. CertIInv => MatchingPair
  BY DEF CertIInv, MemoryAgrees, MatchingPair, NotLoaded
<1> QED BY <1>1, CertInvariant, PTL

(* A complete pair on disk stays: the files are only written by an         *)
(* operation that has found the key missing, or has made it so.            *)
THEOREM CertCompletePairKept ==
    ASSUME TakeTurns
    PROVE  CertSpec => CompletePairKept
<1> DEFINE PairKept == {certFile, keyFile} \subseteq Pair =>
                      certFile' = certFile /\ keyFile' = keyFile
<1>1. CertIInv /\ [CertNext]_certVars => [PairKept]_certVars
  <2> SUFFICES ASSUME CertIInv, CertNext, {certFile, keyFile} \subseteq Pair
               PROVE  certFile' = certFile /\ keyFile' = keyFile
    OBVIOUS
  <2>1. PICK m \in Manager :
            \/ UNCHANGED <<certFile, keyFile>>
            \/ OpenCert(m) \/ WriteCert(m) \/ OpenKey(m) \/ WriteKey(m)
    BY DEF CertNext, Begin, LoadCert, LoadKey, Generate, Check, Install, RemoveRoot, End
  <2>2. keyFile # "none" /\ keyFile # "torn"
    BY ManagerAssumption
  <2> QED BY <2>1, <2>2 DEF OpenCert, WriteCert, OpenKey, WriteKey, CertIInv, TaskPhase
<1> QED BY <1>1, CertInvariant, PTL DEF CertSpec, CompletePairKept

(* EnsureTrusted succeeds only if the root that signs, here and in every   *)
(* process that loads the files, is in one of the Root stores.             *)
THEOREM CertTrustedIsServed ==
    ASSUME TakeTurns
    PROVE  CertSpec => TrustedIsServed
<1> DEFINE Served == \A m \in Manager : Succeeds(m, "trust") =>
                        InSomeStore(mem[m].cert)' /\ certFile = mem[m].cert
<1>1. CertIInv /\ [CertNext]_certVars => [Served]_certVars
  <2> SUFFICES ASSUME CertIInv, CertNext, NEW m \in Manager, Succeeds(m, "trust")
               PROVE  InSomeStore(mem[m].cert)' /\ certFile = mem[m].cert
    OBVIOUS
  <2>0. \A pc \in TaskPc : TaskGoto(m, pc) => task'[m].pc = pc
    BY GotoStep DEF CertIInv
  <2>1. Check(m) \/ Install(m)
    <3>1. PICK n \in Manager :
              \/ \E op \in {"trust", "uninstall", "serve"}, s \in Scopes : Begin(n, op, s)
              \/ LoadCert(n) \/ LoadKey(n) \/ Generate(n)
              \/ OpenCert(n) \/ WriteCert(n) \/ OpenKey(n) \/ WriteKey(n)
              \/ Check(n) \/ Install(n) \/ RemoveRoot(n) \/ End(n)
      BY Zenon DEF CertNext
    <3>2. ~Over(m) /\ task[m].op = "trust" /\ task'[m].pc = "ok"
      BY DEF Succeeds
    <3>3. task'[m] # task[m]
      BY <3>2, Zenon DEF Over
    <3>4. n = m
      BY <3>1, <3>3, Zenon
         DEF Begin, LoadCert, LoadKey, Generate, OpenCert, WriteCert, OpenKey, WriteKey, Check,
             Install, RemoveRoot, End, NoCA, Loaded, TaskGoto, CertIInv, CertTypes
    <3>5. /\ \A op \in {"trust", "uninstall", "serve"}, s \in Scopes : ~Begin(m, op, s)
          /\ ~RemoveRoot(m)
      BY <3>2, ZenonT(30) DEF Begin, RemoveRoot, CertIInv, TaskPhase
    <3>6. ~End(m)
      BY <3>2 DEF End, Free, CertIInv, CertTypes
    <3>7. ~LoadCert(m) /\ ~Generate(m)
      <4>1. ASSUME NEW c \in Content, NEW pc \in {"loadKey", "openCert"},
                   task' = [task EXCEPT ![m].pc = pc, ![m].cert = c]
            PROVE  FALSE
        <5>1. task'[m].pc = pc
          BY <4>1, GotoWithStep, ZenonT(30) DEF CertIInv
        <5> QED BY <3>2, <5>1
      <4> QED BY <2>0, <3>2, <4>1, Zenon
              DEF LoadCert, Generate, NoCA, Unused, Content, CertIInv, CertTypes,
                  TaskPc, Loads, Writes
    <3>8. ~LoadKey(m) /\ ~OpenCert(m) /\ ~WriteCert(m) /\ ~OpenKey(m) /\ ~WriteKey(m)
      BY <2>0, <3>2, Zenon DEF LoadKey, OpenCert, WriteCert, OpenKey, WriteKey, NoCA, Loaded,
                        TaskPc, Loads, Writes, Stores
    <3> QED BY <3>1, <3>4, <3>5, <3>6, <3>7, <3>8, Zenon
  <2>2. mem[m].cert = certFile /\ mem' = mem
    BY <2>1 DEF Check, Install, CertIInv, TaskPhase, Stores, MemoryAgrees, FilesAgree
  <2>3. task[m].scope \in {"machine", "user"}
    BY ManagerAssumption, Zenon DEF CertIInv, TaskPhase, Succeeds
  <2>4. CASE Check(m)
    <3>1. task'[m].pc = "ok" /\ task[m].op = "trust"
      BY DEF Succeeds
    <3>2. mem[m].cert \in store[task[m].scope] /\ store' = store
      BY <2>0, <2>4, <3>1, Zenon DEF Check, TaskPc, Stores
    <3> QED BY <2>2, <2>3, <3>2 DEF InSomeStore
  <2>5. CASE Install(m)
    <3>1. PICK s \in {"machine", "user"} : store' = [store EXCEPT ![s] = @ \cup {certFile}]
      BY <2>0, <2>2, <2>3, <2>5 DEF Install, TaskPc, Succeeds
    <3> QED BY <2>2, <3>1, ZenonT(30) DEF InSomeStore, CertIInv, CertTypes
  <2> QED BY <2>1, <2>4, <2>5, Zenon
<1> QED BY <1>1, CertInvariant, PTL DEF CertSpec, TrustedIsServed

-----------------------------------------------------------------------------
(* MacProxy.  A restore is the subtle part: RestoreCommands may set an      *)
(* address, which turns the channel on, before it sets the state.  Back    *)
(* says that every channel of every recorded service is as it was saved or *)
(* will be when the commands still to run have run, and Orderly that an    *)
(* address is followed by the state of the same channel, so that no        *)
(* command undoes what Back says.  When nothing is left to run, every      *)
(* recorded service is back, and the file may go.                          *)

ChannelState == [on : BOOLEAN, addr : Address]

Command == [svc : Services, ch : Channel, field : {"addr"}, val : Address]
               \cup [svc : Services, ch : Channel, field : {"on"}, val : BOOLEAN]

IsSaved(sv) == DOMAIN sv \subseteq Services /\ \A s \in DOMAIN sv : sv[s] \in [Channel -> ChannelState]

LEMMA CommandFields ==
    \A c, s, ch, v : c = SetState(s, ch, v) \/ c = SetAddr(s, ch, v) => c.svc = s /\ c.ch = ch
BY DEF SetState, SetAddr

\* A channel has the value v that was saved for it, or todo will see to it.
Due(c, v, s, ch, todo) ==
    /\ c.on = v.on \/ SetState(s, ch, v.on) \in Range(todo)
    /\ v.addr = "" \/ c.addr = v.addr \/ SetAddr(s, ch, v.addr) \in Range(todo)

\* So have the channels of all the services that are not still to come.
Back(n, sv, rest, todo) ==
    \A s \in DOMAIN sv : \/ s \in Range(rest)
                         \/ \A ch \in Channel : Due(n[s][ch], sv[s][ch], s, ch, todo)

\* The commands of a restore: a state that was saved, or an address that was,
\* and the state, which the address turns on, next.
Orderly(sv, todo) ==
    \A i \in 1..Len(todo) : \E s \in DOMAIN sv, ch \in Channel :
        \/ todo[i] = SetState(s, ch, sv[s][ch].on)
        \/ /\ todo[i] = SetAddr(s, ch, sv[s][ch].addr)
           /\ i + 1 \in 1..Len(todo) /\ todo[i + 1] = SetState(s, ch, sv[s][ch].on)

LEMMA RangeOfSeq ==
    ASSUME NEW B, NEW s \in Seq(B)
    PROVE  s \in Seq(Range(s)) /\ Range(s) \subseteq B
  BY DEF Range

LEMMA RangeEmpty == Range(<<>>) = {}
  BY DEF Range

LEMMA RangeConcat ==
    ASSUME NEW B, NEW p \in Seq(B), NEW q \in Seq(B)
    PROVE  p \o q \in Seq(B) /\ Range(p) \subseteq Range(p \o q) /\ Range(q) \subseteq Range(p \o q)
<1> DEFINE t == p \o q
<1>1. /\ t \in Seq(B) /\ Len(t) = Len(p) + Len(q) /\ Len(p) \in Nat /\ Len(q) \in Nat
      /\ DOMAIN p = 1..Len(p) /\ DOMAIN q = 1..Len(q) /\ DOMAIN t = 1..Len(t)
  OBVIOUS
<1>2. \A i \in 1..Len(p) : t[i] = p[i] /\ i \in 1..Len(t)
  OBVIOUS
<1>3. \A i \in 1..Len(q) : t[Len(p) + i] = q[i] /\ Len(p) + i \in 1..Len(t)
  OBVIOUS
<1> HIDE DEF t
<1>4. Range(p) \subseteq Range(t)
  BY <1>1, <1>2, Zenon DEF Range
<1>5. Range(q) \subseteq Range(t)
  BY <1>1, <1>3, Zenon DEF Range
<1> QED BY <1>1, <1>4, <1>5, Zenon DEF t

LEMMA OrderlyConcat ==
    ASSUME NEW sv, NEW p \in Seq(Command), NEW q \in Seq(Command), Orderly(sv, p), Orderly(sv, q)
    PROVE  Orderly(sv, p \o q)
<1> DEFINE t == p \o q
           At(u, i) == \E s \in DOMAIN sv, ch \in Channel :
                          \/ u[i] = SetState(s, ch, sv[s][ch].on)
                          \/ /\ u[i] = SetAddr(s, ch, sv[s][ch].addr)
                             /\ i + 1 \in 1..Len(u) /\ u[i + 1] = SetState(s, ch, sv[s][ch].on)
<1>1. Len(t) = Len(p) + Len(q) /\ Len(p) \in Nat /\ Len(q) \in Nat
  OBVIOUS
<1>2. \A i \in 1..Len(p) : t[i] = p[i] /\ i \in 1..Len(t)
  OBVIOUS
<1>3. \A i \in 1..Len(q) : t[Len(p) + i] = q[i] /\ Len(p) + i \in 1..Len(t)
  OBVIOUS
<1> HIDE DEF t
<1>4. ASSUME NEW i \in 1..Len(p) PROVE At(t, i)
  <2>1. At(p, i)
    BY Zenon DEF Orderly
  <2> QED BY <1>2, <2>1, Zenon
<1>5. ASSUME NEW k \in 1..Len(q) PROVE At(t, Len(p) + k)
  <2>1. PICK s \in DOMAIN sv, ch \in Channel :
           \/ q[k] = SetState(s, ch, sv[s][ch].on)
           \/ /\ q[k] = SetAddr(s, ch, sv[s][ch].addr)
              /\ k + 1 \in 1..Len(q) /\ q[k + 1] = SetState(s, ch, sv[s][ch].on)
    BY Zenon DEF Orderly
  <2>2. (Len(p) + k) + 1 = Len(p) + (k + 1)
    BY <1>1
  <2>3. t[Len(p) + k] = q[k]
    BY <1>3, Zenon
  <2>4. k + 1 \in 1..Len(q) => /\ (Len(p) + k) + 1 \in 1..Len(t)
                               /\ t[(Len(p) + k) + 1] = q[k + 1]
    BY <1>3, <2>2
  <2> QED BY <2>1, <2>3, <2>4, Zenon
<1>6. \A i \in 1..Len(t) : i \in 1..Len(p) \/ \E k \in 1..Len(q) : i = Len(p) + k
  <2>1. \A i \in 1..Len(t) : i \in 1..Len(p) \/ (i - Len(p) \in 1..Len(q) /\ i = Len(p) + (i - Len(p)))
    BY <1>1
  <2> QED BY <2>1, Zenon
<1>7. \A i \in 1..Len(t) : At(t, i)
  <2> HIDE DEF At
  <2> QED BY <1>4, <1>5, <1>6, Zenon
<1> QED BY <1>7, Zenon DEF Orderly, t

\* Commands that bring a channel back.
Brings(todo, s, ch, v) ==
    /\ SetState(s, ch, v.on) \in Range(todo)
    /\ v.addr = "" \/ SetAddr(s, ch, v.addr) \in Range(todo)

LEMMA ChannelCommands ==
    ASSUME NEW sv, NEW s \in DOMAIN sv, s \in Services, NEW ch \in Channel,
           NEW v \in ChannelState, v = sv[s][ch]
    PROVE  LET t == RestoreChannel(s, ch, v)
           IN  t \in Seq(Command) /\ Orderly(sv, t) /\ Brings(t, s, ch, v)
<1> DEFINE a == SetAddr(s, ch, v.addr)
           o == SetState(s, ch, v.on)
           t == RestoreChannel(s, ch, v)
<1>1. a \in Command /\ o \in Command
  BY DEF SetAddr, SetState, Command, ChannelState
<1> HIDE DEF a, o
<1>2. CASE v.addr = ""
  <2>1. t = <<o>>
    <3>1. t = <<>> \o <<o>>
      BY <1>2, Zenon DEF RestoreChannel, o
    <3>2. <<>> \o <<o>> = <<o>>
      BY <1>1
    <3> QED BY <3>1, <3>2, Zenon
  <2>2. <<o>> \in Seq(Command) /\ Len(<<o>>) = 1 /\ <<o>>[1] = o /\ o \in Range(<<o>>)
    BY <1>1 DEF Range
  <2>3. Orderly(sv, <<o>>)
    <3>1. \A i \in 1..Len(<<o>>) : <<o>>[i] = o
      BY <2>2
    <3> QED BY <3>1, Zenon DEF Orderly, o
  <2> QED BY <1>2, <2>1, <2>2, <2>3, Zenon DEF Brings, o
<1>3. CASE v.addr # ""
  <2>1. t = <<a>> \o <<o>>
    BY <1>3, Zenon DEF RestoreChannel, a, o
  <2>2. t \in Seq(Command) /\ Len(t) = 2 /\ t[1] = a /\ t[2] = o
    BY <1>1, <2>1
  <2> HIDE DEF t
  <2>3. DOMAIN t = 1..Len(t) /\ 1 \in 1..Len(t) /\ 2 \in 1..Len(t) /\ 1 + 1 = 2
    BY <2>2
  <2>4. o \in Range(t) /\ a \in Range(t)
    BY <2>2, <2>3, Zenon DEF Range
  <2>5. \A i \in 1..Len(t) : i = 1 \/ i = 2
    BY <2>2
  <2>6. Orderly(sv, t)
    BY <2>2, <2>3, <2>5, ZenonT(30) DEF Orderly, o, a
  <2> QED BY <2>2, <2>4, <2>6, Zenon DEF Brings, o, a, t
<1> QED BY <1>2, <1>3, Zenon

LEMMA BringsMore ==
    ASSUME NEW p, NEW q, Range(p) \subseteq Range(q), NEW s, NEW ch, NEW v, Brings(p, s, ch, v)
    PROVE  Brings(q, s, ch, v)
  BY Zenon DEF Brings

(* Restore's commands for a service bring all of its channels back. *)
LEMMA ServiceCommands ==
    ASSUME NEW sv, IsSaved(sv), NEW s \in DOMAIN sv
    PROVE  LET t == RestoreCommands(s, sv[s])
           IN  /\ t \in Seq(Command) /\ Orderly(sv, t)
               /\ \A ch \in Channel : Brings(t, s, ch, sv[s][ch])
<1> DEFINE v == sv[s]
           p == RestoreChannel(s, "web", v["web"])
           q == RestoreChannel(s, "secure", v["secure"])
           r == RestoreChannel(s, "auto", v["auto"])
           t == RestoreCommands(s, v)
<1>1. s \in Services /\ \A ch \in Channel : v[ch] \in ChannelState
  BY DEF IsSaved
<1>2. "web" \in Channel /\ "secure" \in Channel /\ "auto" \in Channel
  BY Zenon DEF Channel
<1>3. p \in Seq(Command) /\ Orderly(sv, p) /\ Brings(p, s, "web", v["web"])
  BY <1>1, <1>2, ChannelCommands, Zenon
<1>4. q \in Seq(Command) /\ Orderly(sv, q) /\ Brings(q, s, "secure", v["secure"])
  BY <1>1, <1>2, ChannelCommands, ZenonT(30)
<1>5. r \in Seq(Command) /\ Orderly(sv, r) /\ Brings(r, s, "auto", v["auto"])
  BY <1>1, <1>2, ChannelCommands
<1>6. t = (p \o q) \o r
  BY Zenon DEF RestoreCommands
<1> HIDE DEF p, q, r, t
<1>7. /\ p \o q \in Seq(Command) /\ Orderly(sv, p \o q)
      /\ Range(p) \subseteq Range(p \o q) /\ Range(q) \subseteq Range(p \o q)
  BY <1>3, <1>4, OrderlyConcat, RangeConcat, Zenon
<1> DEFINE w == p \o q
<1> HIDE DEF w
<1>8. /\ w \o r \in Seq(Command) /\ Orderly(sv, w \o r)
      /\ Range(w) \subseteq Range(w \o r) /\ Range(r) \subseteq Range(w \o r)
  <2>1. w \in Seq(Command) /\ Orderly(sv, w)
    BY <1>7, Zenon DEF w
  <2> QED BY <1>5, <2>1, OrderlyConcat, RangeConcat, Zenon
<1>9. /\ Range(p) \subseteq Range(t) /\ Range(q) \subseteq Range(t) /\ Range(r) \subseteq Range(t)
      /\ t \in Seq(Command) /\ Orderly(sv, t)
  BY <1>6, <1>7, <1>8, Zenon DEF w
<1>10. Brings(t, s, "web", v["web"]) /\ Brings(t, s, "secure", v["secure"]) /\ Brings(t, s, "auto", v["auto"])
  BY <1>3, <1>4, <1>5, <1>9, BringsMore, Zenon
<1>11. \A ch \in Channel : Brings(t, s, ch, v[ch])
  BY <1>10, Zenon DEF Channel
<1> QED BY <1>9, <1>11, Zenon DEF t

-----------------------------------------------------------------------------
(* MacProxy: a command, and the end of the commands *)

\* n2 is what the command c makes of n.
Does(n, c, n2) ==
    /\ n2 \in Nets
    /\ \A s \in Services : s # c.svc => n2[s] = n[s]
    /\ \A ch \in Channel : ch # c.ch => n2[c.svc][ch] = n[c.svc][ch]
    /\ c.field = "addr" => n2[c.svc][c.ch].addr = c.val /\ n2[c.svc][c.ch].on
    /\ c.field = "on" => n2[c.svc][c.ch].on = c.val /\ n2[c.svc][c.ch].addr = n[c.svc][c.ch].addr

LEMMA CommandDoes ==
    ASSUME NEW n \in Nets, NEW c \in Command
    PROVE  Does(n, c, [n EXCEPT ![c.svc][c.ch] = IF c.field = "addr" THEN [on |-> TRUE, addr |-> c.val]
                                                 ELSE [@ EXCEPT !.on = c.val]])
<1> DEFINE w == IF c.field = "addr" THEN [on |-> TRUE, addr |-> c.val]
                ELSE [n[c.svc][c.ch] EXCEPT !.on = c.val]
           n2 == [n EXCEPT ![c.svc][c.ch] = w]
<1>1. c.svc \in Services /\ c.ch \in Channel
  BY DEF Command
<1>2. n[c.svc] \in [Channel -> ChannelState] /\ n[c.svc][c.ch] \in ChannelState
  BY <1>1 DEF Nets, ChannelState
<1>3. /\ w \in ChannelState
      /\ c.field = "addr" => w.addr = c.val /\ w.on
      /\ c.field = "on" => w.on = c.val /\ w.addr = n[c.svc][c.ch].addr
  BY <1>2, Zenon DEF Command, ChannelState
<1> HIDE DEF w
<1>4. /\ n2 \in [Services -> [Channel -> ChannelState]]
      /\ \A s \in Services : s # c.svc => n2[s] = n[s]
      /\ \A ch \in Channel : ch # c.ch => n2[c.svc][ch] = n[c.svc][ch]
      /\ n2[c.svc][c.ch] = w
  BY <1>1, <1>2, <1>3 DEF Nets, ChannelState
<1> HIDE DEF n2
<1>5. Does(n, c, n2)
  BY <1>3, <1>4, Zenon DEF Does, Nets, ChannelState
<1> QED BY <1>5, Zenon DEF n2, w

LEMMA HeadTail ==
    ASSUME NEW B, NEW t \in Seq(B), t # <<>>
    PROVE  /\ Head(t) \in B /\ Tail(t) \in Seq(B) /\ Head(t) = t[1] /\ 1 \in 1..Len(t)
           /\ Len(Tail(t)) = Len(t) - 1 /\ Len(t) \in Nat
           /\ \A i \in 1..Len(Tail(t)) : Tail(t)[i] = t[i + 1] /\ i + 1 \in 1..Len(t)
           /\ Range(t) = {Head(t)} \cup Range(Tail(t))
<1>1. /\ Head(t) \in B /\ Tail(t) \in Seq(B) /\ Head(t) = t[1] /\ 1 \in 1..Len(t)
      /\ Len(Tail(t)) = Len(t) - 1 /\ Len(t) \in Nat
      /\ \A i \in 1..Len(Tail(t)) : Tail(t)[i] = t[i + 1] /\ i + 1 \in 1..Len(t)
  OBVIOUS
<1>2. DOMAIN t = 1..Len(t) /\ DOMAIN Tail(t) = 1..Len(Tail(t))
  BY <1>1
<1>3. \A i \in 1..Len(t) : i = 1 \/ (i - 1 \in 1..Len(Tail(t)) /\ (i - 1) + 1 = i)
  BY <1>1
<1>4. Range(t) \subseteq {Head(t)} \cup Range(Tail(t))
  <2>1. ASSUME NEW i \in 1..Len(t) PROVE t[i] \in {Head(t)} \cup Range(Tail(t))
    <3>1. CASE i = 1
      BY <1>1, <3>1, Zenon
    <3>2. CASE i - 1 \in 1..Len(Tail(t)) /\ (i - 1) + 1 = i
      <4>1. Tail(t)[i - 1] = t[i]
        BY <1>1, <3>2
      <4> QED BY <1>2, <3>2, <4>1, Zenon DEF Range
    <3> QED BY <1>3, <3>1, <3>2, Zenon
  <2> QED BY <1>2, <2>1, Zenon DEF Range
<1>5. {Head(t)} \cup Range(Tail(t)) \subseteq Range(t)
  <2>1. Head(t) \in Range(t)
    BY <1>1, <1>2, Zenon DEF Range
  <2>2. \A i \in 1..Len(Tail(t)) : Tail(t)[i] \in Range(t)
    <3>1. \A i \in 1..Len(t) : t[i] \in Range(t)
      BY <1>2, Zenon DEF Range
    <3> QED BY <1>1, <3>1, Zenon
  <2>3. Range(Tail(t)) \subseteq Range(t)
    BY <1>2, <2>2, Zenon DEF Range
  <2> QED BY <2>1, <2>3, Zenon
<1> QED BY <1>1, <1>4, <1>5, Zenon

LEMMA OrderlyTail ==
    ASSUME NEW sv, NEW t \in Seq(Command), t # <<>>, Orderly(sv, t)
    PROVE  Orderly(sv, Tail(t))
<1> DEFINE u == Tail(t)
<1>1. \A i \in 1..Len(u) : u[i] = t[i + 1] /\ i + 1 \in 1..Len(t)
  BY HeadTail, Zenon
<1>2. Len(u) = Len(t) - 1 /\ Len(t) \in Nat
  BY HeadTail
<1> HIDE DEF u
<1>3. \A i \in 1..Len(u) : (i + 1) + 1 \in 1..Len(t) => i + 1 \in 1..Len(u)
  BY <1>2
<1>4. ASSUME NEW i \in 1..Len(u)
      PROVE  \E s \in DOMAIN sv, ch \in Channel :
                 \/ u[i] = SetState(s, ch, sv[s][ch].on)
                 \/ /\ u[i] = SetAddr(s, ch, sv[s][ch].addr)
                    /\ i + 1 \in 1..Len(u) /\ u[i + 1] = SetState(s, ch, sv[s][ch].on)
  <2>1. PICK s \in DOMAIN sv, ch \in Channel :
           \/ t[i + 1] = SetState(s, ch, sv[s][ch].on)
           \/ /\ t[i + 1] = SetAddr(s, ch, sv[s][ch].addr)
              /\ (i + 1) + 1 \in 1..Len(t) /\ t[(i + 1) + 1] = SetState(s, ch, sv[s][ch].on)
    BY <1>1, Zenon DEF Orderly
  <2> QED BY <1>1, <1>3, <2>1, ZenonT(30)
<1> QED BY <1>4, Zenon DEF Orderly, u

(* A command keeps to what the rest of the commands will see to. *)
LEMMA BackStep ==
    ASSUME NEW n \in Nets, NEW sv, IsSaved(sv), NEW rest, NEW t \in Seq(Command), t # <<>>,
           Orderly(sv, t), Back(n, sv, rest, t), NEW n2, Does(n, Head(t), n2)
    PROVE  Back(n2, sv, rest, Tail(t))
<1> DEFINE c == Head(t)
           u == Tail(t)
<1>0. Range(t) = {c} \cup Range(u)
  BY HeadTail, Zenon
<1>1. PICK z \in DOMAIN sv, h \in Channel :
         \/ c = SetState(z, h, sv[z][h].on)
         \/ /\ c = SetAddr(z, h, sv[z][h].addr)
            /\ SetState(z, h, sv[z][h].on) \in Range(u)
  <2>1. c = t[1] /\ 1 \in 1..Len(t) /\ Len(u) = Len(t) - 1 /\ Len(t) \in Nat
    BY HeadTail
  <2>2. \A i \in 1..Len(u) : u[i] = t[i + 1] /\ u[i] \in Range(u)
    <3>1. DOMAIN u = 1..Len(u)
      BY HeadTail
    <3> QED BY <3>1, HeadTail, Zenon DEF Range
  <2> HIDE DEF c, u
  <2>3. 1 + 1 \in 1..Len(t) => 1 \in 1..Len(u)
    BY <2>1
  <2>4. PICK z \in DOMAIN sv, h \in Channel :
           \/ t[1] = SetState(z, h, sv[z][h].on)
           \/ /\ t[1] = SetAddr(z, h, sv[z][h].addr)
              /\ 1 + 1 \in 1..Len(t) /\ t[1 + 1] = SetState(z, h, sv[z][h].on)
    BY <2>1, Zenon DEF Orderly
  <2> QED BY <2>1, <2>2, <2>3, <2>4, ZenonT(30)
<1> HIDE DEF c, u
<1>2. ASSUME NEW s \in DOMAIN sv, NEW ch \in Channel, Due(n[s][ch], sv[s][ch], s, ch, t)
      PROVE  Due(n2[s][ch], sv[s][ch], s, ch, u)
  <2>1. s \in Services /\ z \in Services /\ c.svc = z /\ c.ch = h
    <3>1. s \in Services /\ z \in Services
      BY ZenonT(30) DEF IsSaved
    <3>2. c.svc = z /\ c.ch = h
      <4>1. \A v : c = SetState(z, h, v) \/ c = SetAddr(z, h, v) => c.svc = z /\ c.ch = h
        BY CommandFields, ZenonT(30)
      <4> QED BY <1>1, <4>1, ZenonT(30)
    <3> QED BY <3>1, <3>2, Zenon
  <2>2. CASE s # z \/ ch # h
    <3>1. n2[s][ch] = n[s][ch]
      BY <2>1, <2>2, Zenon DEF Does, c
    <3>2. /\ SetState(s, ch, sv[s][ch].on) # c /\ SetAddr(s, ch, sv[s][ch].addr) # c
      BY <2>1, <2>2, CommandFields, Zenon
    <3> QED BY <1>0, <1>2, <3>1, <3>2, Zenon DEF Due
  <2>3. CASE s = z /\ ch = h
    <3> DEFINE v == sv[s][ch]
    <3>1. CASE c = SetState(z, h, sv[z][h].on)
      <4>1. c.field = "on" /\ c.val = v.on
        BY <2>3, <3>1 DEF SetState
      <4>2. n2[s][ch].on = v.on /\ n2[s][ch].addr = n[s][ch].addr
        BY <2>1, <2>3, <4>1, Zenon DEF Does, c
      <4>3. SetAddr(s, ch, v.addr) # c
        BY <3>1 DEF SetState, SetAddr
      <4> QED BY <1>0, <1>2, <4>2, <4>3, Zenon DEF Due
    <3>2. CASE c = SetAddr(z, h, sv[z][h].addr) /\ SetState(z, h, sv[z][h].on) \in Range(u)
      <4>1. c.field = "addr" /\ c.val = v.addr
        BY <2>3, <3>2 DEF SetAddr
      <4>2. n2[s][ch].addr = v.addr
        BY <2>1, <2>3, <4>1, Zenon DEF Does, c
      <4> QED BY <2>3, <3>2, <4>2, Zenon DEF Due
    <3> QED BY <1>1, <3>1, <3>2, Zenon
  <2> QED BY <2>2, <2>3, Zenon
<1> QED BY <1>2, Zenon DEF Back, u

(* The commands of the next service are its own; those before it are done. *)
LEMMA BackService ==
    ASSUME NEW n, NEW sv, IsSaved(sv), NEW rest \in Seq(Services), rest # <<>>, Range(rest) \subseteq DOMAIN sv,
           Back(n, sv, rest, <<>>)
    PROVE  LET t == RestoreCommands(Head(rest), sv[Head(rest)])
           IN  /\ t \in Seq(Command) /\ Orderly(sv, t) /\ Back(n, sv, Tail(rest), t)
               /\ Tail(rest) \in Seq(Services) /\ Range(Tail(rest)) \subseteq DOMAIN sv
<1> DEFINE z == Head(rest)
           t == RestoreCommands(z, sv[z])
<1>1. Range(rest) = {z} \cup Range(Tail(rest)) /\ Tail(rest) \in Seq(Services)
  BY HeadTail, Zenon
<1> HIDE DEF z
<1>2. z \in DOMAIN sv /\ Range(Tail(rest)) \subseteq DOMAIN sv
  BY <1>1, Zenon
<1>3. t \in Seq(Command) /\ Orderly(sv, t) /\ \A ch \in Channel : Brings(t, z, ch, sv[z][ch])
  BY <1>2, ServiceCommands, Zenon
<1> HIDE DEF t
<1>4. ASSUME NEW s \in DOMAIN sv, s \notin Range(Tail(rest)), NEW ch \in Channel
      PROVE  Due(n[s][ch], sv[s][ch], s, ch, t)
  <2>1. CASE s = z
    BY <1>3, <2>1, Zenon DEF Due, Brings
  <2>2. CASE s # z
    <3>1. Due(n[s][ch], sv[s][ch], s, ch, <<>>)
      BY <1>1, <1>4, <2>2, Zenon DEF Back
    <3> QED BY <3>1, RangeEmpty, Zenon DEF Due
  <2> QED BY <2>1, <2>2, Zenon
<1>5. Back(n, sv, Tail(rest), t)
  BY <1>4, Zenon DEF Back
<1> QED BY <1>1, <1>2, <1>3, <1>5, Zenon DEF t, z

(* Where the record was of what the user had, that is back in the end. *)
LEMMA BackSame ==
    ASSUME NEW n \in Nets, NEW own \in UserNets, NEW sv, IsSaved(sv), Back(n, sv, <<>>, <<>>),
           NEW s \in DOMAIN sv, Same(sv[s], own[s])
    PROVE  Same(n[s], own[s])
<1> SUFFICES ASSUME NEW ch \in Channel PROVE Kept(n[s][ch], own[s][ch])
  BY Zenon DEF Same
<1> DEFINE c == n[s][ch]
           v == sv[s][ch]
           o == own[s][ch]
<1>1. /\ c.on = v.on
      /\ v.addr = "" \/ c.addr = v.addr
  BY RangeEmpty, Zenon DEF Back, Due
<1>2. v.on = o.on /\ (v.addr = o.addr \/ (o.addr = "" /\ ~o.on))
  BY Zenon DEF Same, Kept
<1>3. s \in Services
  BY Zenon DEF IsSaved
<1>4. o.on => o.addr # ""
  BY <1>3, MacAssumption, Zenon
<1> HIDE DEF c, v, o
<1>5. c.on = o.on /\ (c.addr = o.addr \/ (o.addr = "" /\ ~o.on))
  BY <1>1, <1>2, <1>4, Zenon
<1> QED BY <1>5, Zenon DEF Kept, c, o

-----------------------------------------------------------------------------
(* MacProxy: the invariant *)

IsJob(j) ==
    /\ DOMAIN j = {"pc", "mode", "conf", "order", "saved", "rest", "todo"}
    /\ j.conf \in Seq(Services) /\ j.order \in Seq(Services)
    /\ j.rest \in Seq(Services) /\ j.todo \in Seq(Command)

\* What a call that runs may rely on.
JobPhase(j) ==
    /\ j.pc # "run" => j.rest = <<>> /\ j.todo = <<>>
    /\ j.pc \in {"snapshot", "truncate", "save", "list"} => j.mode \in {"pac", "system"}
    /\ j.pc \in {"truncate", "save"} =>
          /\ IsSaved(j.saved) /\ Range(j.order) = DOMAIN j.saved
          /\ \A s \in DOMAIN j.saved : j.saved[s] = net[s]
    /\ j.pc = "save" => ~MacHolds
    /\ j.pc \in {"list", "run"} => MacHolds /\ j.saved = macFile.saved
    /\ j.pc = "read" => j.mode = "restore"
    /\ j.pc = "run" => \/ j.mode \in {"pac", "system"}
                       \/ /\ j.mode = "restore"
                          /\ Range(j.rest) \subseteq DOMAIN j.saved
                          /\ Orderly(j.saved, j.todo)
                          /\ Back(net, j.saved, j.rest, j.todo)
    /\ j.pc = "remove" => MacHolds /\ Back(net, macFile.saved, <<>>, <<>>)

\* What has been taken is on record, or lost; what is on record is what the
\* user had, but for what was taken already and the latecomers.
FilePhase ==
    /\ ~MacHolds => macFile.saved = <<>> /\ MacTaken \subseteq macLost
    /\ MacHolds => /\ IsSaved(macFile.saved)
                   /\ macFile.order \in Seq(Services) /\ Range(macFile.order) = DOMAIN macFile.saved
                   /\ DOMAIN macFile.saved \subseteq MacRecorded \cup macLost \cup late
                   /\ MacTaken \subseteq DOMAIN macFile.saved \cup macLost

MacIInv ==
    /\ net \in Nets /\ macOwn \in UserNets
    /\ IsJob(macJob) /\ JobPhase(macJob)
    /\ FilePhase

LEMMA NoJobFacts == IsJob(NoJob) /\ JobPhase(NoJob) /\ NoJob.pc = "idle"
<1>1. <<>> \in Seq(Services) /\ <<>> \in Seq(Command)
  OBVIOUS
<1>2. /\ NoJob.pc = "idle" /\ NoJob.rest = <<>> /\ NoJob.todo = <<>> /\ NoJob.conf = <<>> /\ NoJob.order = <<>>
      /\ NoJob.mode = "none" /\ NoJob.saved = <<>>
  BY DEF NoJob
<1>3. IsJob(NoJob)
  <2>1. DOMAIN NoJob = {"pc", "mode", "conf", "order", "saved", "rest", "todo"}
    BY ZenonT(30) DEF NoJob
  <2> QED BY <1>1, <1>2, <2>1, Zenon DEF IsJob
<1>4. JobPhase(NoJob)
  BY <1>2 DEF JobPhase
<1> QED BY <1>2, <1>3, <1>4, Zenon

(* Steps that move the call only. *)
LEMMA MacGoesOn ==
    ASSUME MacIInv, UNCHANGED <<net, macFile, macOwn, macLost, late>>, IsJob(macJob'), JobPhase(macJob')
    PROVE  MacIInv' /\ UNCHANGED MacGuard!guardVars
<1>1. net' = net /\ macFile' = macFile /\ macOwn' = macOwn /\ macLost' = macLost /\ late' = late
  BY Zenon
<1>2. MacTaken' = MacTaken /\ MacRecorded' = MacRecorded /\ (MacHolds' <=> MacHolds)
  BY <1>1, Zenon DEF MacTaken, MacRecorded, MacHolds
<1>3. FilePhase'
  BY <1>1, <1>2, Zenon DEF MacIInv, FilePhase
<1>4. JobPhase(macJob)'
  BY <1>1, <1>2, Zenon DEF JobPhase
<1>5. IsJob(macJob)'
  BY Zenon DEF IsJob
<1> QED BY <1>1, <1>2, <1>3, <1>4, <1>5, Zenon DEF MacIInv, MacGuard!guardVars

JobIs(x, p, m, c, o, sv, r, t) ==
    /\ DOMAIN x = {"pc", "mode", "conf", "order", "saved", "rest", "todo"}
    /\ x.pc = p /\ x.mode = m /\ x.conf = c /\ x.order = o /\ x.saved = sv /\ x.rest = r /\ x.todo = t

LEMMA JobFields ==
    ASSUME NEW j, IsJob(j), NEW p, NEW m, NEW c, NEW o, NEW sv, NEW r, NEW t
    PROVE  /\ JobIs([j EXCEPT !.pc = p], p, j.mode, j.conf, j.order, j.saved, j.rest, j.todo)
           /\ JobIs([j EXCEPT !.pc = p, !.order = o, !.saved = sv], p, j.mode, j.conf, o, sv, j.rest, j.todo)
           /\ JobIs([j EXCEPT !.pc = p, !.rest = r], p, j.mode, j.conf, j.order, j.saved, r, j.todo)
           /\ JobIs([j EXCEPT !.pc = p, !.saved = sv, !.rest = r], p, j.mode, j.conf, j.order, sv, r, j.todo)
           /\ JobIs([j EXCEPT !.pc = p, !.mode = m], p, m, j.conf, j.order, j.saved, j.rest, j.todo)
           /\ JobIs([j EXCEPT !.pc = p, !.mode = m, !.conf = c], p, m, c, j.order, j.saved, j.rest, j.todo)
           /\ JobIs([j EXCEPT !.todo = t, !.rest = Tail(@)], j.pc, j.mode, j.conf, j.order, j.saved, Tail(j.rest), t)
           /\ JobIs([j EXCEPT !.todo = Tail(@)], j.pc, j.mode, j.conf, j.order, j.saved, j.rest, Tail(j.todo))
<1>1. DOMAIN j = {"pc", "mode", "conf", "order", "saved", "rest", "todo"}
  BY Zenon DEF IsJob
<1>2. JobIs([j EXCEPT !.pc = p], p, j.mode, j.conf, j.order, j.saved, j.rest, j.todo)
  BY <1>1 DEF JobIs
<1>3. JobIs([j EXCEPT !.pc = p, !.order = o, !.saved = sv], p, j.mode, j.conf, o, sv, j.rest, j.todo)
  BY <1>1 DEF JobIs
<1>4. JobIs([j EXCEPT !.pc = p, !.rest = r], p, j.mode, j.conf, j.order, j.saved, r, j.todo)
  BY <1>1 DEF JobIs
<1>5. JobIs([j EXCEPT !.pc = p, !.saved = sv, !.rest = r], p, j.mode, j.conf, j.order, sv, r, j.todo)
  BY <1>1 DEF JobIs
<1>6. JobIs([j EXCEPT !.pc = p, !.mode = m], p, m, j.conf, j.order, j.saved, j.rest, j.todo)
  BY <1>1 DEF JobIs
<1>7. JobIs([j EXCEPT !.pc = p, !.mode = m, !.conf = c], p, m, c, j.order, j.saved, j.rest, j.todo)
  BY <1>1 DEF JobIs
<1>8. JobIs([j EXCEPT !.todo = t, !.rest = Tail(@)], j.pc, j.mode, j.conf, j.order, j.saved, Tail(j.rest), t)
  BY <1>1 DEF JobIs
<1>9. JobIs([j EXCEPT !.todo = Tail(@)], j.pc, j.mode, j.conf, j.order, j.saved, j.rest, Tail(j.todo))
  BY <1>1 DEF JobIs
<1> QED BY <1>2, <1>3, <1>4, <1>5, <1>6, <1>7, <1>8, <1>9, Zenon

LEMMA ListedServices ==
    ASSUME NEW names \in Seq(Services), NEW seen \in Listings(names)
    PROVE  seen \in Seq(Services) /\ Range(seen) \subseteq Services
<1>1. seen \in Seq(Services)
  BY MacAssumption, Zenon DEF Listings
<1> QED BY <1>1, RangeOfSeq, Zenon

LEMMA ApplyGoesOn ==
    ASSUME MacIInv, NEW mode \in {"pac", "system"}, NEW names \in Configured, MacApply(mode, names)
    PROVE  IsJob(macJob') /\ JobPhase(macJob')
<1> DEFINE j == macJob'
<1>1. j = [NoJob EXCEPT !.pc = "snapshot", !.mode = mode, !.conf = names]
  BY Zenon DEF MacApply
<1>2. JobIs(j, "snapshot", mode, names, NoJob.order, NoJob.saved, NoJob.rest, NoJob.todo)
  BY <1>1, NoJobFacts, JobFields, Zenon
<1> HIDE DEF j
<1>3. names \in Seq(Services) /\ NoJob.rest = <<>> /\ NoJob.todo = <<>>
  BY MacAssumption, Zenon DEF NoJob
<1>4. IsJob(j)
  BY <1>2, <1>3, NoJobFacts, Zenon DEF IsJob, JobIs
<1>5. JobPhase(j)
  BY <1>2, <1>3, Zenon DEF JobPhase, JobIs
<1> QED BY <1>4, <1>5, Zenon DEF j

LEMMA SnapshotGoesOn ==
    ASSUME MacIInv, MacSnapshot
    PROVE  IsJob(macJob') /\ JobPhase(macJob')
<1> DEFINE j == macJob'
<1>0. IsJob(macJob) /\ JobPhase(macJob) /\ macJob.conf \in Seq(Services) /\ macJob.pc = "snapshot"
  BY Zenon DEF MacIInv, IsJob, MacSnapshot
<1>1. PICK seen \in Listings(macJob.conf) :
         \/ j = NoJob
         \/ j = [macJob EXCEPT !.pc = "truncate", !.order = seen, !.saved = Restrict(net, Range(seen))]
  BY Zenon DEF MacSnapshot
<1> DEFINE sv == Restrict(net, Range(seen))
<1>2. seen \in Seq(Services) /\ Range(seen) \subseteq Services
  BY <1>0, ListedServices, Zenon
<1>3. DOMAIN sv = Range(seen) /\ \A s \in Range(seen) : sv[s] = net[s]
  BY Zenon DEF Restrict
<1>4. IsSaved(sv)
  <2>1. \A s \in Services : net[s] \in [Channel -> ChannelState]
    BY DEF MacIInv, Nets, ChannelState
  <2> HIDE DEF sv
  <2> QED BY <1>2, <1>3, <2>1, Zenon DEF IsSaved
<1>5. CASE j = NoJob
  BY <1>5, NoJobFacts, Zenon
<1>6. CASE j = [macJob EXCEPT !.pc = "truncate", !.order = seen, !.saved = sv]
  <2>1. JobIs(j, "truncate", macJob.mode, macJob.conf, seen, sv, macJob.rest, macJob.todo)
    BY <1>0, <1>6, JobFields, Zenon
  <2>2. macJob.rest = <<>> /\ macJob.todo = <<>> /\ macJob.mode \in {"pac", "system"}
    BY <1>0, Zenon DEF JobPhase
  <2> HIDE DEF j, sv
  <2>3. IsJob(j)
    BY <1>0, <1>2, <2>1, Zenon DEF IsJob, JobIs
  <2>4. JobPhase(j)
    BY <1>3, <1>4, <2>1, <2>2, Zenon DEF JobPhase, JobIs
  <2> QED BY <2>3, <2>4, Zenon DEF j
<1> QED BY <1>1, <1>5, <1>6, Zenon

LEMMA RelistGoesOn ==
    ASSUME MacIInv, MacRelist
    PROVE  IsJob(macJob') /\ JobPhase(macJob')
<1> DEFINE j == macJob'
<1>0. IsJob(macJob) /\ JobPhase(macJob) /\ macJob.conf \in Seq(Services) /\ macJob.pc = "list"
  BY Zenon DEF MacIInv, IsJob, MacRelist
<1>1. PICK seen \in Listings(macJob.conf) :
         j = NoJob \/ j = [macJob EXCEPT !.pc = "run", !.rest = seen]
  BY Zenon DEF MacRelist
<1>2. seen \in Seq(Services)
  BY <1>0, ListedServices, Zenon
<1>3. CASE j = NoJob
  BY <1>3, NoJobFacts, Zenon
<1>4. CASE j = [macJob EXCEPT !.pc = "run", !.rest = seen]
  <2>1. JobIs(j, "run", macJob.mode, macJob.conf, macJob.order, macJob.saved, seen, macJob.todo)
    BY <1>0, <1>4, JobFields, Zenon
  <2>2. macJob.mode \in {"pac", "system"} /\ MacHolds /\ macJob.saved = macFile.saved
    BY <1>0, Zenon DEF JobPhase
  <2> HIDE DEF j
  <2>3. IsJob(j)
    BY <1>0, <1>2, <2>1, Zenon DEF IsJob, JobIs
  <2>4. JobPhase(j)
    BY <2>1, <2>2, Zenon DEF JobPhase, JobIs
  <2> QED BY <2>3, <2>4, Zenon DEF j
<1> QED BY <1>1, <1>3, <1>4, Zenon

LEMMA FourOrFive ==
    ASSUME NEW B, NEW a \in B, NEW b \in B, NEW c \in B, NEW d \in B, NEW e \in B
    PROVE  <<a, b, c, d>> \in Seq(B) /\ <<a, b, c, d, e>> \in Seq(B)
  OBVIOUS

LEMMA ApplyTyped ==
    ASSUME NEW mode, NEW s \in Services
    PROVE  ApplyCommands(mode, s) \in Seq(Command)
<1>1. \A ch \in Channel, v \in Address : SetAddr(s, ch, v) \in Command
  BY ZenonT(30) DEF SetAddr, Command
<1>2. \A ch \in Channel, v \in BOOLEAN : SetState(s, ch, v) \in Command
  BY DEF SetState, Command
<1>3. "web" \in Channel /\ "secure" \in Channel /\ "auto" \in Channel /\ "ours" \in Address
  BY MacAssumption, Zenon DEF Channel
<1>4. /\ SetAddr(s, "auto", "ours") \in Command /\ SetState(s, "auto", TRUE) \in Command
      /\ SetState(s, "web", FALSE) \in Command /\ SetState(s, "secure", FALSE) \in Command
      /\ SetAddr(s, "web", "ours") \in Command /\ SetAddr(s, "secure", "ours") \in Command
      /\ SetState(s, "web", TRUE) \in Command /\ SetState(s, "secure", TRUE) \in Command
      /\ SetState(s, "auto", FALSE) \in Command
  BY <1>1, <1>2, <1>3, Zenon
<1> QED BY <1>4, FourOrFive, Zenon DEF ApplyCommands

LEMMA ServiceGoesOn ==
    ASSUME MacIInv, MacService
    PROVE  IsJob(macJob') /\ JobPhase(macJob')
<1> DEFINE j == macJob'
           z == Head(macJob.rest)
           t == Commands(macJob, z)
<1>0. /\ IsJob(macJob) /\ JobPhase(macJob) /\ macJob.pc = "run"
      /\ macJob.rest \in Seq(Services) /\ macJob.rest # <<>> /\ macJob.todo = <<>>
      /\ MacHolds /\ macJob.saved = macFile.saved /\ IsSaved(macFile.saved)
  BY Zenon DEF MacIInv, IsJob, MacService, JobPhase, FilePhase
<1>1. j = [macJob EXCEPT !.todo = t, !.rest = Tail(@)]
  BY Zenon DEF MacService
<1>2. JobIs(j, macJob.pc, macJob.mode, macJob.conf, macJob.order, macJob.saved, Tail(macJob.rest), t)
  <2> HIDE DEF j, t
  <2> QED BY <1>0, <1>1, JobFields, Zenon
<1>3. z \in Services /\ Tail(macJob.rest) \in Seq(Services)
  BY <1>0, HeadTail, Zenon
<1>4. CASE macJob.mode = "restore"
  <2>1. t = RestoreCommands(z, macJob.saved[z])
    BY <1>4, Zenon DEF Commands
  <2>2. Range(macJob.rest) \subseteq DOMAIN macJob.saved /\ Back(net, macJob.saved, macJob.rest, <<>>)
    BY <1>0, <1>4, Zenon DEF JobPhase
  <2>3. /\ t \in Seq(Command) /\ Orderly(macJob.saved, t) /\ Back(net, macJob.saved, Tail(macJob.rest), t)
        /\ Range(Tail(macJob.rest)) \subseteq DOMAIN macJob.saved
    BY <1>0, <2>1, <2>2, BackService, Zenon
  <2> HIDE DEF j, t
  <2>4. IsJob(j)
    BY <1>0, <1>2, <1>3, <2>3, Zenon DEF IsJob, JobIs
  <2>5. JobPhase(j)
    BY <1>0, <1>2, <1>4, <2>3, Zenon DEF JobPhase, JobIs
  <2> QED BY <2>4, <2>5, Zenon DEF j
<1>5. CASE macJob.mode # "restore"
  <2>1. t \in Seq(Command)
    BY <1>3, <1>5, ApplyTyped, Zenon DEF Commands
  <2>2. macJob.mode \in {"pac", "system"}
    BY <1>0, <1>5, Zenon DEF JobPhase
  <2> HIDE DEF j, t
  <2>3. IsJob(j)
    BY <1>0, <1>2, <1>3, <2>1, Zenon DEF IsJob, JobIs
  <2>4. JobPhase(j)
    BY <1>0, <1>2, <2>2, Zenon DEF JobPhase, JobIs
  <2> QED BY <2>3, <2>4, Zenon DEF j
<1> QED BY <1>4, <1>5, Zenon

LEMMA DoneGoesOn ==
    ASSUME MacIInv, MacDone
    PROVE  IsJob(macJob') /\ JobPhase(macJob')
<1> DEFINE j == macJob'
           p == IF macJob.mode = "restore" THEN "remove" ELSE "serving"
<1>0. /\ JobPhase(macJob) /\ macJob.pc = "run" /\ macJob.rest = <<>> /\ macJob.todo = <<>>
      /\ MacHolds /\ macJob.saved = macFile.saved
  BY Zenon DEF MacIInv, MacDone, JobPhase
<1>1. JobIs(j, p, NoJob.mode, NoJob.conf, NoJob.order, NoJob.saved, NoJob.rest, NoJob.todo)
  <2>1. j = [NoJob EXCEPT !.pc = p]
    BY Zenon DEF MacDone
  <2> HIDE DEF j, p
  <2> QED BY <2>1, NoJobFacts, JobFields, Zenon
<1>2. NoJob.rest = <<>> /\ NoJob.todo = <<>>
  BY DEF NoJob
<1>3. p \in {"remove", "serving"} /\ (p = "remove" => macJob.mode = "restore")
  BY Zenon
<1>4. macJob.mode = "restore" => Back(net, macFile.saved, <<>>, <<>>)
  BY <1>0, Zenon DEF JobPhase
<1> HIDE DEF j, p
<1>5. IsJob(j)
  BY <1>1, NoJobFacts, Zenon DEF IsJob, JobIs
<1>6. JobPhase(j)
  BY <1>0, <1>1, <1>2, <1>3, <1>4, Zenon DEF JobPhase, JobIs
<1> QED BY <1>5, <1>6, Zenon DEF j

LEMMA RestoreGoesOn ==
    ASSUME MacIInv, MacRestore
    PROVE  IsJob(macJob') /\ JobPhase(macJob')
<1> DEFINE j == macJob'
<1>1. JobIs(j, "read", "restore", NoJob.conf, NoJob.order, NoJob.saved, NoJob.rest, NoJob.todo)
  <2>1. j = [NoJob EXCEPT !.pc = "read", !.mode = "restore"]
    BY Zenon DEF MacRestore
  <2> HIDE DEF j
  <2> QED BY <2>1, NoJobFacts, JobFields, Zenon
<1>2. NoJob.rest = <<>> /\ NoJob.todo = <<>>
  BY DEF NoJob
<1> HIDE DEF j
<1>3. IsJob(j)
  BY <1>1, NoJobFacts, Zenon DEF IsJob, JobIs
<1>4. JobPhase(j)
  BY <1>1, <1>2, Zenon DEF JobPhase, JobIs
<1> QED BY <1>3, <1>4, Zenon DEF j

LEMMA ReadGoesOn ==
    ASSUME MacIInv, MacRead
    PROVE  IsJob(macJob') /\ JobPhase(macJob')
<1> DEFINE j == macJob'
           sv == macFile.saved
           order == macFile.order
<1>0. IsJob(macJob) /\ JobPhase(macJob) /\ macJob.pc = "read" /\ (MacHolds => IsSaved(sv) /\ order \in Seq(Services) /\ Range(order) = DOMAIN sv)
  BY Zenon DEF MacIInv, MacRead, FilePhase
<1>1. CASE ~MacHolds
  BY <1>1, NoJobFacts, Zenon DEF MacRead
<1>2. CASE MacHolds
  <2>1. JobIs(j, "run", macJob.mode, macJob.conf, macJob.order, sv, order, macJob.todo)
    <3>1. j = [macJob EXCEPT !.pc = "run", !.saved = sv, !.rest = order]
      BY <1>2, Zenon DEF MacRead
    <3> HIDE DEF j, sv, order
    <3> QED BY <1>0, <3>1, JobFields, Zenon
  <2>2. macJob.mode = "restore" /\ macJob.todo = <<>>
    BY <1>0, Zenon DEF JobPhase
  <2>3. order \in Seq(Services) /\ Range(order) = DOMAIN sv
    BY <1>0, <1>2, Zenon
  <2> HIDE DEF j, order
  <2>4. Back(net, sv, order, <<>>)
    BY <2>3, Zenon DEF Back
  <2>5. Orderly(sv, <<>>)
    BY DEF Orderly
  <2>6. IsJob(j)
    BY <1>0, <2>1, <2>3, Zenon DEF IsJob, JobIs
  <2>7. JobPhase(j)
    BY <1>2, <2>1, <2>2, <2>3, <2>4, <2>5, Zenon DEF JobPhase, JobIs
  <2> QED BY <2>6, <2>7, Zenon DEF j
<1> QED BY <1>1, <1>2, Zenon

-----------------------------------------------------------------------------
(* MacProxy: the steps that change something *)

LEMMA TruncateStep ==
    ASSUME MacIInv, MacTruncate
    PROVE  MacIInv' /\ (MacGuard!Drop \/ UNCHANGED MacGuard!guardVars)
<1> DEFINE j == macJob'
<1>0. /\ IsJob(macJob) /\ JobPhase(macJob) /\ macJob.pc = "truncate"
      /\ net' = net /\ macOwn' = macOwn /\ late' = late /\ macFile' = TornMacFile
      /\ macLost' = macLost \cup (IF MacHolds THEN MacTaken ELSE {})
  BY Zenon DEF MacIInv, MacTruncate
<1>1. JobIs(j, "save", macJob.mode, macJob.conf, macJob.order, macJob.saved, macJob.rest, macJob.todo)
  <2>1. j = [macJob EXCEPT !.pc = "save"]
    BY Zenon DEF MacTruncate
  <2> HIDE DEF j
  <2> QED BY <1>0, <2>1, JobFields, Zenon
<1>2. macFile'.kind = "torn" /\ macFile'.saved = <<>> /\ ~MacHolds'
  BY <1>0 DEF TornMacFile, MacHolds
<1>3. MacTaken' = MacTaken
  BY <1>0, Zenon DEF MacTaken
<1>4. MacRecorded' = {}
  <2>1. DOMAIN <<>> = {}
    OBVIOUS
  <2> QED BY <1>2, <2>1, Zenon DEF MacRecorded
<1>5. FilePhase'
  <2>1. MacTaken \subseteq macLost'
    BY <1>0, Zenon DEF MacIInv, FilePhase
  <2> QED BY <1>2, <1>3, <2>1, Zenon DEF FilePhase
<1>6. IsJob(macJob)'
  <2>1. IsJob(j)
    <3> HIDE DEF j
    <3> QED BY <1>0, <1>1, Zenon DEF IsJob, JobIs
  <2> QED BY <2>1, Zenon DEF IsJob
<1>7. JobPhase(macJob)'
  <2>1. /\ j.pc = "save" /\ j.mode \in {"pac", "system"} /\ j.rest = <<>> /\ j.todo = <<>>
        /\ IsSaved(j.saved) /\ Range(j.order) = DOMAIN j.saved /\ \A s \in DOMAIN j.saved : j.saved[s] = net'[s]
    <3>1. /\ macJob.mode \in {"pac", "system"} /\ macJob.rest = <<>> /\ macJob.todo = <<>>
          /\ IsSaved(macJob.saved) /\ Range(macJob.order) = DOMAIN macJob.saved
          /\ \A s \in DOMAIN macJob.saved : macJob.saved[s] = net[s]
      BY <1>0, Zenon DEF JobPhase
    <3> HIDE DEF j
    <3> QED BY <1>0, <1>1, <3>1, Zenon DEF JobIs
  <2> QED BY <1>2, <2>1, Zenon DEF JobPhase, IsSaved
<1>8. MacIInv'
  BY <1>0, <1>5, <1>6, <1>7, Zenon DEF MacIInv
<1>9. CASE MacHolds
  BY <1>0, <1>3, <1>4, <1>8, <1>9, Zenon DEF MacGuard!Drop
<1>10. CASE ~MacHolds
  <2>1. MacRecorded = {}
    <3>1. DOMAIN <<>> = {}
      OBVIOUS
    <3>2. macFile.saved = <<>>
      BY <1>10, Zenon DEF MacIInv, FilePhase
    <3> QED BY <3>1, <3>2, Zenon DEF MacRecorded
  <2>2. macLost' = macLost
    BY <1>0, <1>10, Zenon
  <2> QED BY <1>3, <1>4, <1>8, <2>1, <2>2, Zenon DEF MacGuard!guardVars
<1> QED BY <1>9, <1>10, Zenon

LEMMA NotHolding ==
    ASSUME MacIInv, ~MacHolds
    PROVE  MacRecorded = {} /\ MacTaken \subseteq macLost
<1>1. DOMAIN <<>> = {}
  OBVIOUS
<1>2. macFile.saved = <<>> /\ MacTaken \subseteq macLost
  BY Zenon DEF MacIInv, FilePhase
<1> QED BY <1>1, <1>2, Zenon DEF MacRecorded

LEMMA SaveStep ==
    ASSUME MacIInv, MacSave
    PROVE  MacIInv' /\ MacGuard!Record
<1> DEFINE j == macJob'
           sv == macJob.saved
<1>0. /\ IsJob(macJob) /\ JobPhase(macJob) /\ macJob.pc = "save"
      /\ net' = net /\ macOwn' = macOwn /\ late' = late /\ macLost' = macLost
      /\ macFile' = [kind |-> "state", order |-> macJob.order, saved |-> sv]
  BY Zenon DEF MacIInv, MacSave
<1>1. JobIs(j, "list", macJob.mode, macJob.conf, macJob.order, sv, macJob.rest, macJob.todo)
  <2>1. j = [macJob EXCEPT !.pc = "list"]
    BY Zenon DEF MacSave
  <2> HIDE DEF j
  <2> QED BY <1>0, <2>1, JobFields, Zenon
<1>2. macFile'.saved = sv /\ macFile'.order = macJob.order /\ MacHolds'
  BY <1>0 DEF MacHolds
<1>3. /\ macJob.mode \in {"pac", "system"} /\ macJob.rest = <<>> /\ macJob.todo = <<>>
      /\ IsSaved(sv) /\ macJob.order \in Seq(Services) /\ Range(macJob.order) = DOMAIN sv
      /\ (\A s \in DOMAIN sv : sv[s] = net[s]) /\ ~MacHolds
  BY <1>0, Zenon DEF IsJob, JobPhase
<1>4. MacTaken' = MacTaken /\ MacRecorded = {} /\ MacTaken \subseteq macLost
  <2>1. MacTaken' = MacTaken
    BY <1>0, Zenon DEF MacTaken
  <2> QED BY <1>3, <2>1, NotHolding, Zenon
<1>5. MacRecorded' = {s \in DOMAIN sv : Same(sv[s], macOwn[s])}
  BY <1>0, <1>2, Zenon DEF MacRecorded
<1> HIDE DEF sv
<1>6. DOMAIN sv \subseteq MacRecorded' \cup macLost' \cup late'
  <2>1. ASSUME NEW s \in DOMAIN sv PROVE s \in MacRecorded' \cup macLost' \cup late'
    <3>1. s \in Services /\ sv[s] = net[s]
      BY <1>3, Zenon DEF IsSaved
    <3>2. CASE Same(net[s], macOwn[s])
      BY <1>5, <3>1, <3>2, Zenon
    <3>3. CASE ~Same(net[s], macOwn[s])
      BY <1>0, <1>4, <3>1, <3>3, Zenon DEF MacTaken
    <3> QED BY <3>2, <3>3, Zenon
  <2> QED BY <2>1, Zenon
<1>7. FilePhase'
  <2>1. IsSaved(macFile.saved)'
    BY <1>2, <1>3, Zenon DEF IsSaved
  <2> QED BY <1>0, <1>2, <1>3, <1>4, <1>6, <2>1, Zenon DEF FilePhase
<1>8. IsJob(macJob)'
  <2>1. IsJob(j)
    <3> HIDE DEF j
    <3> QED BY <1>0, <1>1, Zenon DEF IsJob, JobIs
  <2> QED BY <2>1, Zenon DEF IsJob
<1>9. JobPhase(macJob)'
  <2>1. j.pc = "list" /\ j.mode \in {"pac", "system"} /\ j.rest = <<>> /\ j.todo = <<>> /\ j.saved = macFile'.saved
    <3> HIDE DEF j
    <3> QED BY <1>1, <1>2, <1>3, Zenon DEF JobIs
  <2> QED BY <1>2, <2>1, Zenon DEF JobPhase
<1>10. MacIInv'
  BY <1>0, <1>7, <1>8, <1>9, Zenon DEF MacIInv
<1>11. MacRecorded' \in SUBSET Services
  BY <1>3, <1>5, Zenon DEF IsSaved
<1> QED BY <1>0, <1>4, <1>10, <1>11, Zenon DEF MacGuard!Record

LEMMA CommandStep ==
    ASSUME MacIInv, MacCommand
    PROVE  MacIInv' /\ \E s \in Services : MacGuard!Take(s) \/ MacGuard!Release(s)
<1> DEFINE j == macJob'
           sv == macJob.saved
           c == Head(macJob.todo)
           z == c.svc
<1>0. /\ IsJob(macJob) /\ JobPhase(macJob) /\ macJob.pc = "run" /\ macJob.todo # <<>>
      /\ macJob.todo \in Seq(Command) /\ net \in Nets
      /\ macFile' = macFile /\ macOwn' = macOwn /\ macLost' = macLost /\ late' = late \cup ({z} \ DOMAIN sv)
  BY Zenon DEF MacIInv, MacCommand, IsJob
<1>1. /\ MacHolds /\ sv = macFile.saved /\ IsSaved(sv)
      /\ DOMAIN sv \subseteq MacRecorded \cup macLost \cup late /\ MacTaken \subseteq DOMAIN sv \cup macLost
  BY <1>0, Zenon DEF JobPhase, MacIInv, FilePhase
<1>2. c \in Command /\ Tail(macJob.todo) \in Seq(Command)
  BY <1>0, HeadTail, Zenon
<1>3. Does(net, c, net')
  <2>1. net' = [net EXCEPT ![c.svc][c.ch] = IF c.field = "addr" THEN [on |-> TRUE, addr |-> c.val]
                                            ELSE [@ EXCEPT !.on = c.val]]
    BY Zenon DEF MacCommand
  <2> HIDE DEF c
  <2> QED BY <1>0, <1>2, <2>1, CommandDoes, Zenon
<1>4. JobIs(j, "run", macJob.mode, macJob.conf, macJob.order, sv, macJob.rest, Tail(macJob.todo))
  <2>1. j = [macJob EXCEPT !.todo = Tail(@)]
    BY Zenon DEF MacCommand
  <2> HIDE DEF j
  <2> QED BY <1>0, <2>1, JobFields, Zenon
<1>5. macJob.mode \in {"pac", "system"} \/ (/\ macJob.mode = "restore"
                                            /\ Range(macJob.rest) \subseteq DOMAIN sv
                                            /\ Orderly(sv, Tail(macJob.todo))
                                            /\ Back(net', sv, macJob.rest, Tail(macJob.todo)))
  <2>1. CASE macJob.mode = "restore"
    <3>1. Range(macJob.rest) \subseteq DOMAIN sv /\ Orderly(sv, macJob.todo) /\ Back(net, sv, macJob.rest, macJob.todo)
      BY <1>0, <2>1, Zenon DEF JobPhase
    <3>2. Orderly(sv, Tail(macJob.todo))
      BY <1>0, <3>1, OrderlyTail, Zenon
    <3>3. Back(net', sv, macJob.rest, Tail(macJob.todo))
      <4> HIDE DEF sv
      <4> QED BY <1>0, <1>1, <1>3, <3>1, BackStep, Zenon DEF c
    <3> QED BY <2>1, <3>1, <3>2, <3>3, Zenon
  <2>2. CASE macJob.mode # "restore"
    BY <1>0, <2>2, Zenon DEF JobPhase
  <2> QED BY <2>1, <2>2, Zenon
<1>6. z \in Services /\ net' \in Nets /\ \A s \in Services : s # z => net'[s] = net[s]
  <2>1. z \in Services
    BY <1>2 DEF Command
  <2> QED BY <1>3, <2>1, Zenon DEF Does
<1>7. MacHolds' /\ MacRecorded' = MacRecorded
  BY <1>0, <1>1, Zenon DEF MacHolds, MacRecorded
<1>8. IsJob(macJob)'
  <2>1. IsJob(j)
    <3> HIDE DEF j
    <3> QED BY <1>0, <1>2, <1>4, Zenon DEF IsJob, JobIs
  <2> QED BY <2>1, Zenon DEF IsJob
<1>9. JobPhase(macJob)'
  <2>1. j.pc = "run" /\ j.mode = macJob.mode /\ j.rest = macJob.rest /\ j.todo = Tail(macJob.todo) /\ j.saved = sv
    <3> HIDE DEF j
    <3> QED BY <1>4, Zenon DEF JobIs
  <2>2. j.saved = macFile'.saved
    BY <1>0, <1>1, <2>1, Zenon
  <2> HIDE DEF sv
  <2> QED BY <1>5, <1>7, <2>1, <2>2, Zenon DEF JobPhase
<1> HIDE DEF c, z, sv, j
<1>10. \A s \in Services : s # z => (s \in MacTaken' <=> s \in MacTaken)
  BY <1>0, <1>6, Zenon DEF MacTaken
<1>11. MacTaken' \subseteq Services /\ MacTaken \subseteq Services
  BY Zenon DEF MacTaken
<1>12. z \in MacTaken' => z \in DOMAIN sv /\ z \in MacRecorded \cup macLost
  <2>1. z \in MacTaken' => z \notin late'
    BY Zenon DEF MacTaken
  <2> QED BY <1>0, <1>1, <2>1, Zenon
<1>13. MacTaken' \subseteq DOMAIN sv \cup macLost
  BY <1>1, <1>10, <1>11, <1>12, Zenon
<1>14. FilePhase'
  <2>1. IsSaved(macFile.saved)'
    BY <1>0, <1>1, Zenon DEF IsSaved
  <2>2. DOMAIN macFile'.saved \subseteq MacRecorded' \cup macLost' \cup late'
    BY <1>0, <1>1, <1>7, Zenon
  <2>3. MacTaken' \subseteq DOMAIN macFile'.saved \cup macLost'
    BY <1>0, <1>1, <1>13, Zenon
  <2>4. macFile'.order \in Seq(Services) /\ Range(macFile'.order) = DOMAIN macFile'.saved
    BY <1>0, <1>1, Zenon DEF MacIInv, FilePhase
  <2> QED BY <1>7, <2>1, <2>2, <2>3, <2>4, Zenon DEF FilePhase
<1>15. MacIInv'
  BY <1>0, <1>6, <1>8, <1>9, <1>14, Zenon DEF MacIInv
<1>16. CASE z \in MacTaken'
  <2>1. MacTaken' = MacTaken \cup {z}
    BY <1>10, <1>11, <1>16, Zenon
  <2>2. MacGuard!Take(z)
    BY <1>0, <1>7, <1>12, <1>16, <2>1, Zenon DEF MacGuard!Take
  <2> QED BY <1>6, <1>15, <2>2, Zenon
<1>17. CASE z \notin MacTaken'
  <2>1. MacTaken' = MacTaken \ {z}
    BY <1>10, <1>11, <1>17, Zenon
  <2>2. MacGuard!Release(z)
    BY <1>0, <1>7, <2>1, Zenon DEF MacGuard!Release
  <2> QED BY <1>6, <1>15, <2>2, Zenon
<1> QED BY <1>16, <1>17, Zenon

LEMMA RemoveStep ==
    ASSUME MacIInv, MacRemove
    PROVE  MacIInv' /\ MacGuard!Forget
<1>0. /\ macJob.pc = "remove" /\ JobPhase(macJob) /\ FilePhase
      /\ macFile' = NoMacFile /\ macJob' = NoJob
      /\ net' = net /\ macOwn' = macOwn /\ macLost' = macLost /\ late' = late
  BY Zenon DEF MacIInv, MacRemove
<1>1. MacHolds /\ Back(net, macFile.saved, <<>>, <<>>)
  BY <1>0, Zenon DEF JobPhase
<1>2. ~MacHolds' /\ macFile'.saved = <<>>
  BY <1>0 DEF MacHolds, NoMacFile
<1>3. MacTaken \subseteq macLost
  <2>1. ASSUME NEW s \in MacTaken, s \notin macLost PROVE FALSE
    <3>1. s \in Services /\ s \notin late /\ ~Same(net[s], macOwn[s])
      BY Zenon DEF MacTaken
    <3>2. s \in DOMAIN macFile.saved /\ s \in MacRecorded
      BY <1>0, <1>1, <2>1, <3>1, Zenon DEF FilePhase
    <3>3. Same(macFile.saved[s], macOwn[s])
      BY <3>2, Zenon DEF MacRecorded
    <3> QED BY <1>0, <1>1, <3>1, <3>2, <3>3, BackSame, Zenon DEF MacIInv, FilePhase
  <2> QED BY <2>1, Zenon
<1>4. MacTaken' = MacTaken
  BY <1>0, Zenon DEF MacTaken
<1>5. MacRecorded' = {}
  <2>1. DOMAIN <<>> = {}
    OBVIOUS
  <2> QED BY <1>2, <2>1, Zenon DEF MacRecorded
<1>6. FilePhase'
  BY <1>0, <1>2, <1>3, <1>4, Zenon DEF FilePhase
<1>7. JobPhase(macJob)'
  <2>1. macJob'.pc = "idle" /\ macJob'.rest = <<>> /\ macJob'.todo = <<>>
    BY <1>0 DEF NoJob
  <2> QED BY <2>1, ZenonT(30) DEF JobPhase
<1>8. IsJob(macJob)'
  <2>1. IsJob(macJob')
    BY <1>0, NoJobFacts, Zenon
  <2> QED BY <2>1, Zenon DEF IsJob
<1>9. MacIInv'
  BY <1>0, <1>6, <1>7, <1>8, Zenon DEF MacIInv
<1> QED BY <1>0, <1>3, <1>4, <1>5, <1>9, Zenon DEF MacGuard!Forget

LEMMA NothingTaken ==
    ASSUME net = macOwn
    PROVE  MacTaken = {}
<1>1. \A s \in Services : Same(net[s], macOwn[s])
  BY Zenon DEF Same, Kept
<1> QED BY <1>1, Zenon DEF MacTaken

LEMMA UserEditStep ==
    ASSUME MacIInv, MacUserEdit
    PROVE  MacIInv' /\ MacGuard!Settle
<1>0. /\ ~MacHolds /\ macJob = NoJob /\ net' \in UserNets /\ macOwn' = net'
      /\ macLost' = {} /\ late' = {} /\ macFile' = macFile /\ macJob' = macJob
  BY Zenon DEF MacUserEdit
<1>1. net' \in Nets
  BY <1>0, MacAssumption, Zenon
<1>2. MacTaken' = {}
  <2>1. \A s \in Services : Same(net[s], macOwn[s])'
    BY <1>0, Zenon DEF Same, Kept
  <2> QED BY <2>1, Zenon DEF MacTaken
<1>3. ~MacHolds' /\ macFile'.saved = <<>>
  BY <1>0, Zenon DEF MacHolds, MacIInv, FilePhase
<1>4. MacRecorded = {} /\ MacRecorded' = {}
  <2>1. DOMAIN <<>> = {}
    OBVIOUS
  <2> QED BY <1>0, <1>3, <2>1, NotHolding, Zenon DEF MacRecorded
<1>5. FilePhase'
  BY <1>2, <1>3, ZenonT(30) DEF FilePhase
<1>6. JobPhase(macJob)'
  <2>1. macJob'.pc = "idle" /\ macJob'.rest = <<>> /\ macJob'.todo = <<>>
    BY <1>0 DEF NoJob
  <2> QED BY <2>1 DEF JobPhase
<1>7. IsJob(macJob)'
  <2>1. IsJob(macJob')
    BY <1>0, NoJobFacts, Zenon
  <2> QED BY <2>1, Zenon DEF IsJob
<1>8. MacIInv'
  BY <1>0, <1>1, <1>5, <1>6, <1>7, Zenon DEF MacIInv
<1> QED BY <1>0, <1>2, <1>4, <1>8, Zenon DEF MacGuard!Settle

LEMMA StopGoesOn ==
    ASSUME MacIInv, MacStops
    PROVE  MacIInv' /\ UNCHANGED MacGuard!guardVars
<1>1. macJob' = NoJob /\ UNCHANGED <<net, macFile, macOwn, macLost, late>>
  BY Zenon DEF MacStops
<1>2. IsJob(macJob') /\ JobPhase(macJob')
  BY <1>1, NoJobFacts, Zenon
<1> QED BY <1>1, <1>2, MacGoesOn, Zenon

LEMMA MacStart ==
    ASSUME MacInit
    PROVE  MacIInv /\ MacGuard!GuardInit
<1>1. /\ net \in UserNets /\ macFile = NoMacFile /\ macJob = NoJob /\ macOwn = net
      /\ macLost = {} /\ late = {}
  BY Zenon DEF MacInit
<1>2. net \in Nets /\ MacTaken = {}
  BY <1>1, MacAssumption, NothingTaken, Zenon
<1>3. ~MacHolds /\ macFile.saved = <<>>
  BY <1>1 DEF MacHolds, NoMacFile
<1>4. MacRecorded = {}
  <2>1. DOMAIN <<>> = {}
    OBVIOUS
  <2> QED BY <1>3, <2>1, Zenon DEF MacRecorded
<1>5. FilePhase
  BY <1>2, <1>3, Zenon DEF FilePhase
<1>6. IsJob(macJob) /\ JobPhase(macJob)
  BY <1>1, NoJobFacts, Zenon
<1> QED BY <1>1, <1>2, <1>4, <1>5, <1>6, Zenon DEF MacIInv, MacGuard!GuardInit

LEMMA MacStep ==
    ASSUME MacIInv, [MacNext]_macVars
    PROVE  MacIInv' /\ [MacGuard!GuardNext]_MacGuard!guardVars
<1>1. CASE \E mode \in {"pac", "system"}, names \in Configured : MacApply(mode, names)
  <2>1. PICK mode \in {"pac", "system"}, names \in Configured : MacApply(mode, names)
    BY <1>1, Zenon
  <2>2. UNCHANGED <<net, macFile, macOwn, macLost, late>>
    BY <2>1, Zenon DEF MacApply
  <2> QED BY <2>1, <2>2, ApplyGoesOn, MacGoesOn, Zenon
<1>2. CASE MacSnapshot
  <2>1. UNCHANGED <<net, macFile, macOwn, macLost, late>>
    BY <1>2, Zenon DEF MacSnapshot
  <2> QED BY <1>2, <2>1, SnapshotGoesOn, MacGoesOn, Zenon
<1>3. CASE MacTruncate
  BY <1>3, TruncateStep, Zenon DEF MacGuard!GuardNext
<1>4. CASE MacSave
  BY <1>4, SaveStep, Zenon DEF MacGuard!GuardNext
<1>5. CASE MacRelist
  <2>1. UNCHANGED <<net, macFile, macOwn, macLost, late>>
    BY <1>5, Zenon DEF MacRelist
  <2> QED BY <1>5, <2>1, RelistGoesOn, MacGoesOn, Zenon
<1>6. CASE MacService
  <2>1. UNCHANGED <<net, macFile, macOwn, macLost, late>>
    BY <1>6, Zenon DEF MacService
  <2> QED BY <1>6, <2>1, ServiceGoesOn, MacGoesOn, Zenon
<1>7. CASE MacCommand
  BY <1>7, CommandStep, Zenon DEF MacGuard!GuardNext
<1>8. CASE MacDone
  <2>1. UNCHANGED <<net, macFile, macOwn, macLost, late>>
    BY <1>8, Zenon DEF MacDone
  <2> QED BY <1>8, <2>1, DoneGoesOn, MacGoesOn, Zenon
<1>9. CASE MacRestore
  <2>1. UNCHANGED <<net, macFile, macOwn, macLost, late>>
    BY <1>9, Zenon DEF MacRestore
  <2> QED BY <1>9, <2>1, RestoreGoesOn, MacGoesOn, Zenon
<1>10. CASE MacRead
  <2>1. UNCHANGED <<net, macFile, macOwn, macLost, late>>
    BY <1>10, Zenon DEF MacRead
  <2> QED BY <1>10, <2>1, ReadGoesOn, MacGoesOn, Zenon
<1>11. CASE MacRemove
  BY <1>11, RemoveStep, Zenon DEF MacGuard!GuardNext
<1>12. CASE MacStops
  BY <1>12, StopGoesOn, Zenon
<1>13. CASE MacUserEdit
  BY <1>13, UserEditStep, Zenon DEF MacGuard!GuardNext
<1>14. CASE UNCHANGED macVars
  <2>1. macJob' = macJob /\ UNCHANGED <<net, macFile, macOwn, macLost, late>>
    BY <1>14, Zenon DEF macVars
  <2>2. IsJob(macJob) /\ JobPhase(macJob)
    BY Zenon DEF MacIInv
  <2>3. IsJob(macJob')
    BY <2>1, <2>2, Zenon
  <2>4. JobPhase(macJob')
    BY <2>1, <2>2, Zenon
  <2> QED BY <2>1, <2>3, <2>4, MacGoesOn, Zenon
<1> QED BY <1>1, <1>2, <1>3, <1>4, <1>5, <1>6, <1>7, <1>8, <1>9, <1>10, <1>11, <1>12, <1>13, <1>14, ZenonT(30) DEF MacNext

(* The invariant of the calls on macOS: what ApplyPAC, ApplySystem and     *)
(* Restore have under way agrees with the state file, and the commands     *)
(* still to run bring every recorded service back.                         *)
THEOREM MacInvariant == MacSpec => []MacIInv
<1> QED BY MacStart, MacStep, PTL DEF MacSpec

(* On macOS, too, Apply and Restore implement the guarded change: for any  *)
(* services, any listing of them and any settings of the user, wherever a  *)
(* networksetup command fails or the process dies.                         *)
THEOREM MacImplementsGuard == MacSpec => MacGuarded
<1> QED BY MacInvariant, MacStart, MacStep, PTL DEF MacSpec, MacGuarded, MacGuard!GuardSpec
=============================================================================
