----------------------------- MODULE PageProofs -----------------------------
(***************************************************************************)
(* A connected page shows what its room holds, for any number of tabs,     *)
(* browsers, codes, sockets and picks, as long as no driver goes on that   *)
(* its page does not refer to (OneConnection).  The argument: folding the  *)
(* frames that are on their way to a page gives what the room holds now    *)
(* (Following), because each outcome of a handler brings whoever listens   *)
(* from the room before it to the room after it (Brings), and because a    *)
(* socket the room has not closed is the only one of its identity's        *)
(* current connection (Standing).                                          *)
(*                                                                         *)
(* And a room starts as the table its host was shown (StartsAsShown):      *)
(* nobody has heard of a version the room has not had (Dated, Knowing),    *)
(* each change is a new version (Adopts), and so a start that names the    *)
(* room's version was sent from a page that had folded all of it, or not   *)
(* yet all (Timed).                                                        *)
(***************************************************************************)
EXTENDS SessionProofs

-----------------------------------------------------------------------------
(* Folding.                                                                *)

\* What a page keeps.
View == [turn : Nat, queued : BOOLEAN]
Part == {"code", "self", "phase", "people", "look", "config", "turn", "queued", "deadline", "story", "view"}
IsPage(q) == DOMAIN q = Part /\ q.view \in View

\* What a frame may carry.
Fitting(f) == f.type # "close" => ("view" \in DOMAIN f.body => f.body.view \in View)

\* A page becomes another as it folds frames s, by way of f.
Folding(f, page, s) == f[0] = page /\ \A n \in 1 .. Len(s) : f[n] = Folded(f[n-1], s[n])
Becomes(page, s, q) == \E f : Folding(f, page, s) /\ q = f[Len(s)]

LEMMA BecomesItself == ASSUME NEW page PROVE Becomes(page, <<>>, page)
<1> DEFINE f == [n \in {0} |-> page]
<1>1. Len(<<>>) = 0 /\ f[0] = page
  BY ProperEmpty
<1> HIDE DEF f
<1>2. Folding(f, page, <<>>)
  BY <1>1 DEF Folding
<1> QED
  BY <1>1, <1>2 DEF Becomes

LEMMA BecomesOne == ASSUME NEW page, NEW a PROVE Becomes(page, <<a>>, Folded(page, a))
<1> DEFINE q == Folded(page, a)
           s == <<a>>
<1> HIDE DEF q
<1> DEFINE f == [n \in {0, 1} |-> IF n = 0 THEN page ELSE q]
<1>1. Len(s) = 1 /\ s[1] = a
  OBVIOUS
<1>2. f[0] = page /\ f[1] = q
  OBVIOUS
<1> HIDE DEF f, s
<1>3. ASSUME NEW n \in 1 .. 1 PROVE f[n] = Folded(f[n-1], s[n])
  <2>1. n = 1 /\ n - 1 = 0
    OBVIOUS
  <2> QED
    BY <1>1, <1>2, <2>1 DEF q
<1>4. Folding(f, page, s)
  BY <1>1, <1>2, <1>3 DEF Folding
<1>5. Becomes(page, s, q)
  BY <1>1, <1>2, <1>4 DEF Becomes
<1> QED
  BY <1>5 DEF s, q

\* One after the other.
LEMMA BecomesFurther ==
    ASSUME NEW s, NEW u, Proper(s), Proper(u), NEW page, NEW q, NEW w, Becomes(page, s, q), Becomes(q, u, w)
    PROVE  Becomes(page, s \o u, w)
<1> DEFINE t == s \o u
<1>1. PICK f : Folding(f, page, s) /\ q = f[Len(s)]
  BY DEF Becomes
<1>2. PICK g : Folding(g, q, u) /\ w = g[Len(u)]
  BY DEF Becomes
<1>3. /\ Len(s) \in Nat /\ Len(u) \in Nat /\ Len(t) = Len(s) + Len(u)
      /\ \A i \in 1 .. Len(s) : t[i] = s[i]
      /\ \A i \in 1 .. Len(u) : t[Len(s) + i] = u[i]
  <2>1. s \in Seq(Range(s) \cup Range(u)) /\ u \in Seq(Range(s) \cup Range(u))
    BY SeqMonotonic DEF Proper
  <2>2. /\ Len(t) = Len(s) + Len(u) /\ Len(s) \in Nat /\ Len(u) \in Nat
        /\ \A i \in 1 .. Len(s) + Len(u) : t[i] = IF i <= Len(s) THEN s[i] ELSE u[i - Len(s)]
    BY <2>1, ConcatProperties, LenProperties
  <2> HIDE DEF t
  <2>3. ASSUME NEW i \in 1 .. Len(u) PROVE t[Len(s) + i] = u[i]
    <3>1. Len(s) + i \in 1 .. Len(s) + Len(u) /\ ~(Len(s) + i <= Len(s)) /\ Len(s) + i - Len(s) = i
      BY <2>2
    <3> QED
      BY <2>2, <3>1
  <2> QED
    BY <2>2, <2>3
<1> HIDE DEF t
<1>4. PICK m \in Nat, n \in Nat : m = Len(s) /\ n = Len(u)
  BY <1>3
<1> DEFINE h == [i \in 0 .. m + n |-> IF i <= m THEN f[i] ELSE g[i - m]]
<1>5. /\ f[0] = page /\ q = f[m] /\ g[0] = q /\ w = g[n]
      /\ \A i \in 1 .. m : f[i] = Folded(f[i-1], s[i])
      /\ \A i \in 1 .. n : g[i] = Folded(g[i-1], u[i])
  BY <1>1, <1>2, <1>4 DEF Folding
<1>6. \A i \in 0 .. m : h[i] = f[i]
  OBVIOUS
<1>7. \A i \in 0 .. n : h[m + i] = g[i]
  <2> SUFFICES ASSUME NEW i \in 0 .. n PROVE h[m + i] = g[i]
    OBVIOUS
  <2>1. CASE i = 0
    BY <1>5, <2>1
  <2>2. CASE i # 0
    <3>1. m + i \in 0 .. m + n /\ ~(m + i <= m) /\ m + i - m = i
      BY <2>2
    <3> QED
      BY <3>1
  <2> QED
    BY <2>1, <2>2
<1> HIDE DEF h
<1>8. ASSUME NEW i \in 1 .. m + n PROVE h[i] = Folded(h[i-1], t[i])
  <2>1. CASE i <= m
    <3>1. i \in 1 .. m /\ i \in 0 .. m /\ i - 1 \in 0 .. m
      BY <2>1
    <3>2. h[i] = f[i] /\ h[i-1] = f[i-1] /\ t[i] = s[i]
      BY <1>3, <1>4, <1>6, <3>1
    <3> QED
      BY <1>5, <3>1, <3>2
  <2>2. CASE ~(i <= m)
    <3>1. PICK k \in 1 .. n : i = m + k
      <4>1. i - m \in 1 .. n /\ i = m + (i - m)
        BY <2>2
      <4> QED
        BY <4>1
    <3>2. k - 1 \in 0 .. n /\ i - 1 = m + (k - 1) /\ k \in 0 .. n
      BY <3>1
    <3>3. h[i] = g[k]
      BY <1>7, <3>1, <3>2
    <3>4. h[i-1] = g[k-1]
      BY <1>7, <3>2
    <3>5. t[i] = u[k]
      BY <1>3, <1>4, <3>1
    <3> QED
      BY <1>5, <3>1, <3>3, <3>4, <3>5
  <2> QED
    BY <2>1, <2>2
<1>9. h[0] = page /\ h[m + n] = w
  BY <1>5, <1>6, <1>7
<1>10. Folding(h, page, t) /\ w = h[Len(t)]
  BY <1>3, <1>4, <1>8, <1>9 DEF Folding
<1>11. Becomes(page, t, w)
  BY <1>10 DEF Becomes
<1> QED
  BY <1>11 DEF t

\* The first frame is folded before the others.
LEMMA BecomesFirst ==
    ASSUME NEW s, Proper(s), s # <<>>, NEW page, NEW q, Becomes(page, s, q)
    PROVE  Becomes(Folded(page, Head(s)), Tail(s), q)
<1> DEFINE t == Tail(s)
           first == Folded(page, Head(s))
<1>1. PICK f : Folding(f, page, s) /\ q = f[Len(s)]
  BY DEF Becomes
<1>2. PICK n \in Nat : /\ Len(s) = n + 1 /\ Len(t) = n /\ Head(s) = s[1]
                       /\ \A i \in 1 .. n : t[i] = s[i + 1]
  <2>1. /\ Len(s) \in Nat \ {0} /\ Head(s) = s[1] /\ Len(t) = Len(s) - 1
        /\ \A i \in 1 .. Len(t) : t[i] = s[i + 1]
    BY ProperTail
  <2> HIDE DEF t
  <2>2. PICK m \in Nat : m = Len(s) - 1
    BY <2>1
  <2> QED
    BY <2>1, <2>2
<1>3. f[0] = page /\ q = f[n + 1] /\ \A i \in 1 .. n + 1 : f[i] = Folded(f[i-1], s[i])
  BY <1>1, <1>2 DEF Folding
<1>4. f[1] = first
  <2>1. 1 \in 1 .. n + 1 /\ 1 - 1 = 0
    OBVIOUS
  <2>2. f[1] = Folded(f[1-1], s[1])
    BY <1>3, <2>1
  <2> QED
    BY <1>2, <1>3, <2>1, <2>2
<1> HIDE DEF t, first
<1> DEFINE g == [i \in 0 .. n |-> f[i + 1]]
<1>5. g[0] = first /\ g[n] = q
  BY <1>3, <1>4
<1>6. ASSUME NEW i \in 1 .. n PROVE g[i] = Folded(g[i-1], t[i])
  <2>1. g[i] = f[i + 1] /\ g[i-1] = f[i]
    OBVIOUS
  <2>2. PICK j \in 1 .. n + 1 : j = i + 1 /\ j - 1 = i
    OBVIOUS
  <2>3. f[j] = Folded(f[j-1], s[j])
    BY <1>3
  <2> QED
    BY <1>2, <2>1, <2>2, <2>3
<1> HIDE DEF g
<1>7. Folding(g, first, t) /\ q = g[Len(t)]
  BY <1>2, <1>5, <1>6 DEF Folding
<1>8. Becomes(first, t, q)
  BY <1>7 DEF Becomes
<1> QED
  BY <1>8 DEF t, first

\* Nothing to fold.
LEMMA BecomesNothing == ASSUME NEW page, NEW q, Becomes(page, <<>>, q) PROVE q = page
BY ProperEmpty DEF Becomes, Folding

-----------------------------------------------------------------------------
(* What each frame does to a page.                                         *)

\* w is q but for some of what it keeps.
Otherwise(q, w, S) == IsPage(w) /\ \A x \in Part \ S : w[x] = q[x]

\* A frame that carries what it changes.
LEMMA FrameReplaces ==
    ASSUME NEW q, IsPage(q), NEW f, Fitting(f),
           f.type \notin {"close", "hello_ack", "queue_status_changed", "feed_appended", "ack"}
    PROVE  LET w == Folded(q, f)
           IN  IsPage(w) /\ \A x \in Part : w[x] = IF x \in DOMAIN f.body THEN f.body[x] ELSE q[x]
<1> DEFINE w == Folded(q, f)
<1>1. w = Replaced(q, f.body)
  BY DEF Folded
<1>2. w = [x \in Part |-> IF x \in DOMAIN f.body THEN f.body[x] ELSE q[x]]
  BY <1>1 DEF Replaced, IsPage
<1> HIDE DEF w
<1>3. DOMAIN w = Part /\ \A x \in Part : w[x] = IF x \in DOMAIN f.body THEN f.body[x] ELSE q[x]
  BY <1>2
<1>4. "view" \in Part
  BY DEF Part
<1>5. w.view \in View
  BY <1>3, <1>4 DEF IsPage, Fitting
<1> QED
  BY <1>3, <1>5 DEF IsPage, w

LEMMA PeopleShown ==
    ASSUME NEW q, IsPage(q), NEW s, NEW f, f \in {PeopleChanged(s), Frame(s, "seat_layout_changed", Layout(s))}
    PROVE  LET w == Folded(q, f)
           IN  Otherwise(q, w, {"people", "look"}) /\ w.people = Layout(s).people /\ w.look = s.look
<1>1. /\ f.type \notin {"close", "hello_ack", "queue_status_changed", "feed_appended", "ack"}
      /\ f.body = Layout(s)
  BY DEF PeopleChanged, Frame
<1>2. DOMAIN Layout(s) = {"people", "look"} /\ Layout(s).look = s.look
  BY DEF Layout
<1>3. Fitting(f)
  BY <1>1, <1>2 DEF Fitting
<1> DEFINE w == Folded(q, f)
<1>4. IsPage(w) /\ \A x \in Part : w[x] = IF x \in DOMAIN f.body THEN f.body[x] ELSE q[x]
  BY <1>1, <1>3, FrameReplaces
<1> HIDE DEF w
<1> QED
  BY <1>1, <1>2, <1>4 DEF Otherwise, Part, w

LEMMA ConfigShown ==
    ASSUME NEW q, IsPage(q), NEW s
    PROVE  LET w == Folded(q, ConfigChanged(s)) IN Otherwise(q, w, {"config"}) /\ w.config = s.config
<1> DEFINE f == ConfigChanged(s)
           w == Folded(q, f)
<1>1. /\ f.type \notin {"close", "hello_ack", "queue_status_changed", "feed_appended", "ack"}
      /\ DOMAIN f.body = {"config"} /\ f.body.config = s.config
  BY DEF ConfigChanged, Frame
<1> HIDE DEF f
<1>2. Fitting(f)
  BY <1>1 DEF Fitting
<1>3. IsPage(w) /\ \A x \in Part : w[x] = IF x \in DOMAIN f.body THEN f.body[x] ELSE q[x]
  BY <1>1, <1>2, FrameReplaces
<1> HIDE DEF w
<1>4. Otherwise(q, w, {"config"}) /\ w.config = s.config
  BY <1>1, <1>3 DEF Otherwise, Part
<1> QED
  BY <1>4 DEF w, f

LEMMA StoryShown ==
    ASSUME NEW q, IsPage(q), NEW s
    PROVE  LET w == Folded(q, FeedAppended(s)) IN Otherwise(q, w, {"story"}) /\ w.story = q.story + 1
<1> DEFINE w == [q EXCEPT !.story = @ + 1]
<1>1. Folded(q, FeedAppended(s)) = w
  BY DEF Folded, FeedAppended, Frame
<1>2. DOMAIN w = Part /\ w.story = q.story + 1 /\ \A x \in Part \ {"story"} : w[x] = q[x]
  BY DEF IsPage, Part
<1>3. "view" \in Part \ {"story"}
  BY DEF Part
<1> HIDE DEF w
<1>4. w.view = q.view
  BY <1>2, <1>3
<1> QED
  BY <1>1, <1>2, <1>4 DEF Otherwise, IsPage

\* An acknowledgement of nothing in particular, or an error.
LEMMA NothingShown ==
    ASSUME NEW q, IsPage(q), NEW f, f.body = Nothing, f.type \in {"ack", "error"}
    PROVE  LET w == Folded(q, f) IN Otherwise(q, w, {})
<1>1. DOMAIN Nothing = {}
  BY DEF Nothing
<1>2. CASE f.type = "ack"
  BY <1>2 DEF Folded, Nothing, Otherwise
<1>3. CASE f.type = "error"
  <2>1. Fitting(f)
    BY <1>1, <1>3 DEF Fitting
  <2> DEFINE w == Folded(q, f)
  <2>2. IsPage(w) /\ \A x \in Part : w[x] = IF x \in DOMAIN f.body THEN f.body[x] ELSE q[x]
    BY <1>3, <2>1, FrameReplaces
  <2> HIDE DEF w
  <2> QED
    BY <1>1, <2>2 DEF Otherwise, w
<1> QED
  BY <1>2, <1>3

LEMMA SelfShown ==
    ASSUME NEW q, IsPage(q), NEW f, f.type = "hello_ack"
    PROVE  LET w == Folded(q, f) IN Otherwise(q, w, {"self"}) /\ w.self = f.body.self
<1> DEFINE w == [q EXCEPT !.self = f.body.self]
<1>1. Folded(q, f) = w
  BY DEF Folded
<1>2. DOMAIN w = Part /\ w.self = f.body.self /\ \A x \in Part \ {"self"} : w[x] = q[x]
  BY DEF IsPage, Part
<1>3. "view" \in Part \ {"self"}
  BY DEF Part
<1> HIDE DEF w
<1>4. w.view = q.view
  BY <1>2, <1>3
<1> QED
  BY <1>1, <1>2, <1>4 DEF Otherwise, IsPage

LEMMA QueuedShown ==
    ASSUME NEW q, IsPage(q), NEW f, f.type = "queue_status_changed"
    PROVE  LET w == Folded(q, f) IN Otherwise(q, w, {"queued"}) /\ w.queued = q.queued \cup {f.body.seat}
<1> DEFINE w == [q EXCEPT !.queued = @ \cup {f.body.seat}]
<1>1. Folded(q, f) = w
  BY DEF Folded
<1>2. DOMAIN w = Part /\ w.queued = q.queued \cup {f.body.seat} /\ \A x \in Part \ {"queued"} : w[x] = q[x]
  BY DEF IsPage, Part
<1>3. "view" \in Part \ {"queued"}
  BY DEF Part
<1> HIDE DEF w
<1>4. w.view = q.view
  BY <1>2, <1>3
<1> QED
  BY <1>1, <1>2, <1>4 DEF Otherwise, IsPage

\* The answer to a pick goes into the view there is.
LEMMA PickShown ==
    ASSUME NEW q, IsPage(q), NEW f, f.type = "ack", f.body = [queued |-> TRUE]
    PROVE  LET w == Folded(q, f)
           IN  /\ Otherwise(q, w, {"view"}) /\ w.view.turn = q.view.turn
               /\ w.view.queued = IF q.view.turn > 0 THEN TRUE ELSE q.view.queued
<1>1. f.body # <<>>
  <2>1. DOMAIN <<>> = {} /\ "queued" \in DOMAIN [queued |-> TRUE]
    OBVIOUS
  <2> QED
    BY <2>1
<1>2. CASE HasView(q)
  <2> DEFINE v == [q.view EXCEPT !.queued = TRUE]
             w == [q EXCEPT !.view = v]
  <2>1. Folded(q, f) = w
    BY <1>1, <1>2 DEF Folded
  <2>2. v \in View /\ v.turn = q.view.turn /\ v.queued = TRUE
    BY DEF IsPage, View
  <2> HIDE DEF v
  <2>3. DOMAIN w = Part /\ w.view = v /\ \A x \in Part \ {"view"} : w[x] = q[x]
    BY DEF IsPage, Part
  <2> HIDE DEF w
  <2>4. q.view.turn > 0
    BY <1>2 DEF HasView
  <2> QED
    BY <2>1, <2>2, <2>3, <2>4 DEF Otherwise, IsPage
<1>3. CASE ~HasView(q)
  <2>1. Folded(q, f) = q
    BY <1>3 DEF Folded
  <2> QED
    BY <1>3, <2>1 DEF Otherwise, HasView
<1> QED
  BY <1>2, <1>3

LEMMA PhaseShown ==
    ASSUME NEW q, IsPage(q), NEW s, NEW f, f = Frame(s, "phase_changed", Spread([phase |-> s.phase], PublicDraft(s)))
    PROVE  LET w == Folded(q, f)
           IN  /\ Otherwise(q, w, {"phase", "turn", "queued"})
               /\ w.phase = s.phase /\ w.turn = s.turn /\ w.queued = s.queued
<1> DEFINE body == Spread([phase |-> s.phase], PublicDraft(s))
           w == Folded(q, f)
<1>1. /\ DOMAIN body = {"phase", "turn", "queued"}
      /\ body.phase = s.phase /\ body.turn = s.turn /\ body.queued = s.queued
  BY DEF PublicDraft, Spread
<1>2. /\ f.type \notin {"close", "hello_ack", "queue_status_changed", "feed_appended", "ack"}
      /\ f.body = body
  BY DEF Frame
<1> HIDE DEF body
<1>3. Fitting(f)
  BY <1>1, <1>2 DEF Fitting
<1>4. IsPage(w) /\ \A x \in Part : w[x] = IF x \in DOMAIN f.body THEN f.body[x] ELSE q[x]
  BY <1>2, <1>3, FrameReplaces
<1> HIDE DEF w
<1>5. /\ Otherwise(q, w, {"phase", "turn", "queued"})
      /\ w.phase = s.phase /\ w.turn = s.turn /\ w.queued = s.queued
  BY <1>1, <1>2, <1>4 DEF Otherwise, Part
<1> QED
  BY <1>5 DEF w

LEMMA DeadlineShownOn ==
    ASSUME NEW q, IsPage(q), NEW s, NEW f, f = Frame(s, "deadline_changed", [deadline |-> s.deadline])
    PROVE  LET w == Folded(q, f) IN Otherwise(q, w, {"deadline"})
<1> DEFINE w == Folded(q, f)
<1>1. /\ f.type \notin {"close", "hello_ack", "queue_status_changed", "feed_appended", "ack"}
      /\ DOMAIN f.body = {"deadline"}
  BY DEF Frame
<1>2. Fitting(f)
  BY <1>1 DEF Fitting
<1>3. IsPage(w) /\ \A x \in Part : w[x] = IF x \in DOMAIN f.body THEN f.body[x] ELSE q[x]
  BY <1>1, <1>2, FrameReplaces
<1> HIDE DEF w
<1>4. Otherwise(q, w, {"deadline"})
  BY <1>1, <1>3 DEF Otherwise, Part
<1> QED
  BY <1>4 DEF w

LEMMA SnapshotShown ==
    ASSUME NEW q, IsPage(q), NEW s
    PROVE  LET w == Folded(q, Snapshot(s))
           IN  /\ Otherwise(q, w, {"people", "look", "phase", "config", "story", "turn", "queued", "deadline"})
               /\ w.people = Layout(s).people /\ w.look = s.look /\ w.phase = s.phase
               /\ w.config = s.config /\ w.story = s.story
               /\ s.phase # "lobby" => w.turn = s.turn /\ w.queued = s.queued
<1> DEFINE f == Snapshot(s)
           body == SnapshotPayload(s)
           w == Folded(q, f)
           lobby == Spread(Layout(s), [phase |-> s.phase, config |-> s.config, story |-> s.story])
           draft == Spread(PublicDraft(s), [deadline |-> s.deadline])
<1>1. /\ DOMAIN lobby = {"people", "look", "phase", "config", "story"}
      /\ lobby.people = Layout(s).people /\ lobby.look = s.look /\ lobby.phase = s.phase
      /\ lobby.config = s.config /\ lobby.story = s.story
  <2> DEFINE facts == [phase |-> s.phase, config |-> s.config, story |-> s.story]
  <2>1. /\ DOMAIN Layout(s) = {"people", "look"} /\ Layout(s).look = s.look
        /\ DOMAIN facts = {"phase", "config", "story"}
        /\ facts.phase = s.phase /\ facts.config = s.config /\ facts.story = s.story
    BY DEF Layout
  <2> HIDE DEF facts
  <2> QED
    BY <2>1 DEF Spread, facts
<1>2. /\ DOMAIN draft = {"turn", "queued", "deadline"} /\ draft.turn = s.turn /\ draft.queued = s.queued
  <2> DEFINE clock == [deadline |-> s.deadline]
  <2>1. /\ DOMAIN PublicDraft(s) = {"turn", "queued"} /\ PublicDraft(s).turn = s.turn
        /\ PublicDraft(s).queued = s.queued /\ DOMAIN clock = {"deadline"}
    BY DEF PublicDraft
  <2> HIDE DEF clock
  <2> QED
    BY <2>1 DEF Spread, clock
<1>3. body = IF s.phase = "lobby" THEN lobby ELSE Spread(lobby, draft)
  BY DEF SnapshotPayload
<1> HIDE DEF lobby, draft, body
<1>4. /\ {"people", "look", "phase", "config", "story"} \subseteq DOMAIN body
      /\ DOMAIN body \subseteq {"people", "look", "phase", "config", "story", "turn", "queued", "deadline"}
      /\ body.people = Layout(s).people /\ body.look = s.look /\ body.phase = s.phase
      /\ body.config = s.config /\ body.story = s.story
      /\ s.phase # "lobby" => /\ {"turn", "queued"} \subseteq DOMAIN body
                              /\ body.turn = s.turn /\ body.queued = s.queued
  <2>1. CASE s.phase = "lobby"
    <3>1. body = lobby
      BY <1>3, <2>1
    <3> QED
      BY <1>1, <2>1, <3>1
  <2>2. CASE s.phase # "lobby"
    <3> DEFINE both == Spread(lobby, draft)
    <3>1. /\ DOMAIN both = DOMAIN lobby \cup DOMAIN draft
          /\ \A x \in DOMAIN lobby : both[x] = lobby[x]
          /\ \A x \in DOMAIN draft \ DOMAIN lobby : both[x] = draft[x]
      BY DEF Spread
    <3>2. body = both
      BY <1>3, <2>2
    <3> HIDE DEF both
    <3>3. "turn" \in DOMAIN draft \ DOMAIN lobby /\ "queued" \in DOMAIN draft \ DOMAIN lobby
      BY <1>1, <1>2
    <3> QED
      BY <1>1, <1>2, <3>1, <3>2, <3>3
  <2> QED
    BY <2>1, <2>2
<1>5. /\ f.type \notin {"close", "hello_ack", "queue_status_changed", "feed_appended", "ack"}
      /\ f.body = body
  BY DEF Snapshot, Frame, body
<1> HIDE DEF f
<1>6. Fitting(f)
  <2>1. "view" \notin DOMAIN body
    BY <1>4
  <2> QED
    BY <1>5, <2>1 DEF Fitting
<1>7. IsPage(w) /\ \A x \in Part : w[x] = IF x \in DOMAIN f.body THEN f.body[x] ELSE q[x]
  BY <1>5, <1>6, FrameReplaces
<1> HIDE DEF w
<1>8. \A x \in DOMAIN body : x \in Part => w[x] = body[x]
  BY <1>5, <1>7
<1>9. \A x \in Part : x \notin DOMAIN body => w[x] = q[x]
  BY <1>5, <1>7
<1>10. \A x \in DOMAIN body : x \in Part
  BY <1>4 DEF Part
<1>11. Otherwise(q, w, {"people", "look", "phase", "config", "story", "turn", "queued", "deadline"})
  BY <1>4, <1>7, <1>9 DEF Otherwise
<1>12. \A x \in DOMAIN body : w[x] = body[x]
  BY <1>8, <1>10
<1>13. w.people = body.people /\ w.look = body.look /\ w.phase = body.phase /\ w.config = body.config /\ w.story = body.story
  BY <1>4, <1>12
<1>14. s.phase # "lobby" => w.turn = body.turn /\ w.queued = body.queued
  BY <1>4, <1>12
<1> QED
  BY <1>4, <1>11, <1>13, <1>14 DEF w, f

\* What a private view is.
LEMMA ViewFits ==
    ASSUME NEW s, IsRoom(s), NEW p
    PROVE  LET v == [turn |-> s.turn, queued |-> p \in s.queued]
           IN  v \in View /\ v.turn = s.turn /\ (v.queued <=> p \in s.queued)
<1> DEFINE v == [turn |-> s.turn, queued |-> p \in s.queued]
<1>1. s.turn \in Nat
  BY BoundsAssumption DEF IsRoom
<1>2. PICK queued \in BOOLEAN : queued = (p \in s.queued)
  <2>1. (p \in s.queued) = TRUE \/ (p \in s.queued) = FALSE
    OBVIOUS
  <2> QED
    BY <2>1
<1>3. v = [turn |-> s.turn, queued |-> queued]
  BY <1>2
<1>4. [turn |-> s.turn, queued |-> queued] \in View
  BY <1>1, <1>2 DEF View
<1>5. v \in View
  BY <1>3, <1>4
<1>6. v.turn = s.turn /\ (v.queued <=> p \in s.queued)
  BY <1>2, <1>3
<1> QED
  BY <1>5, <1>6

\* The private view, for whoever has one.
LEMMA ViewShown ==
    ASSUME NEW q, IsPage(q), NEW s, IsRoom(s), NEW p
    PROVE  \E w : /\ Becomes(q, PrivateView(s, p), w) /\ Otherwise(q, w, {"view"})
                  /\ p \in s.ring => w.view.turn = s.turn /\ (w.view.queued <=> p \in s.queued)
<1>1. CASE p \in s.ring
  <2> DEFINE v == [turn |-> s.turn, queued |-> p \in s.queued]
             f == Frame(s, "private_pack_pool", [view |-> v])
             w == Folded(q, f)
  <2>1. PrivateView(s, p) = <<f>>
    BY <1>1 DEF PrivateView
  <2>2. v \in View /\ v.turn = s.turn /\ (v.queued <=> p \in s.queued)
    BY ViewFits
  <2> HIDE DEF v
  <2>3. /\ f.type \notin {"close", "hello_ack", "queue_status_changed", "feed_appended", "ack"}
        /\ DOMAIN f.body = {"view"} /\ f.body.view = v
    BY DEF Frame
  <2> HIDE DEF f
  <2>4. Fitting(f)
    BY <2>2, <2>3 DEF Fitting
  <2>5. IsPage(w) /\ \A x \in Part : w[x] = IF x \in DOMAIN f.body THEN f.body[x] ELSE q[x]
    BY <2>3, <2>4, FrameReplaces
  <2>6. Becomes(q, <<f>>, w)
    BY BecomesOne
  <2> HIDE DEF w
  <2>7. Otherwise(q, w, {"view"}) /\ w.view = v
    BY <2>3, <2>5 DEF Otherwise, Part
  <2> QED
    BY <2>1, <2>2, <2>6, <2>7
<1>2. CASE p \notin s.ring
  <2>1. Becomes(q, PrivateView(s, p), q)
    BY <1>2, BecomesItself DEF PrivateView
  <2>2. Otherwise(q, q, {"view"})
    BY DEF Otherwise
  <2> QED
    BY <1>2, <2>1, <2>2
<1> QED
  BY <1>1, <1>2

-----------------------------------------------------------------------------
(* A page agrees with a room.                                              *)

\* For everybody.
Alike(page, r) ==
    /\ page.people = Layout(r).people /\ page.phase = r.phase /\ page.story = r.story
    /\ r.phase = "lobby" => page.look = r.look /\ page.config = r.config
    /\ r.phase # "lobby" => page.turn = r.turn /\ page.queued = r.queued

\* For identity p: an earlier connection of its own may have made its choice.
Viewed(page, r, p, gen) ==
    p \in r.ring =>
        /\ page.view.turn = r.turn
        /\ page.view.queued => p \in r.queued
        /\ p \in r.queued => page.view.queued \/ gen > 1

Agrees(page, r, p, gen) == IsPage(page) /\ page.self = p /\ Alike(page, r) /\ Viewed(page, r, p, gen)

\* What a socket of identity p hears of an outcome, besides the reply.
Said(o, p, mine) ==
    o.tell \o (IF mine THEN <<>> ELSE o.others)
           \o (IF o.views THEN PrivateView(o.room, p) ELSE <<>>)

\* The frames bring whoever agrees with room r to agree with room s.
Leads(r, s, frames, p, gen) ==
    \A page : Agrees(page, r, p, gen) => \E q : Becomes(page, frames, q) /\ Agrees(q, s, p, gen)

\* An outcome brings whoever listens from the room before to the room after.
Brings(r, o, p, gen, mine) ==
    \A page : Agrees(page, r, p, gen) =>
        \E q, w : /\ Becomes(page, IF mine THEN o.reply ELSE <<>>, q)
                  /\ Becomes(q, Said(o, p, mine), w) /\ Agrees(w, o.room, p, gen)

LEMMA SaidBecomes ==
    ASSUME NEW o, Proper(o.tell), Proper(o.others), o.views => IsRoom(o.room), NEW p, NEW mine,
           NEW q, NEW w, NEW x, NEW z,
           Becomes(q, o.tell, w), Becomes(w, IF mine THEN <<>> ELSE o.others, x),
           Becomes(x, IF o.views THEN PrivateView(o.room, p) ELSE <<>>, z)
    PROVE  Becomes(q, Said(o, p, mine), z)
<1> DEFINE a == o.tell
           b == IF mine THEN <<>> ELSE o.others
           c == IF o.views THEN PrivateView(o.room, p) ELSE <<>>
<1>1. Proper(a) /\ Proper(b)
  BY ProperEmpty
<1>2. Proper(c)
  BY ProperEmpty, ViewTold DEF Told
<1>3. Becomes(q, a, w) /\ Becomes(w, b, x) /\ Becomes(x, c, z)
  OBVIOUS
<1>4. Said(o, p, mine) = (a \o b) \o c
  BY DEF Said
<1> HIDE DEF a, b, c
<1>5. Proper(a \o b)
  BY <1>1, ProperConcat
<1>6. Becomes(q, a \o b, x)
  BY <1>1, <1>3, BecomesFurther
<1>7. Becomes(q, (a \o b) \o c, z)
  BY <1>2, <1>3, <1>5, <1>6, BecomesFurther
<1> QED
  BY <1>4, <1>7

\* What agrees still does when only what it does not depend on has changed.
LEMMA AgreesOn ==
    ASSUME NEW page, NEW q, NEW r, NEW p, NEW gen, Agrees(page, r, p, gen), Otherwise(page, q, {"deadline"})
    PROVE  Agrees(q, r, p, gen)
<1>1. /\ IsPage(q) /\ q.self = page.self /\ q.people = page.people /\ q.phase = page.phase
      /\ q.story = page.story /\ q.look = page.look /\ q.config = page.config
      /\ q.turn = page.turn /\ q.queued = page.queued /\ q.view = page.view
  BY DEF Otherwise, Part
<1> QED
  BY <1>1 DEF Agrees, Alike, Viewed

\* An acknowledgement or an error says nothing to the page.
IsReceipt(reply) == reply = <<>> \/ \E f : reply = <<f>> /\ f.body = Nothing /\ f.type \in {"ack", "error"}

LEMMA ReceiptFolded ==
    ASSUME NEW reply, IsReceipt(reply), NEW page, NEW r, NEW p, NEW gen, Agrees(page, r, p, gen), NEW mine
    PROVE  \E q : Becomes(page, IF mine THEN reply ELSE <<>>, q) /\ Agrees(q, r, p, gen)
<1>1. Becomes(page, <<>>, page)
  BY BecomesItself
<1>2. CASE mine /\ reply # <<>>
  <2>1. PICK f : reply = <<f>> /\ f.body = Nothing /\ f.type \in {"ack", "error"}
    BY <1>2 DEF IsReceipt
  <2>2. Otherwise(page, Folded(page, f), {})
    BY <2>1, NothingShown DEF Agrees
  <2>3. Otherwise(page, Folded(page, f), {"deadline"})
    BY <2>2 DEF Otherwise
  <2>4. Agrees(Folded(page, f), r, p, gen)
    BY <2>3, AgreesOn
  <2>5. Becomes(page, <<f>>, Folded(page, f))
    BY BecomesOne
  <2> QED
    BY <1>2, <2>1, <2>4, <2>5
<1>3. CASE ~(mine /\ reply # <<>>)
  BY <1>1, <1>3
<1> QED
  BY <1>2, <1>3

\* Everybody is told the same.
LEMMA ToldBrings ==
    ASSUME NEW r, NEW o, IsReceipt(o.reply), o.others = <<>>, o.views = FALSE, Proper(o.tell),
           NEW p, NEW gen, NEW mine, Leads(r, o.room, o.tell, p, gen)
    PROVE  Brings(r, o, p, gen, mine)
<1> SUFFICES ASSUME NEW page, Agrees(page, r, p, gen)
             PROVE  \E q, w : /\ Becomes(page, IF mine THEN o.reply ELSE <<>>, q)
                              /\ Becomes(q, Said(o, p, mine), w) /\ Agrees(w, o.room, p, gen)
  BY DEF Brings
<1>1. PICK q : Becomes(page, IF mine THEN o.reply ELSE <<>>, q) /\ Agrees(q, r, p, gen)
  BY ReceiptFolded
<1>2. PICK w : Becomes(q, o.tell, w) /\ Agrees(w, o.room, p, gen)
  BY <1>1 DEF Leads
<1>3. Becomes(w, <<>>, w)
  BY BecomesItself
<1>4. Becomes(w, IF mine THEN <<>> ELSE o.others, w) /\ Becomes(w, IF o.views THEN PrivateView(o.room, p) ELSE <<>>, w)
  BY <1>3
<1>5. Proper(o.others) /\ (o.views => IsRoom(o.room))
  BY ProperEmpty
<1>6. Becomes(q, Said(o, p, mine), w)
  BY <1>2, <1>4, <1>5, SaidBecomes
<1> QED
  BY <1>1, <1>2, <1>6

\* Everybody is told the same, and each their own view.
LEMMA ViewsBring ==
    ASSUME NEW r, NEW o, IsRoom(o.room), IsReceipt(o.reply), o.others = <<>>, o.views = TRUE, Proper(o.tell),
           NEW p, NEW gen, NEW mine,
           \A page : Agrees(page, r, p, gen) =>
               \E q : Becomes(page, o.tell, q) /\ IsPage(q) /\ q.self = p /\ Alike(q, o.room)
    PROVE  Brings(r, o, p, gen, mine)
<1> SUFFICES ASSUME NEW page, Agrees(page, r, p, gen)
             PROVE  \E q, w : /\ Becomes(page, IF mine THEN o.reply ELSE <<>>, q)
                              /\ Becomes(q, Said(o, p, mine), w) /\ Agrees(w, o.room, p, gen)
  BY DEF Brings
<1>1. PICK q : Becomes(page, IF mine THEN o.reply ELSE <<>>, q) /\ Agrees(q, r, p, gen)
  BY ReceiptFolded
<1>2. PICK x : Becomes(q, o.tell, x) /\ IsPage(x) /\ x.self = p /\ Alike(x, o.room)
  BY <1>1
<1>3. PICK w : /\ Becomes(x, PrivateView(o.room, p), w) /\ Otherwise(x, w, {"view"})
               /\ p \in o.room.ring => w.view.turn = o.room.turn /\ (w.view.queued <=> p \in o.room.queued)
  BY <1>2, ViewShown
<1>4. Becomes(x, <<>>, x)
  BY BecomesItself
<1>5. Becomes(x, IF mine THEN <<>> ELSE o.others, x) /\ Becomes(x, IF o.views THEN PrivateView(o.room, p) ELSE <<>>, w)
  BY <1>3, <1>4
<1>6. Proper(o.others)
  BY ProperEmpty
<1>7. Becomes(q, Said(o, p, mine), w)
  BY <1>2, <1>5, <1>6, SaidBecomes
<1>8. /\ IsPage(w) /\ w.self = x.self /\ w.people = x.people /\ w.phase = x.phase
      /\ w.story = x.story /\ w.look = x.look /\ w.config = x.config /\ w.turn = x.turn /\ w.queued = x.queued
  BY <1>3 DEF Otherwise, Part
<1>9. Alike(w, o.room)
  BY <1>2, <1>8 DEF Alike
<1>10. Viewed(w, o.room, p, gen)
  BY <1>3 DEF Viewed
<1>11. Agrees(w, o.room, p, gen)
  BY <1>2, <1>8, <1>9, <1>10 DEF Agrees
<1> QED
  BY <1>1, <1>7, <1>11

LEMMA BecomesTwo ==
    ASSUME NEW page, NEW a, NEW b, NEW q, q = Folded(page, a), NEW w, w = Folded(q, b)
    PROVE  Becomes(page, <<a, b>>, w)
<1> DEFINE s == <<a, b>>
           f == [n \in {0, 1, 2} |-> IF n = 0 THEN page ELSE IF n = 1 THEN q ELSE w]
<1>1. Len(s) = 2 /\ s[1] = a /\ s[2] = b
  OBVIOUS
<1>2. f[0] = page /\ f[1] = q /\ f[2] = w
  OBVIOUS
<1> HIDE DEF f, s
<1>3. ASSUME NEW n \in 1 .. 2 PROVE f[n] = Folded(f[n-1], s[n])
  <2>1. CASE n = 1
    <3>1. n - 1 = 0
      BY <2>1
    <3> QED
      BY <1>1, <1>2, <2>1, <3>1
  <2>2. CASE n = 2
    <3>1. n - 1 = 1
      BY <2>2
    <3> QED
      BY <1>1, <1>2, <2>2, <3>1
  <2> QED
    BY <2>1, <2>2
<1>4. Folding(f, page, s)
  BY <1>1, <1>2, <1>3 DEF Folding
<1>5. Becomes(page, s, w)
  BY <1>1, <1>2, <1>4 DEF Becomes
<1> QED
  BY <1>5 DEF s

LEMMA BecomesThree ==
    ASSUME NEW page, NEW a, NEW b, NEW c, NEW q, q = Folded(page, a), NEW w, w = Folded(q, b),
           NEW z, z = Folded(w, c)
    PROVE  Becomes(page, <<a, b, c>>, z)
<1> DEFINE s == <<a, b, c>>
           f == [n \in {0, 1, 2, 3} |-> IF n = 0 THEN page ELSE IF n = 1 THEN q ELSE IF n = 2 THEN w ELSE z]
<1>1. Len(s) = 3 /\ s[1] = a /\ s[2] = b /\ s[3] = c
  OBVIOUS
<1>2. f[0] = page /\ f[1] = q /\ f[2] = w /\ f[3] = z
  OBVIOUS
<1> HIDE DEF f, s
<1>3. ASSUME NEW n \in 1 .. 3 PROVE f[n] = Folded(f[n-1], s[n])
  <2>1. CASE n = 1
    <3>1. n - 1 = 0
      BY <2>1
    <3> QED
      BY <1>1, <1>2, <2>1, <3>1
  <2>2. CASE n = 2
    <3>1. n - 1 = 1
      BY <2>2
    <3> QED
      BY <1>1, <1>2, <2>2, <3>1
  <2>3. CASE n = 3
    <3>1. n - 1 = 2
      BY <2>3
    <3> QED
      BY <1>1, <1>2, <2>3, <3>1
  <2> QED
    BY <2>1, <2>2, <2>3
<1>4. Folding(f, page, s)
  BY <1>1, <1>2, <1>3 DEF Folding
<1>5. Becomes(page, s, z)
  BY <1>1, <1>2, <1>4 DEF Becomes
<1> QED
  BY <1>5 DEF s

-----------------------------------------------------------------------------
(* What the handlers' outcomes do.                                         *)

\* A room whose seats and options are in order; its people came by a hello.
IsTable(r) ==
    /\ r.config \in [bots : {r.config.bots}, shuffle : BOOLEAN]
    /\ r.phase = "lobby" => r.ring = {}
    /\ DOMAIN r.people # {} => r.version > 0

\* Every change is a new version; whoever is no longer there is dismissed, and
\* nobody's connection is another.
Stands(r, o) ==
    /\ IsTable(o.room)
    /\ o.room = r \/ o.room.version > r.version
    /\ \A q \in DOMAIN o.room.people : q \in DOMAIN r.people /\ o.room.people[q].gen = r.people[q].gen
    /\ \A q \in DOMAIN r.people \ DOMAIN o.room.people : o.dismissed = q /\ r.people[q].gen < o.below

\* Frames of a room.
Utters(s, frames) == \A f \in Range(frames) : Fitting(f) /\ (s # Deleted => f.version <= s.version)

Informs(r, o, c) ==
    \A p \in Nat \ {0}, gen \in Nat, mine \in BOOLEAN :
        (mine => p = c) /\ (p = c /\ ~mine => gen > 1) => Brings(r, o, p, gen, mine)

\* The outcome of what identity c says, or of what nobody says.
Faithful(r, o, c) ==
    /\ Utters(o.room, o.reply) /\ Utters(o.room, o.tell) /\ Utters(o.room, o.others)
    /\ o.room # Deleted => Stands(r, o) /\ Informs(r, o, c)

LEMMA UttersNothing == ASSUME NEW s PROVE Utters(s, <<>>)
BY ProperEmpty DEF Utters

\* A frame of a room.
Uttered(s, f) == Fitting(f) /\ (s # Deleted => f.version <= s.version)

LEMMA UttersFew ==
    ASSUME NEW s, NEW a, NEW b, NEW c, Uttered(s, a)
    PROVE  /\ Utters(s, <<a>>)
           /\ Uttered(s, b) => Utters(s, <<a, b>>)
           /\ Uttered(s, b) /\ Uttered(s, c) => Utters(s, <<a, b, c>>)
BY ProperFew DEF Utters, Uttered

LEMMA UttersConcat ==
    ASSUME NEW s, NEW t, NEW u, Proper(t), Proper(u), Utters(s, t), Utters(s, u)
    PROVE  Utters(s, t \o u)
BY ProperConcat DEF Utters

LEMMA RoomUtters ==
    ASSUME NEW s, IsRoom(s)
    PROVE  /\ Uttered(s, Ack(s)) /\ Uttered(s, Refusal(s)) /\ Uttered(s, PeopleChanged(s))
           /\ Uttered(s, ConfigChanged(s)) /\ Uttered(s, FeedAppended(s)) /\ Uttered(s, Snapshot(s))
           /\ Uttered(s, Frame(s, "seat_layout_changed", Layout(s)))
           /\ Uttered(s, Frame(s, "ack", [queued |-> TRUE]))
           /\ \A p : Uttered(s, Frame(s, "queue_status_changed", [seat |-> p]))
           /\ \A p, minted : Uttered(s, Frame(s, "hello_ack", [self |-> p, minted |-> minted]))
           /\ Utters(s, AnnouncePhase(s)) /\ \A p : Utters(s, PrivateView(s, p))
<1>1. s.version \in Int
  BY DEF IsRoom
<1>2. ASSUME NEW type, NEW body, "view" \notin DOMAIN body PROVE Uttered(s, Frame(s, type, body))
  BY <1>1, <1>2 DEF Uttered, Fitting, Frame
<1>3. "view" \notin DOMAIN Nothing
  BY DEF Nothing
<1>4. "view" \notin DOMAIN Layout(s)
  BY DEF Layout
<1>5. "view" \notin DOMAIN SnapshotPayload(s)
  BY DEF SnapshotPayload, Spread, Layout, PublicDraft
<1>6. Uttered(s, Ack(s)) /\ Uttered(s, Refusal(s)) /\ Uttered(s, FeedAppended(s))
  BY <1>2, <1>3 DEF Ack, Refusal, FeedAppended
<1>7. Uttered(s, PeopleChanged(s)) /\ Uttered(s, Frame(s, "seat_layout_changed", Layout(s)))
  BY <1>2, <1>4 DEF PeopleChanged
<1>8. Uttered(s, ConfigChanged(s))
  BY <1>2 DEF ConfigChanged
<1>9. Uttered(s, Snapshot(s))
  BY <1>2, <1>5 DEF Snapshot
<1>10. Uttered(s, Frame(s, "ack", [queued |-> TRUE]))
  BY <1>2
<1>11. \A p : Uttered(s, Frame(s, "queue_status_changed", [seat |-> p]))
  BY <1>2
<1>12. \A p, minted : Uttered(s, Frame(s, "hello_ack", [self |-> p, minted |-> minted]))
  BY <1>2
<1>13. Utters(s, AnnouncePhase(s))
  <2> DEFINE body == Spread([phase |-> s.phase], PublicDraft(s))
             late == [deadline |-> s.deadline]
  <2>1. "view" \notin DOMAIN body /\ "view" \notin DOMAIN late
    BY DEF Spread, PublicDraft
  <2>2. AnnouncePhase(s) = << Frame(s, "phase_changed", body), Frame(s, "deadline_changed", late) >>
    BY DEF AnnouncePhase
  <2> HIDE DEF body, late
  <2>3. Uttered(s, Frame(s, "phase_changed", body)) /\ Uttered(s, Frame(s, "deadline_changed", late))
    BY <1>2, <2>1
  <2> QED
    BY <2>2, <2>3, UttersFew
<1>14. ASSUME NEW p PROVE Utters(s, PrivateView(s, p))
  <2>1. CASE p \in s.ring
    <3> DEFINE v == [turn |-> s.turn, queued |-> p \in s.queued]
               f == Frame(s, "private_pack_pool", [view |-> v])
    <3>1. v \in View
      BY <2>1, ViewFits
    <3> HIDE DEF v
    <3>2. Uttered(s, f)
      BY <1>1, <3>1 DEF Uttered, Fitting, Frame
    <3> HIDE DEF f
    <3>3. Utters(s, <<f>>)
      BY <3>2, UttersFew
    <3> QED
      BY <2>1, <3>3 DEF PrivateView, f, v
  <2>2. CASE p \notin s.ring
    BY <2>2, UttersNothing DEF PrivateView
  <2> QED
    BY <2>1, <2>2
<1> QED
  BY <1>6, <1>7, <1>8, <1>9, <1>10, <1>11, <1>12, <1>13, <1>14


\* The next version of a room.
LEMMA Versioned ==
    ASSUME NEW r, IsRoom(r)
    PROVE  LET s == NewVersion(r)
           IN  /\ IsRoom(s) /\ s.version = r.version + 1
               /\ s.phase = r.phase /\ s.turn = r.turn /\ s.people = r.people /\ s.look = r.look
               /\ s.config = r.config /\ s.options = r.options /\ s.ring = r.ring /\ s.queued = r.queued
               /\ s.deadline = r.deadline /\ s.story = r.story
<1>1. IsRoom(NewVersion(r))
  BY NewVersionKept DEF Kept
<1> QED
  BY <1>1 DEF NewVersion, IsRoom

\* The next version of a room, with a line of its story.
LEMMA Storied ==
    ASSUME NEW r, IsRoom(r)
    PROVE  LET s == WithStory(r)
           IN  /\ IsRoom(s) /\ s.version = r.version + 1 /\ s.story = r.story + 1
               /\ s.phase = r.phase /\ s.turn = r.turn /\ s.people = r.people /\ s.look = r.look
               /\ s.config = r.config /\ s.options = r.options /\ s.ring = r.ring /\ s.queued = r.queued
               /\ s.deadline = r.deadline
<1> DEFINE w == NewVersion(r)
<1>1. IsRoom(WithStory(r))
  BY WithStoryKept DEF Kept
<1>2. /\ IsRoom(w) /\ w.version = r.version + 1
      /\ w.phase = r.phase /\ w.turn = r.turn /\ w.people = r.people /\ w.look = r.look
      /\ w.config = r.config /\ w.options = r.options /\ w.ring = r.ring /\ w.queued = r.queued
      /\ w.deadline = r.deadline /\ w.story = r.story
  BY Versioned
<1>3. WithStory(r) = [w EXCEPT !.story = @ + 1]
  BY DEF WithStory
<1> HIDE DEF w
<1> QED
  BY <1>1, <1>2, <1>3 DEF IsRoom

\* Who is there, with the connections they have.
SamePeople(r, s) ==
    /\ DOMAIN s.people = DOMAIN r.people
    /\ \A q \in DOMAIN r.people : s.people[q].gen = r.people[q].gen

LEMMA LayoutOf == ASSUME NEW r, NEW s, s.people = r.people PROVE Layout(s).people = Layout(r).people
BY DEF Layout

\* Nothing is announced.
LEMMA SilenceFaithful ==
    ASSUME NEW r, IsRoom(r), IsTable(r), NEW o, o.room = r, IsReceipt(o.reply), Utters(r, o.reply),
           o.tell = <<>>, o.others = <<>>, o.views = FALSE, NEW c
    PROVE  Faithful(r, o, c)
<1>1. Utters(o.room, o.reply) /\ Utters(o.room, o.tell) /\ Utters(o.room, o.others)
  BY UttersNothing
<1>2. Stands(r, o)
  BY DEF Stands
<1>3. ASSUME NEW p, NEW gen, NEW mine PROVE Brings(r, o, p, gen, mine)
  <2>1. Leads(r, r, <<>>, p, gen)
    BY BecomesItself DEF Leads
  <2>2. Leads(r, o.room, o.tell, p, gen)
    BY <2>1
  <2> QED
    BY <2>2, ToldBrings, ProperEmpty
<1> QED
  BY <1>1, <1>2, <1>3 DEF Faithful, Informs

\* Everybody is told the same of the same people.
LEMMA ToldFaithful ==
    ASSUME NEW r, IsRoom(r), NEW o, IsRoom(o.room), IsTable(o.room), o.room.version > r.version,
           SamePeople(r, o.room), IsReceipt(o.reply), Utters(o.room, o.reply),
           Proper(o.tell), Utters(o.room, o.tell), o.others = <<>>, o.views = FALSE,
           \A p \in Nat \ {0}, gen \in Nat : Leads(r, o.room, o.tell, p, gen),
           NEW c
    PROVE  Faithful(r, o, c)
<1>1. Utters(o.room, o.reply) /\ Utters(o.room, o.tell) /\ Utters(o.room, o.others)
  BY UttersNothing
<1>2. Stands(r, o)
  BY DEF Stands, SamePeople
<1>3. ASSUME NEW p \in Nat \ {0}, NEW gen \in Nat, NEW mine \in BOOLEAN PROVE Brings(r, o, p, gen, mine)
  BY ToldBrings
<1> QED
  BY <1>1, <1>2, <1>3 DEF Faithful, Informs

LEMMA ReceiptUttered ==
    ASSUME NEW s, IsRoom(s)
    PROVE  /\ IsReceipt(<<Ack(s)>>) /\ Utters(s, <<Ack(s)>>)
           /\ IsReceipt(<<Refusal(s)>>) /\ Utters(s, <<Refusal(s)>>)
<1>1. Ack(s).body = Nothing /\ Ack(s).type = "ack" /\ Refusal(s).body = Nothing /\ Refusal(s).type = "error"
  BY DEF Ack, Refusal, Frame
<1> QED
  BY <1>1, RoomUtters, UttersFew DEF IsReceipt

LEMMA RefusedFaithful == ASSUME NEW r, IsRoom(r), IsTable(r), NEW c PROVE Faithful(r, Refused(r), c)
<1> DEFINE o == Refused(r)
<1>1. o.room = r /\ o.reply = <<Refusal(r)>> /\ o.tell = <<>> /\ o.others = <<>> /\ o.views = FALSE
  BY DEF Refused, Outcome
<1> HIDE DEF o
<1>2. Faithful(r, o, c)
  BY <1>1, ReceiptUttered, SilenceFaithful
<1> QED
  BY <1>2 DEF o

LEMMA CommitFaithful ==
    ASSUME NEW r, IsRoom(r), NEW s, IsRoom(s), IsTable(s), s.version > r.version, SamePeople(r, s),
           NEW frames, Proper(frames), Utters(s, frames),
           \A p \in Nat \ {0}, gen \in Nat : Leads(r, s, frames, p, gen),
           NEW c
    PROVE  Faithful(r, Commit(s, frames), c)
<1> DEFINE o == Commit(s, frames)
<1>1. o.room = s /\ o.reply = <<Ack(s)>> /\ o.tell = frames /\ o.others = <<>> /\ o.views = FALSE
  BY DEF Commit, Outcome
<1> HIDE DEF o
<1>2. Faithful(r, o, c)
  BY <1>1, ReceiptUttered, ToldFaithful
<1> QED
  BY <1>2 DEF o

\* The host changes an option.
LEMMA UpdateConfigFaithful ==
    ASSUME NEW r, IsRoom(r), IsTable(r), NEW p, NEW bots, NEW c, r.phase = "lobby"
    PROVE  Faithful(r, UpdateConfig(r, p, bots), c)
<1> DEFINE w == NewVersion(r)
           s == [w EXCEPT !.config.bots = bots]
           frames == <<ConfigChanged(s)>>
<1>1. /\ IsRoom(w) /\ w.version = r.version + 1 /\ w.phase = r.phase /\ w.people = r.people /\ w.look = r.look
      /\ w.config = r.config /\ w.ring = r.ring /\ w.story = r.story
  BY Versioned
<1>2. UpdateConfig(r, p, bots) = IF r.people[p].host THEN Commit(s, frames) ELSE Refused(r)
  BY DEF UpdateConfig
<1> HIDE DEF w
<1>3. /\ IsRoom(s) /\ s.version = w.version /\ s.phase = w.phase /\ s.people = w.people /\ s.look = w.look
      /\ s.ring = w.ring /\ s.story = w.story /\ s.config = [w.config EXCEPT !.bots = bots]
  BY <1>1 DEF IsRoom
<1>4. s.config \in [bots : {s.config.bots}, shuffle : BOOLEAN]
  BY <1>1, <1>3 DEF IsTable
<1> HIDE DEF s
<1>5. s.version > r.version /\ r.version \in Nat
  BY <1>1, <1>3 DEF IsRoom
<1>6. IsTable(s) /\ SamePeople(r, s)
  BY <1>1, <1>3, <1>4, <1>5 DEF IsTable, SamePeople
<1>7. Proper(frames) /\ Utters(s, frames)
  BY <1>3, ProperFew, RoomUtters, UttersFew
<1>8. ASSUME NEW q \in Nat \ {0}, NEW gen \in Nat PROVE Leads(r, s, frames, q, gen)
  <2> SUFFICES ASSUME NEW page, Agrees(page, r, q, gen)
               PROVE  \E z : Becomes(page, frames, z) /\ Agrees(z, s, q, gen)
    BY DEF Leads
  <2> DEFINE z == Folded(page, ConfigChanged(s))
  <2>1. Becomes(page, frames, z)
    BY BecomesOne
  <2>2. Otherwise(page, z, {"config"}) /\ z.config = s.config
    BY ConfigShown DEF Agrees
  <2> HIDE DEF z
  <2>3. /\ IsPage(z) /\ z.self = page.self /\ z.people = page.people /\ z.phase = page.phase
        /\ z.story = page.story /\ z.look = page.look
    BY <2>2 DEF Otherwise, Part
  <2>4. Layout(s).people = Layout(r).people
    BY <1>1, <1>3, LayoutOf
  <2>5. Alike(z, s)
    BY <1>1, <1>3, <2>2, <2>3, <2>4 DEF Agrees, Alike
  <2>6. Viewed(z, s, q, gen)
    BY <1>1, <1>3 DEF Viewed, IsTable
  <2>7. Agrees(z, s, q, gen)
    BY <2>3, <2>5, <2>6 DEF Agrees
  <2> QED
    BY <2>1, <2>7
<1>9. Faithful(r, Commit(s, frames), c)
  BY <1>3, <1>5, <1>6, <1>7, <1>8, CommitFaithful
<1> QED
  BY <1>2, <1>9, RefusedFaithful

\* A lobby becomes another: its seats, its options if they changed, a story line.
LEMMA LobbyShown ==
    ASSUME NEW r, IsTable(r), r.phase = "lobby", NEW s, s.phase = "lobby", s.ring = r.ring, s.story = r.story + 1,
           NEW f, f = Frame(s, "seat_layout_changed", Layout(s)),
           NEW said, said = <<ConfigChanged(s)>> \/ (said = <<>> /\ s.config = r.config),
           NEW p, NEW gen
    PROVE  Leads(r, s, (<<f>> \o said) \o <<FeedAppended(s)>>, p, gen)
<1> DEFINE g == FeedAppended(s)
<1> SUFFICES ASSUME NEW page, Agrees(page, r, p, gen)
             PROVE  \E q : Becomes(page, (<<f>> \o said) \o <<g>>, q) /\ Agrees(q, s, p, gen)
  BY DEF Leads
<1>1. /\ IsPage(page) /\ page.self = p /\ page.phase = "lobby" /\ page.story = r.story
      /\ page.config = r.config
  BY DEF Agrees, Alike
<1>2. PICK x : /\ Becomes(page, <<f>>, x) /\ Otherwise(page, x, {"people", "look"})
               /\ x.people = Layout(s).people /\ x.look = s.look
  <2> DEFINE x == Folded(page, f)
  <2>1. Otherwise(page, x, {"people", "look"}) /\ x.people = Layout(s).people /\ x.look = s.look
    BY <1>1, PeopleShown
  <2>2. Becomes(page, <<f>>, x)
    BY BecomesOne
  <2> HIDE DEF x
  <2> QED
    BY <2>1, <2>2
<1>3. /\ IsPage(x) /\ x.self = p /\ x.phase = "lobby" /\ x.story = r.story /\ x.config = r.config
  BY <1>1, <1>2 DEF Otherwise, Part
<1>4. PICK y : Becomes(x, said, y) /\ Otherwise(x, y, {"config"}) /\ y.config = s.config
  <2>1. CASE said = <<ConfigChanged(s)>>
    BY <1>3, <2>1, ConfigShown, BecomesOne
  <2>2. CASE said = <<>> /\ s.config = r.config
    <3>1. Otherwise(x, x, {"config"})
      BY <1>3 DEF Otherwise
    <3> QED
      BY <1>3, <2>2, <3>1, BecomesItself
  <2> QED
    BY <2>1, <2>2
<1>5. /\ IsPage(y) /\ y.self = p /\ y.phase = "lobby" /\ y.story = r.story
      /\ y.people = Layout(s).people /\ y.look = s.look
  BY <1>2, <1>3, <1>4 DEF Otherwise, Part
<1>6. PICK z : Becomes(y, <<g>>, z) /\ Otherwise(y, z, {"story"}) /\ z.story = y.story + 1
  BY <1>5, StoryShown, BecomesOne
<1>7. /\ IsPage(z) /\ z.self = p /\ z.phase = "lobby" /\ z.people = Layout(s).people /\ z.look = s.look
      /\ z.config = s.config /\ z.story = s.story
  BY <1>4, <1>5, <1>6 DEF Otherwise, Part
<1>8. Agrees(z, s, p, gen)
  BY <1>7 DEF Agrees, Alike, Viewed, IsTable
<1>9. Proper(<<f>>) /\ Proper(said) /\ Proper(<<g>>)
  <2> DEFINE h == ConfigChanged(s)
  <2> HIDE DEF g, h
  <2>1. Proper(<<f>>) /\ Proper(<<g>>) /\ Proper(<<h>>)
    BY ProperFew
  <2>2. said = <<h>> \/ said = <<>>
    BY DEF h
  <2> QED
    BY <2>1, <2>2, ProperEmpty
<1> HIDE DEF g
<1>10. Proper(<<f>> \o said) /\ Becomes(page, <<f>> \o said, y)
  BY <1>2, <1>4, <1>9, ProperConcat, BecomesFurther
<1>11. Becomes(page, (<<f>> \o said) \o <<g>>, z)
  BY <1>6, <1>9, <1>10, BecomesFurther
<1> QED
  BY <1>8, <1>11

\* A frame and what follows it.
LEMMA ThreeSaid ==
    ASSUME NEW s, NEW a, Uttered(s, a), NEW said, Proper(said), Utters(s, said), NEW b, Uttered(s, b)
    PROVE  Proper((<<a>> \o said) \o <<b>>) /\ Utters(s, (<<a>> \o said) \o <<b>>)
<1>1. Proper(<<a>>) /\ Proper(<<b>>) /\ Utters(s, <<a>>) /\ Utters(s, <<b>>)
  BY ProperFew, UttersFew
<1>2. Proper(<<a>> \o said) /\ Utters(s, <<a>> \o said)
  BY <1>1, ProperConcat, UttersConcat
<1> QED
  BY <1>1, <1>2, ProperConcat, UttersConcat

LEMMA ThreeInOrder == ASSUME NEW a, NEW b, NEW c PROVE (<<a>> \o <<b>>) \o <<c>> = <<a, b, c>>
<1> DEFINE S == {a, b, c}
           s == <<a>> \o <<b>>
           t == s \o <<c>>
           u == <<a, b, c>>
<1>1. <<a>> \in Seq(S) /\ <<b>> \in Seq(S) /\ <<c>> \in Seq(S) /\ u \in Seq(S)
  OBVIOUS
<1>2. Len(<<a>>) = 1 /\ Len(<<b>>) = 1 /\ Len(<<c>>) = 1 /\ Len(u) = 3
  OBVIOUS
<1>3. s \in Seq(S) /\ Len(s) = 2 /\ s[1] = a /\ s[2] = b
  BY <1>1, <1>2, ConcatProperties
<1> HIDE DEF s
<1>4. t \in Seq(S) /\ Len(t) = 3 /\ t[1] = a /\ t[2] = b /\ t[3] = c
  <2> DEFINE v == <<c>>
  <2>1. v \in Seq(S) /\ Len(v) = 1 /\ v[1] = c
    BY <1>1
  <2>2. t = s \o v
    OBVIOUS
  <2> HIDE DEF v, t
  <2>3. /\ s \o v \in Seq(S) /\ Len(s \o v) = Len(s) + Len(v)
        /\ \A i \in 1 .. Len(s) + Len(v) : (s \o v)[i] = IF i <= Len(s) THEN s[i] ELSE v[i - Len(s)]
    <3>1. s \in Seq(S) /\ v \in Seq(S)
      BY <1>3, <2>1
    <3> HIDE DEF S
    <3> QED
      BY <3>1, ConcatProperties
  <2>4. \A i \in 1 .. 3 : t[i] = IF i <= 2 THEN s[i] ELSE v[i - 2]
    BY <1>3, <2>1, <2>2, <2>3
  <2>5. t[1] = s[1] /\ t[2] = s[2] /\ t[3] = v[1]
    BY <2>4
  <2> QED
    BY <1>3, <2>1, <2>2, <2>3, <2>5
<1> HIDE DEF t
<1>5. u[1] = a /\ u[2] = b /\ u[3] = c
  OBVIOUS
<1> HIDE DEF u
<1>6. \A i \in 1 .. 3 : t[i] = u[i]
  BY <1>4, <1>5
<1>7. t = u
  BY <1>1, <1>2, <1>4, <1>6, SeqEqual
<1> QED
  BY <1>7 DEF t, u, s

\* The seats of a lobby change, and the pending shuffle is called off.
Reseated(r, look) == [WithStory(r) EXCEPT !.look = look, !.config.shuffle = FALSE]

LEMMA ReseatedFacts ==
    ASSUME NEW r, IsRoom(r), IsTable(r), r.phase = "lobby", NEW look
    PROVE  LET s == Reseated(r, look)
           IN  /\ IsRoom(s) /\ IsTable(s) /\ s.version > r.version /\ SamePeople(r, s)
               /\ s.phase = "lobby" /\ s.ring = r.ring /\ s.story = r.story + 1
               /\ ~r.config.shuffle => s.config = r.config
<1> DEFINE w == WithStory(r)
           s == [w EXCEPT !.look = look, !.config.shuffle = FALSE]
<1>1. /\ IsRoom(w) /\ w.version = r.version + 1 /\ w.story = r.story + 1
      /\ w.phase = r.phase /\ w.people = r.people /\ w.config = r.config /\ w.ring = r.ring
  BY Storied
<1> HIDE DEF w
<1>2. /\ IsRoom(s) /\ s.version = w.version /\ s.phase = w.phase /\ s.people = w.people
      /\ s.ring = w.ring /\ s.story = w.story /\ s.config = [w.config EXCEPT !.shuffle = FALSE]
  BY <1>1 DEF IsRoom
<1> HIDE DEF s
<1>3. r.config \in [bots : {r.config.bots}, shuffle : BOOLEAN]
  BY DEF IsTable
<1>4. s.config \in [bots : {s.config.bots}, shuffle : BOOLEAN]
  BY <1>1, <1>2, <1>3
<1>5. ~r.config.shuffle => s.config = r.config
  <2> SUFFICES ASSUME ~r.config.shuffle PROVE [r.config EXCEPT !.shuffle = FALSE] = r.config
    BY <1>1, <1>2
  <2>1. r.config.shuffle = FALSE
    BY <1>3
  <2>2. PICK bots : r.config \in [bots : {bots}, shuffle : BOOLEAN]
    BY <1>3
  <2>3. r.config = [bots |-> bots, shuffle |-> FALSE]
    BY <2>1, <2>2
  <2> DEFINE k == [r.config EXCEPT !.shuffle = FALSE]
  <2>4. k \in [bots : {bots}, shuffle : {FALSE}]
    BY <2>2
  <2> HIDE DEF k
  <2>5. k = [bots |-> bots, shuffle |-> FALSE]
    BY <2>4
  <2> QED
    BY <2>3, <2>5 DEF k
<1>6. s.version > r.version /\ r.version \in Nat
  BY <1>1, <1>2 DEF IsRoom
<1>7. IsTable(s) /\ SamePeople(r, s)
  BY <1>1, <1>2, <1>4, <1>6 DEF IsTable, SamePeople
<1> QED
  BY <1>1, <1>2, <1>5, <1>6, <1>7 DEF s, w, Reseated

LEMMA ReseatedFaithful ==
    ASSUME NEW r, IsRoom(r), IsTable(r), r.phase = "lobby", NEW look, NEW said,
           LET s == Reseated(r, look)
           IN  said = <<ConfigChanged(s)>> \/ (said = <<>> /\ ~r.config.shuffle),
           NEW c
    PROVE  LET s == Reseated(r, look)
           IN  Faithful(r, Commit(s, (<< Frame(s, "seat_layout_changed", Layout(s)) >> \o said) \o <<FeedAppended(s)>>), c)
<1> DEFINE s == Reseated(r, look)
           f == Frame(s, "seat_layout_changed", Layout(s))
           frames == (<<f>> \o said) \o <<FeedAppended(s)>>
<1>1. /\ IsRoom(s) /\ IsTable(s) /\ s.version > r.version /\ SamePeople(r, s)
      /\ s.phase = "lobby" /\ s.ring = r.ring /\ s.story = r.story + 1
      /\ ~r.config.shuffle => s.config = r.config
  BY ReseatedFacts
<1>2. said = <<ConfigChanged(s)>> \/ (said = <<>> /\ s.config = r.config)
  BY <1>1
<1> HIDE DEF s
<1>3. Uttered(s, f) /\ Uttered(s, FeedAppended(s)) /\ Uttered(s, ConfigChanged(s))
  BY <1>1, RoomUtters
<1>4. Proper(said) /\ Utters(s, said)
  <2>1. Proper(<<ConfigChanged(s)>>) /\ Utters(s, <<ConfigChanged(s)>>)
    BY <1>3, ProperFew, UttersFew
  <2> QED
    BY <1>2, <2>1, ProperEmpty, UttersNothing
<1>5. Proper(frames) /\ Utters(s, frames)
  <2> HIDE DEF f
  <2> QED
    BY <1>3, <1>4, ThreeSaid
<1>6. ASSUME NEW p \in Nat \ {0}, NEW gen \in Nat PROVE Leads(r, s, frames, p, gen)
  BY <1>1, <1>2, LobbyShown
<1> HIDE DEF frames
<1>7. Faithful(r, Commit(s, frames), c)
  BY <1>1, <1>5, <1>6, CommitFaithful
<1> QED
  BY <1>7 DEF s, frames

LEMMA MoveParticipantFaithful ==
    ASSUME NEW r, IsRoom(r), IsTable(r), r.phase = "lobby", NEW p, NEW c
    PROVE  Faithful(r, MoveParticipant(r, p), c)
<1> DEFINE look == ~(r.look)
           s == Reseated(r, look)
           said == IF r.config.shuffle THEN <<ConfigChanged(s)>> ELSE <<>>
           frames == (<< Frame(s, "seat_layout_changed", Layout(s)) >> \o said) \o <<FeedAppended(s)>>
<1>1. WithStory(r).look = r.look
  BY Storied
<1>2. MoveParticipant(r, p) = IF r.people[p].host THEN Commit(s, frames) ELSE Refused(r)
  BY <1>1 DEF MoveParticipant, Reseated
<1>3. Faithful(r, Commit(s, frames), c)
  BY ReseatedFaithful
<1> HIDE DEF frames, s
<1> QED
  BY <1>2, <1>3, RefusedFaithful

LEMMA RandomizeNowFaithful ==
    ASSUME NEW r, IsRoom(r), IsTable(r), r.phase = "lobby", NEW p, NEW o \in RandomizeNow(r, p), NEW c
    PROVE  Faithful(r, o, c)
<1> DEFINE s(look) == Reseated(r, look)
           f(look) == Frame(s(look), "seat_layout_changed", Layout(s(look)))
           frames(look) == (<<f(look)>> \o <<ConfigChanged(s(look))>>) \o <<FeedAppended(s(look))>>
<1>1. PICK look \in BOOLEAN :
          o = IF r.people[p].host
              THEN Commit(s(look), <<f(look), ConfigChanged(s(look)), FeedAppended(s(look))>>)
              ELSE Refused(r)
  BY DEF RandomizeNow, Reseated
<1>2. frames(look) = <<f(look), ConfigChanged(s(look)), FeedAppended(s(look))>>
  BY ThreeInOrder
<1>3. Faithful(r, Commit(s(look), frames(look)), c)
  BY ReseatedFaithful
<1> HIDE DEF s, f
<1>4. CASE r.people[p].host
  BY <1>1, <1>2, <1>3, <1>4
<1>5. CASE ~r.people[p].host
  BY <1>1, <1>5, RefusedFaithful
<1> QED
  BY <1>4, <1>5

\* What is the same for everybody but who is there.
SameDraft(r, s) ==
    /\ s.phase = r.phase /\ s.config = r.config /\ s.look = r.look
    /\ s.turn = r.turn /\ s.queued = r.queued /\ s.ring = r.ring

\* Who is there is announced.
LEMMA PeopleLead ==
    ASSUME NEW r, NEW s, SameDraft(r, s), s.story = r.story, NEW p, NEW gen
    PROVE  Leads(r, s, <<PeopleChanged(s)>>, p, gen)
<1> SUFFICES ASSUME NEW page, Agrees(page, r, p, gen)
             PROVE  \E q : Becomes(page, <<PeopleChanged(s)>>, q) /\ Agrees(q, s, p, gen)
  BY DEF Leads
<1> DEFINE x == Folded(page, PeopleChanged(s))
<1>1. Becomes(page, <<PeopleChanged(s)>>, x)
  BY BecomesOne
<1>2. Otherwise(page, x, {"people", "look"}) /\ x.people = Layout(s).people /\ x.look = s.look
  BY PeopleShown DEF Agrees
<1> HIDE DEF x
<1>3. /\ IsPage(x) /\ x.self = page.self /\ x.phase = page.phase /\ x.story = page.story
      /\ x.config = page.config /\ x.turn = page.turn /\ x.queued = page.queued /\ x.view = page.view
  BY <1>2 DEF Otherwise, Part
<1>4. Agrees(x, s, p, gen)
  BY <1>2, <1>3 DEF Agrees, Alike, Viewed, SameDraft
<1> QED
  BY <1>1, <1>4

\* And the story goes on.
LEMMA PeopleAndStoryLead ==
    ASSUME NEW r, NEW s, SameDraft(r, s), s.story = r.story + 1, NEW p, NEW gen
    PROVE  Leads(r, s, <<PeopleChanged(s), FeedAppended(s)>>, p, gen)
<1> SUFFICES ASSUME NEW page, Agrees(page, r, p, gen)
             PROVE  \E q : Becomes(page, <<PeopleChanged(s), FeedAppended(s)>>, q) /\ Agrees(q, s, p, gen)
  BY DEF Leads
<1> DEFINE x == Folded(page, PeopleChanged(s))
           y == Folded(x, FeedAppended(s))
<1>1. Becomes(page, <<PeopleChanged(s), FeedAppended(s)>>, y)
  BY BecomesTwo
<1>2. Otherwise(page, x, {"people", "look"}) /\ x.people = Layout(s).people /\ x.look = s.look
  BY PeopleShown DEF Agrees
<1> HIDE DEF x
<1>3. /\ IsPage(x) /\ x.self = page.self /\ x.phase = page.phase /\ x.story = page.story
      /\ x.config = page.config /\ x.turn = page.turn /\ x.queued = page.queued /\ x.view = page.view
  BY <1>2 DEF Otherwise, Part
<1>4. Otherwise(x, y, {"story"}) /\ y.story = x.story + 1
  BY <1>3, StoryShown
<1> HIDE DEF y
<1>5. /\ IsPage(y) /\ y.self = page.self /\ y.phase = page.phase
      /\ y.config = page.config /\ y.turn = page.turn /\ y.queued = page.queued /\ y.view = page.view
      /\ y.people = Layout(s).people /\ y.look = s.look
  BY <1>2, <1>3, <1>4 DEF Otherwise, Part
<1>6. y.story = s.story
  BY <1>3, <1>4 DEF Agrees, Alike
<1>7. Agrees(y, s, p, gen)
  BY <1>5, <1>6 DEF Agrees, Alike, Viewed, SameDraft
<1> QED
  BY <1>1, <1>7

LEMMA PeopleUttered ==
    ASSUME NEW s, IsRoom(s)
    PROVE  LET t == <<PeopleChanged(s), FeedAppended(s)>>
               u == <<PeopleChanged(s)>>
           IN  Proper(t) /\ Utters(s, t) /\ Proper(u) /\ Utters(s, u)
BY RoomUtters, UttersFew, ProperFew

\* Somebody leaves the lobby: their sockets are dismissed.
LEMMA LeaveFaithful ==
    ASSUME NEW r, IsRoom(r), IsTable(r), NEW p \in DOMAIN r.people, NEW c
    PROVE  Faithful(r, Leave(r, p), c)
<1> DEFINE w == WithStory(r)
           people == [q \in DOMAIN r.people \ {p} |-> r.people[q]]
           s == [w EXCEPT !.people = people]
           tell == <<PeopleChanged(s), FeedAppended(s)>>
           below == r.people[p].gen + 1
           o == [Commit(s, tell) EXCEPT !.dismissed = p, !.below = below, !.reason = "leave"]
           v == NewVersion(r)
           d == Deletion(<<Ack(v)>>)
<1>1. Leave(r, p) = IF DOMAIN people = {} THEN d ELSE o
  BY DEF Leave
<1>2. Faithful(r, d, c)
  <2>1. d.room = Deleted /\ d.reply = <<Ack(v)>> /\ d.tell = <<>> /\ d.others = <<>>
    BY DEF Deletion, Outcome
  <2> HIDE DEF d
  <2>2. Uttered(v, Ack(v))
    BY Versioned, RoomUtters
  <2> HIDE DEF v
  <2>3. Uttered(Deleted, Ack(v))
    BY <2>2 DEF Uttered
  <2>4. Utters(Deleted, <<Ack(v)>>)
    BY <2>3, UttersFew
  <2> QED
    BY <2>1, <2>4, UttersNothing DEF Faithful
<1> HIDE DEF d, v
<1>3. /\ IsRoom(w) /\ w.version = r.version + 1 /\ w.story = r.story + 1
      /\ SameDraft(r, w) /\ w.people = r.people
  BY Storied DEF SameDraft
<1>4. /\ o.room = s /\ o.reply = <<Ack(s)>> /\ o.tell = tell /\ o.others = <<>> /\ o.views = FALSE
      /\ o.dismissed = p /\ o.below = below
  BY DEF Commit, Outcome
<1> HIDE DEF o
<1>5. Kept(w, s)
  BY <1>3 DEF Kept, IsRoom
<1> HIDE DEF w
<1>6. /\ IsRoom(s) /\ s.version = w.version /\ s.story = w.story /\ s.people = people /\ SameDraft(w, s)
  BY <1>3, <1>5 DEF IsRoom, SameDraft, Kept
<1> HIDE DEF s
<1>7. s.version > r.version /\ s.version > 0 /\ SameDraft(r, s)
  BY <1>3, <1>6 DEF IsRoom, SameDraft
<1>8. IsTable(s)
  BY <1>7 DEF IsTable, SameDraft
<1>9. \A q \in DOMAIN r.people : r.people[q].gen \in Nat
  BY DEF IsRoom, Person
<1>10. Stands(r, o)
  BY <1>4, <1>6, <1>7, <1>8, <1>9 DEF Stands
<1>11. Proper(tell) /\ Utters(s, tell) /\ IsReceipt(<<Ack(s)>>) /\ Utters(s, <<Ack(s)>>)
  BY <1>6, PeopleUttered, ReceiptUttered
<1>12. ASSUME NEW q \in Nat \ {0}, NEW gen \in Nat, NEW mine \in BOOLEAN PROVE Brings(r, o, q, gen, mine)
  <2>1. Leads(r, s, tell, q, gen)
    BY <1>3, <1>6, <1>7, PeopleAndStoryLead
  <2> HIDE DEF tell
  <2>2. Leads(r, o.room, o.tell, q, gen) /\ IsReceipt(o.reply) /\ Proper(o.tell)
    BY <1>4, <1>11, <2>1
  <2> QED
    BY <1>4, <2>2, ToldBrings
<1>13. Utters(o.room, o.reply) /\ Utters(o.room, o.tell) /\ Utters(o.room, o.others)
  BY <1>4, <1>11, UttersNothing
<1>14. Faithful(r, o, c)
  BY <1>10, <1>12, <1>13 DEF Faithful, Informs
<1> QED
  BY <1>1, <1>2, <1>14

\* The phase is announced, with the turn, who has queued and the deadline.
LEMMA PhaseAnnounced ==
    ASSUME NEW page, IsPage(page), NEW s
    PROVE  \E q : /\ Becomes(page, AnnouncePhase(s), q)
                  /\ Otherwise(page, q, {"phase", "turn", "queued", "deadline"})
                  /\ q.phase = s.phase /\ q.turn = s.turn /\ q.queued = s.queued
<1> DEFINE f == Frame(s, "phase_changed", Spread([phase |-> s.phase], PublicDraft(s)))
           g == Frame(s, "deadline_changed", [deadline |-> s.deadline])
           x == Folded(page, f)
           y == Folded(x, g)
<1>1. AnnouncePhase(s) = <<f, g>>
  BY DEF AnnouncePhase
<1>2. /\ Otherwise(page, x, {"phase", "turn", "queued"})
      /\ x.phase = s.phase /\ x.turn = s.turn /\ x.queued = s.queued
  BY PhaseShown
<1>3. IsPage(x)
  BY <1>2 DEF Otherwise
<1>4. Otherwise(x, y, {"deadline"})
  <2> HIDE DEF x
  <2> QED
    BY <1>3, DeadlineShownOn
<1>5. Becomes(page, <<f, g>>, y)
  BY BecomesTwo
<1> HIDE DEF f, g, x, y
<1>6. Otherwise(page, y, {"phase", "turn", "queued", "deadline"})
  BY <1>2, <1>4 DEF Otherwise
<1>7. y.phase = s.phase /\ y.turn = s.turn /\ y.queued = s.queued
  BY <1>2, <1>4 DEF Otherwise, Part
<1> QED
  BY <1>1, <1>5, <1>6, <1>7

LEMMA PhaseProper == ASSUME NEW s PROVE Proper(AnnouncePhase(s))
BY ProperFew DEF AnnouncePhase

\* A draft starts: the story, then the phase, then everybody's own view.
LEMMA StartDraftFaithful ==
    ASSUME NEW r, IsRoom(r), IsTable(r), r.phase = "lobby", NEW p, NEW expected, NEW c
    PROVE  Faithful(r, StartDraft(r, p, expected), c)
<1> DEFINE w == WithStory(r)
           deadline == PickDeadline(r)
           s == [w EXCEPT !.phase = "picking", !.ring = DOMAIN r.people, !.config.shuffle = FALSE, !.deadline = deadline]
           story == <<FeedAppended(s)>>
           phase == AnnouncePhase(s)
           tell == story \o phase
           o == [Commit(s, tell) EXCEPT !.views = TRUE]
<1>1. StartDraft(r, p, expected) = IF r.people[p].host /\ MayStart(r, expected) THEN o ELSE Refused(r)
  BY DEF StartDraft
<1>2. /\ o.room = s /\ o.reply = <<Ack(s)>> /\ o.tell = tell /\ o.others = <<>> /\ o.views = TRUE
  BY DEF Commit, Outcome
<1> HIDE DEF o
<1>3. /\ IsRoom(w) /\ w.version = r.version + 1 /\ w.story = r.story + 1
      /\ w.people = r.people /\ w.config = r.config /\ w.phase = r.phase /\ w.minted = r.minted
  <2>1. w.minted = r.minted
    BY WithStoryKept DEF Kept
  <2> QED
    BY <2>1, Storied
<1>4. deadline \in Deadline
  BY DEF PickDeadline, Deadline
<1> HIDE DEF w, deadline
<1>5. /\ s.phase = "picking" /\ s.version = w.version /\ s.story = w.story /\ s.people = w.people
      /\ s.config = [w.config EXCEPT !.shuffle = FALSE]
  BY <1>3 DEF IsRoom
<1>6. IsRoom(s)
  <2>1. DOMAIN r.people \subseteq 1 .. w.minted /\ w.turn <= LastTurn /\ s.turn = w.turn
    BY <1>3 DEF IsRoom
  <2>2. s \in [phase : {"lobby", "picking", "review", "complete"}, version : Nat, turn : 1 .. LastTurn + 1,
                  people : {w.people}, minted : {w.minted}, claimSpent : {w.claimSpent}, look : {s.look},
                  config : {s.config}, options : {s.options}, ring : SUBSET (1 .. w.minted),
                  queued : SUBSET (1 .. w.minted), deadline : Deadline, story : {s.story}]
    BY <1>3, <1>4, <2>1 DEF IsRoom
  <2> HIDE DEF s
  <2>3. Kept(w, s)
    BY <1>3, <2>1, <2>2, Changed
  <2> QED
    BY <2>3 DEF Kept
<1> HIDE DEF s
<1>7. s.version > r.version /\ s.version > 0 /\ SamePeople(r, s)
  BY <1>3, <1>5 DEF IsRoom, SamePeople
<1>8. s.config \in [bots : {s.config.bots}, shuffle : BOOLEAN]
  BY <1>3, <1>5 DEF IsTable
<1>9. IsTable(s)
  BY <1>5, <1>7, <1>8 DEF IsTable
<1>10. Stands(r, o)
  BY <1>2, <1>7, <1>9 DEF Stands, SamePeople
<1>11. Proper(story) /\ Proper(phase) /\ Utters(s, story) /\ Utters(s, phase)
  BY <1>6, RoomUtters, UttersFew, ProperFew, PhaseProper
<1>12. Proper(tell) /\ Utters(s, tell)
  <2> HIDE DEF story, phase
  <2> QED
    BY <1>11, ProperConcat, UttersConcat
<1>13. ASSUME NEW q \in Nat \ {0}, NEW gen \in Nat, NEW page, Agrees(page, r, q, gen)
       PROVE  \E z : Becomes(page, tell, z) /\ IsPage(z) /\ z.self = q /\ Alike(z, s)
  <2> DEFINE x == Folded(page, FeedAppended(s))
  <2>1. IsPage(page) /\ page.self = q /\ page.story = r.story /\ page.people = Layout(r).people
    BY <1>13 DEF Agrees, Alike
  <2>2. Becomes(page, story, x)
    BY BecomesOne
  <2>3. Otherwise(page, x, {"story"}) /\ x.story = page.story + 1
    BY <2>1, StoryShown
  <2> HIDE DEF x
  <2>4. IsPage(x) /\ x.self = q /\ x.people = page.people /\ x.story = s.story
    BY <1>3, <1>5, <2>1, <2>3 DEF Otherwise, Part
  <2>5. PICK z : /\ Becomes(x, phase, z)
                 /\ Otherwise(x, z, {"phase", "turn", "queued", "deadline"})
                 /\ z.phase = s.phase /\ z.turn = s.turn /\ z.queued = s.queued
    BY <2>4, PhaseAnnounced
  <2> HIDE DEF story, phase
  <2>6. Becomes(page, tell, z)
    BY <1>11, <2>2, <2>5, BecomesFurther
  <2>7. IsPage(z) /\ z.self = q /\ z.people = page.people /\ z.story = s.story
    BY <2>4, <2>5 DEF Otherwise, Part
  <2>8. Layout(s).people = Layout(r).people
    BY <1>3, <1>5, LayoutOf
  <2>9. Alike(z, s)
    BY <1>5, <2>1, <2>5, <2>7, <2>8 DEF Alike
  <2> QED
    BY <2>6, <2>7, <2>9
<1> HIDE DEF tell
<1>14. IsReceipt(<<Ack(s)>>) /\ Utters(s, <<Ack(s)>>)
  BY <1>6, ReceiptUttered
<1>15. ASSUME NEW q \in Nat \ {0}, NEW gen \in Nat, NEW mine \in BOOLEAN PROVE Brings(r, o, q, gen, mine)
  BY <1>2, <1>6, <1>12, <1>13, <1>14, ViewsBring
<1>16. Faithful(r, o, c)
  BY <1>2, <1>10, <1>12, <1>14, <1>15, UttersNothing DEF Faithful, Informs
<1> QED
  BY <1>1, <1>16, RefusedFaithful

\* A confirmation changes the deadline at most.
LEMMA ConfirmationFacts ==
    ASSUME NEW s, IsRoom(s), NEW u \in ConfirmationAfter(s)
    PROVE  /\ IsRoom(u) /\ u.version = s.version /\ u.phase = s.phase /\ u.turn = s.turn /\ u.people = s.people
           /\ u.look = s.look /\ u.config = s.config /\ u.ring = s.ring /\ u.queued = s.queued /\ u.story = s.story
<1>1. Kept(s, s)
  BY DEF Kept
<1>2. IsRoom(u)
  BY <1>1, ConfirmationKept DEF Kept
<1>3. u = s \/ u = [s EXCEPT !.deadline = "soon"]
  BY DEF ConfirmationAfter
<1> QED
  BY <1>2, <1>3 DEF IsRoom

\* The acknowledgement of a choice puts it into the view there is.
LEMMA ChoiceShown ==
    ASSUME NEW r, IsRoom(r), NEW p \in r.ring, NEW gen, NEW page, Agrees(page, r, p, gen), NEW u
    PROVE  \E q : /\ Becomes(page, <<Frame(u, "ack", [queued |-> TRUE])>>, q)
                  /\ IsPage(q) /\ q.self = p /\ Alike(q, r) /\ q.view.turn = r.turn /\ q.view.queued = TRUE
<1> DEFINE f == Frame(u, "ack", [queued |-> TRUE])
           q == Folded(page, f)
<1>1. f.type = "ack" /\ f.body = [queued |-> TRUE]
  BY DEF Frame
<1>2. Becomes(page, <<f>>, q)
  BY BecomesOne
<1>3. /\ Otherwise(page, q, {"view"}) /\ q.view.turn = page.view.turn
      /\ q.view.queued = IF page.view.turn > 0 THEN TRUE ELSE page.view.queued
  <2> HIDE DEF f
  <2> QED
    BY <1>1, PickShown DEF Agrees
<1> HIDE DEF q, f
<1>4. page.view.turn = r.turn /\ r.turn > 0
  BY BoundsAssumption DEF Agrees, Viewed, IsRoom
<1>5. /\ IsPage(q) /\ q.self = page.self /\ q.people = page.people /\ q.phase = page.phase
      /\ q.story = page.story /\ q.look = page.look /\ q.config = page.config /\ q.turn = page.turn
      /\ q.queued = page.queued
  BY <1>3 DEF Otherwise, Part
<1>6. Alike(q, r)
  BY <1>5 DEF Agrees, Alike
<1> QED
  BY <1>2, <1>3, <1>4, <1>5, <1>6 DEF Agrees, f

\* Somebody queues: the socket that said so hears it acknowledged, everybody
\* hears that they have queued.
LEMMA QueuePickFaithful ==
    ASSUME NEW r, IsRoom(r), IsTable(r), r.phase = "picking", NEW p \in DOMAIN r.people, NEW turn,
           NEW o \in QueuePick(r, p, turn)
    PROVE  Faithful(r, o, p)
<1> DEFINE w == NewVersion(r)
           s == [w EXCEPT !.queued = @ \cup {p}]
           ack(u) == <<Frame(u, "ack", [queued |-> TRUE])>>
           mark(u) == <<Frame(u, "queue_status_changed", [seat |-> p])>>
<1>1. CASE p \notin r.ring \/ turn # r.turn
  BY <1>1, RefusedFaithful DEF QueuePick
<1>2. CASE ~(p \notin r.ring \/ turn # r.turn)
  <2>1. PICK u \in ConfirmationAfter(s) : o = [Outcome(u) EXCEPT !.reply = ack(u), !.tell = mark(u)]
    BY <1>2 DEF QueuePick
  <2>2. o.room = u /\ o.reply = ack(u) /\ o.tell = mark(u) /\ o.others = <<>> /\ o.views = FALSE
    BY <2>1 DEF Outcome
  <2>3. /\ IsRoom(w) /\ w.version = r.version + 1 /\ w.phase = r.phase /\ w.turn = r.turn /\ w.people = r.people
        /\ w.look = r.look /\ w.config = r.config /\ w.ring = r.ring /\ w.queued = r.queued /\ w.story = r.story
    BY Versioned
  <2> HIDE DEF w
  <2>4. IsRoom(s)
    BY <1>2, <2>3 DEF IsRoom
  <2>5. /\ s.version = w.version /\ s.phase = w.phase /\ s.turn = w.turn /\ s.people = w.people
        /\ s.look = w.look /\ s.config = w.config /\ s.ring = w.ring /\ s.queued = w.queued \cup {p} /\ s.story = w.story
    BY <2>3 DEF IsRoom
  <2> HIDE DEF s
  <2>6. /\ IsRoom(u) /\ u.version = s.version /\ u.phase = s.phase /\ u.turn = s.turn /\ u.people = s.people
        /\ u.look = s.look /\ u.config = s.config /\ u.ring = s.ring /\ u.queued = s.queued /\ u.story = s.story
    BY <2>4, ConfirmationFacts
  <2>7. u.version > r.version /\ u.version > 0 /\ SamePeople(r, u) /\ IsTable(u)
    BY <2>3, <2>5, <2>6 DEF IsRoom, SamePeople, IsTable
  <2>8. Stands(r, o)
    BY <2>2, <2>7 DEF Stands, SamePeople
  <2>9. Proper(ack(u)) /\ Proper(mark(u)) /\ Utters(u, ack(u)) /\ Utters(u, mark(u))
    BY <2>6, RoomUtters, UttersFew, ProperFew
  <2>10. u.queued = r.queued \cup {p} /\ p \in r.ring
    BY <1>2, <2>3, <2>5, <2>6
  <2>11. ASSUME NEW q \in Nat \ {0}, NEW gen \in Nat, NEW mine \in BOOLEAN, mine => q = p, q = p /\ ~mine => gen > 1,
                NEW page, Agrees(page, r, q, gen)
         PROVE  \E x, z : /\ Becomes(page, IF mine THEN o.reply ELSE <<>>, x)
                          /\ Becomes(x, Said(o, q, mine), z) /\ Agrees(z, o.room, q, gen)
    <3>1. PICK x : /\ Becomes(page, IF mine THEN o.reply ELSE <<>>, x) /\ IsPage(x) /\ x.self = q /\ Alike(x, r)
                   /\ q \in r.ring => /\ x.view.turn = r.turn
                                      /\ x.view.queued => q \in r.queued \/ mine
                                      /\ q \in r.queued \/ mine => x.view.queued \/ gen > 1
      <4>1. CASE mine
        <5> HIDE DEF ack
        <5>1. q = p /\ q \in r.ring
          BY <2>10, <2>11, <4>1
        <5>2. PICK x : /\ Becomes(page, ack(u), x) /\ IsPage(x) /\ x.self = q /\ Alike(x, r)
                       /\ x.view.turn = r.turn /\ x.view.queued = TRUE
          BY <2>11, <5>1, ChoiceShown DEF ack
        <5> QED
          BY <2>2, <4>1, <5>2
      <4>2. CASE ~mine
        <5>1. Becomes(page, <<>>, page)
          BY BecomesItself
        <5>2. /\ IsPage(page) /\ page.self = q /\ Alike(page, r)
              /\ q \in r.ring => /\ page.view.turn = r.turn
                                 /\ page.view.queued => q \in r.queued
                                 /\ q \in r.queued => page.view.queued \/ gen > 1
          BY <2>11 DEF Agrees, Viewed
        <5> QED
          BY <4>2, <5>1, <5>2
      <4> QED
        BY <4>1, <4>2
    <3> DEFINE f == Frame(u, "queue_status_changed", [seat |-> p])
               z == Folded(x, f)
    <3>2. Becomes(x, mark(u), z)
      BY BecomesOne
    <3>3. Otherwise(x, z, {"queued"}) /\ z.queued = x.queued \cup {p}
      <4>1. f.type = "queue_status_changed" /\ f.body.seat = p
        BY DEF Frame
      <4> HIDE DEF f
      <4> QED
        BY <3>1, <4>1, QueuedShown
    <3> HIDE DEF z, ack, mark
    <3>4. /\ IsPage(z) /\ z.self = q /\ z.people = x.people /\ z.phase = x.phase /\ z.story = x.story
          /\ z.turn = x.turn /\ z.view = x.view
      BY <3>1, <3>3 DEF Otherwise, Part
    <3>5. Alike(z, u)
      <4>1. Layout(u).people = Layout(r).people
        BY <2>3, <2>5, <2>6, LayoutOf
      <4> QED
        BY <2>3, <2>5, <2>6, <2>10, <3>1, <3>3, <3>4, <4>1 DEF Alike
    <3>6. Viewed(z, u, q, gen)
      <4>1. u.ring = r.ring /\ u.turn = r.turn
        BY <2>3, <2>5, <2>6
      <4>2. ASSUME q \in r.ring
            PROVE  /\ z.view.turn = r.turn
                   /\ z.view.queued => q \in u.queued
                   /\ q \in u.queued => z.view.queued \/ gen > 1
        BY <2>10, <2>11, <3>1, <3>4, <4>2
      <4> QED
        BY <4>1, <4>2 DEF Viewed
    <3>7. Agrees(z, o.room, q, gen)
      BY <2>2, <3>4, <3>5, <3>6 DEF Agrees
    <3>8. Becomes(x, o.tell, z) /\ Becomes(z, <<>>, z)
      BY <2>2, <3>2, BecomesItself
    <3>9. Becomes(x, Said(o, q, mine), z)
      <4>1. Becomes(z, IF mine THEN <<>> ELSE o.others, z) /\ Becomes(z, IF o.views THEN PrivateView(o.room, q) ELSE <<>>, z)
        BY <2>2, <3>8
      <4>2. Proper(o.tell) /\ Proper(o.others) /\ (o.views => IsRoom(o.room))
        BY <2>2, <2>9, ProperEmpty
      <4> QED
        BY <3>8, <4>1, <4>2, SaidBecomes
    <3> QED
      BY <3>1, <3>7, <3>9
  <2>12. Informs(r, o, p)
    BY <2>11 DEF Informs, Brings
  <2> HIDE DEF ack, mark
  <2> QED
    BY <2>2, <2>8, <2>9, <2>12, UttersNothing DEF Faithful
<1> QED
  BY <1>1, <1>2

\* Everything is said again: whatever the page showed, it shows the room.
LEMMA EverythingShown ==
    ASSUME NEW s, IsRoom(s), NEW p, NEW gen, NEW page, IsPage(page), page.self = p
    PROVE  \E q : Becomes(page, <<Snapshot(s)>> \o PrivateView(s, p), q) /\ Agrees(q, s, p, gen)
<1> DEFINE a == <<Snapshot(s)>>
           b == PrivateView(s, p)
           x == Folded(page, Snapshot(s))
<1>1. Becomes(page, a, x)
  BY BecomesOne
<1>2. /\ Otherwise(page, x, {"people", "look", "phase", "config", "story", "turn", "queued", "deadline"})
      /\ x.people = Layout(s).people /\ x.look = s.look /\ x.phase = s.phase
      /\ x.config = s.config /\ x.story = s.story
      /\ s.phase # "lobby" => x.turn = s.turn /\ x.queued = s.queued
  BY SnapshotShown
<1> HIDE DEF x
<1>3. IsPage(x) /\ x.self = p
  BY <1>2 DEF Otherwise, Part
<1>4. PICK q : /\ Becomes(x, b, q) /\ Otherwise(x, q, {"view"})
               /\ p \in s.ring => q.view.turn = s.turn /\ (q.view.queued <=> p \in s.queued)
  BY <1>3, ViewShown
<1>5. Proper(a) /\ Proper(b)
  BY ProperFew, ViewTold DEF Told
<1> HIDE DEF a, b
<1>6. Becomes(page, a \o b, q)
  BY <1>1, <1>4, <1>5, BecomesFurther
<1>7. /\ IsPage(q) /\ q.self = p /\ q.people = x.people /\ q.look = x.look /\ q.phase = x.phase
      /\ q.config = x.config /\ q.story = x.story /\ q.turn = x.turn /\ q.queued = x.queued
  BY <1>3, <1>4 DEF Otherwise, Part
<1>8. Agrees(q, s, p, gen)
  BY <1>2, <1>4, <1>7 DEF Agrees, Alike, Viewed
<1> QED
  BY <1>6, <1>8 DEF a, b

LEMMA ResyncFaithful == ASSUME NEW r, IsRoom(r), IsTable(r), NEW p PROVE Faithful(r, Resync(r, p), p)
<1> DEFINE reply == <<Snapshot(r)>> \o PrivateView(r, p)
           o == Resync(r, p)
<1>1. o.room = r /\ o.reply = reply /\ o.tell = <<>> /\ o.others = <<>> /\ o.views = FALSE
  BY DEF Resync, Outcome
<1> HIDE DEF o
<1>2. Stands(r, o)
  BY <1>1 DEF Stands
<1>3. Utters(r, reply)
  <2>1. Utters(r, <<Snapshot(r)>>) /\ Utters(r, PrivateView(r, p)) /\ Proper(<<Snapshot(r)>>) /\ Proper(PrivateView(r, p))
    BY RoomUtters, UttersFew, ProperFew, ViewTold DEF Told
  <2> QED
    BY <2>1, UttersConcat
<1>4. ASSUME NEW q \in Nat \ {0}, NEW gen \in Nat, NEW mine \in BOOLEAN, mine => q = p, NEW page, Agrees(page, r, q, gen)
      PROVE  \E x, z : /\ Becomes(page, IF mine THEN o.reply ELSE <<>>, x)
                       /\ Becomes(x, Said(o, q, mine), z) /\ Agrees(z, o.room, q, gen)
  <2>1. PICK x : Becomes(page, IF mine THEN o.reply ELSE <<>>, x) /\ Agrees(x, r, q, gen)
    <3>1. CASE mine
      <4>1. PICK x : Becomes(page, reply, x) /\ Agrees(x, r, p, gen)
        BY <1>4, <3>1, EverythingShown DEF Agrees
      <4> QED
        BY <1>1, <1>4, <3>1, <4>1
    <3>2. CASE ~mine
      BY <1>4, <3>2, BecomesItself
    <3> QED
      BY <3>1, <3>2
  <2>2. Becomes(x, <<>>, x)
    BY BecomesItself
  <2>3. Becomes(x, Said(o, q, mine), x)
    <3>1. /\ Becomes(x, o.tell, x) /\ Becomes(x, IF mine THEN <<>> ELSE o.others, x)
          /\ Becomes(x, IF o.views THEN PrivateView(o.room, q) ELSE <<>>, x)
      BY <1>1, <2>2
    <3>2. Proper(o.tell) /\ Proper(o.others) /\ (o.views => IsRoom(o.room))
      BY <1>1, ProperEmpty
    <3> QED
      BY <3>1, <3>2, SaidBecomes
  <2> QED
    BY <1>1, <2>1, <2>3
<1>5. Informs(r, o, p)
  BY <1>4 DEF Informs, Brings
<1> HIDE DEF reply
<1>6. Faithful(r, o, p)
  BY <1>1, <1>2, <1>3, <1>5, UttersNothing DEF Faithful
<1> QED
  BY <1>6 DEF o

\* The close of somebody's socket.
LEMMA AbsentFaithful ==
    ASSUME NEW r, IsRoom(r), IsTable(r), NEW p \in DOMAIN r.people, NEW o \in Absent(r, p), NEW c
    PROVE  Faithful(r, o, c)
<1> DEFINE w == WithStory(r)
           people == [r.people EXCEPT ![p] = [r.people[p] EXCEPT !.connected = FALSE]]
           s == [w EXCEPT !.people = people]
           tell(u) == <<PeopleChanged(u), FeedAppended(u)>>
<1>1. /\ IsRoom(w) /\ w.version = r.version + 1 /\ w.story = r.story + 1
      /\ SameDraft(r, w) /\ w.people = r.people
  BY Storied DEF SameDraft
<1> HIDE DEF w
<1>2. DOMAIN people = DOMAIN r.people /\ \A q \in DOMAIN r.people : people[q].gen = r.people[q].gen
  BY ZenonT(40) DEF IsRoom, Person
<1>3. /\ people \in [DOMAIN r.people -> Person]
      /\ \A q \in DOMAIN r.people : people[q].host = r.people[q].host
  BY ZenonT(40) DEF IsRoom, Person
<1>4. [w EXCEPT !.people[p].connected = FALSE] = s
  BY <1>1
<1> HIDE DEF people
<1>5. IsRoom(s)
  BY <1>1, <1>2, <1>3 DEF IsRoom
<1>6. s.version = w.version /\ s.story = w.story /\ s.people = people /\ SameDraft(w, s)
  BY <1>1 DEF IsRoom, SameDraft
<1>7. PICK u \in ConfirmationAfter(s) : o = [Outcome(u) EXCEPT !.tell = tell(u)]
  BY <1>4 DEF Absent, w
<1> HIDE DEF s
<1>8. o.room = u /\ o.reply = <<>> /\ o.tell = tell(u) /\ o.others = <<>> /\ o.views = FALSE
  BY <1>7 DEF Outcome
<1>9. IsRoom(u) /\ u.version = s.version /\ u.story = s.story /\ u.people = s.people /\ SameDraft(s, u)
  BY <1>5, ConfirmationFacts DEF SameDraft
<1>10. u.version > r.version /\ u.version > 0 /\ u.story = r.story + 1
  BY <1>1, <1>6, <1>9 DEF IsRoom
<1>11. SameDraft(r, u) /\ SamePeople(r, u)
  BY <1>1, <1>2, <1>6, <1>9 DEF SameDraft, SamePeople
<1>12. IsTable(u)
  BY <1>10, <1>11 DEF IsTable, SameDraft
<1>13. Proper(tell(u)) /\ Utters(u, tell(u))
  BY <1>9, PeopleUttered
<1>14. \A q \in Nat \ {0}, gen \in Nat : Leads(r, u, tell(u), q, gen)
  BY <1>10, <1>11, PeopleAndStoryLead
<1> HIDE DEF tell
<1> QED
  BY <1>8, <1>9, <1>10, <1>11, <1>12, <1>13, <1>14, ToldFaithful, UttersNothing DEF IsReceipt

\* The sweep of a lobby: no story is told.
LEMMA ReconciledFaithful ==
    ASSUME NEW r, IsRoom(r), IsTable(r), NEW live, NEW c
    PROVE  Faithful(r, Reconciled(r, live), c)
<1> DEFINE w == NewVersion(r)
           there(p) == r.people[p].connected /\ p \in live
           people == [p \in DOMAIN r.people |-> [r.people[p] EXCEPT !.connected = there(p)]]
           s == [w EXCEPT !.people = people]
           tell == <<PeopleChanged(s)>>
           o == [Outcome(s) EXCEPT !.tell = tell]
<1>1. /\ IsRoom(w) /\ w.version = r.version + 1 /\ w.story = r.story
      /\ SameDraft(r, w) /\ w.people = r.people
  BY Versioned DEF SameDraft
<1>2. \A p : there(p) \in BOOLEAN
  OBVIOUS
<1>3. Reconciled(r, live) = o
  BY DEF Reconciled
<1>4. o.room = s /\ o.reply = <<>> /\ o.tell = tell /\ o.others = <<>> /\ o.views = FALSE
  BY DEF Outcome
<1> HIDE DEF there, w, o
<1>5. /\ people \in [DOMAIN r.people -> Person] /\ DOMAIN people = DOMAIN r.people
      /\ \A q \in DOMAIN r.people : people[q].host = r.people[q].host /\ people[q].gen = r.people[q].gen
  BY <1>1, <1>2 DEF IsRoom, Person
<1> HIDE DEF people
<1>6. IsRoom(s)
  BY <1>1, <1>5 DEF IsRoom
<1>7. s.version = w.version /\ s.story = w.story /\ s.people = people /\ SameDraft(w, s)
  BY <1>1 DEF IsRoom, SameDraft
<1> HIDE DEF s
<1>8. s.version > r.version /\ s.version > 0 /\ s.story = r.story
  BY <1>1, <1>7 DEF IsRoom
<1>9. SameDraft(r, s) /\ SamePeople(r, s)
  BY <1>1, <1>5, <1>7 DEF SameDraft, SamePeople
<1>10. IsTable(s)
  BY <1>8, <1>9 DEF IsTable, SameDraft
<1>11. Proper(tell) /\ Utters(s, tell)
  BY <1>6, PeopleUttered
<1>12. \A q \in Nat \ {0}, gen \in Nat : Leads(r, s, tell, q, gen)
  BY <1>8, <1>9, PeopleLead
<1> HIDE DEF tell
<1>13. Faithful(r, o, c)
  BY <1>4, <1>6, <1>8, <1>9, <1>10, <1>11, <1>12, ToldFaithful, UttersNothing DEF IsReceipt
<1> QED
  BY <1>3, <1>13

\* A deadline passes: the phase, then perhaps a story line, then everybody's
\* own view.
LEMMA AdvancedFaithful ==
    ASSUME NEW r, IsRoom(r), IsTable(r), r.phase # "lobby", NEW phase \in {"picking", "review", "complete"},
           r.phase # "review" => r.turn <= LastTurn /\ (phase # "complete" => r.turn < LastTurn),
           r.phase = "review" => phase = "picking", NEW c
    PROVE  Faithful(r, Advanced(r, phase), c)
<1> DEFINE w == NewVersion(r)
           deadline == CASE phase = "complete" -> "ttl" [] phase = "review" -> "review" [] OTHER -> PickDeadline(r)
           turn == IF r.phase = "review" THEN w.turn ELSE w.turn + 1
           queued == IF r.phase = "review" THEN w.queued ELSE {}
           story == IF phase = "picking" THEN w.story ELSE w.story + 1
           s == [w EXCEPT !.phase = phase, !.turn = turn, !.queued = queued,
                          !.story = story, !.deadline = deadline]
           a == AnnouncePhase(s)
           b == IF phase = "picking" THEN <<>> ELSE <<FeedAppended(s)>>
           tell == a \o b
           o == [Outcome(s) EXCEPT !.tell = tell, !.views = TRUE]
<1>1. Advanced(r, phase) = o
  BY DEF Advanced
<1>2. o.room = s /\ o.reply = <<>> /\ o.tell = tell /\ o.others = <<>> /\ o.views = TRUE
  BY DEF Outcome
<1> HIDE DEF o
<1>3. IsRoom(s)
  <2>1. Spoken(r, o)
    BY <1>1, AdvancedSpoken
  <2>2. s # Deleted
    <3>1. "phase" \in DOMAIN s /\ s.phase = phase
      BY Versioned DEF IsRoom
    <3> HIDE DEF s
    <3> QED
      BY <3>1 DEF Deleted
  <2> HIDE DEF s
  <2> QED
    BY <1>2, <2>1, <2>2 DEF Spoken, Kept
<1>4. IsRoom(w) /\ w.version = r.version + 1 /\ w.story = r.story /\ w.people = r.people /\ w.config = r.config
  BY Versioned
<1> HIDE DEF w, deadline, turn, queued
<1>5. s.phase = phase /\ s.version = w.version /\ s.people = w.people /\ s.config = w.config /\ s.story = story
  BY <1>4 DEF IsRoom
<1> HIDE DEF s
<1>6. s.version > r.version /\ s.version > 0 /\ SamePeople(r, s)
  BY <1>4, <1>5 DEF IsRoom, SamePeople
<1>7. IsTable(s)
  BY <1>4, <1>5, <1>6 DEF IsTable
<1>8. Stands(r, o)
  BY <1>2, <1>6, <1>7 DEF Stands, SamePeople
<1>9. Proper(a) /\ Proper(b) /\ Utters(s, a) /\ Utters(s, b)
  BY <1>3, RoomUtters, UttersFew, UttersNothing, ProperFew, ProperEmpty, PhaseProper
<1>10. Proper(tell) /\ Utters(s, tell)
  <2> HIDE DEF a, b
  <2> QED
    BY <1>9, ProperConcat, UttersConcat
<1>11. ASSUME NEW q \in Nat \ {0}, NEW gen \in Nat, NEW page, Agrees(page, r, q, gen)
       PROVE  \E z : Becomes(page, tell, z) /\ IsPage(z) /\ z.self = q /\ Alike(z, s)
  <2>1. IsPage(page) /\ page.self = q /\ page.story = r.story /\ page.people = Layout(r).people
    BY <1>11 DEF Agrees, Alike
  <2>2. PICK x : /\ Becomes(page, a, x)
                 /\ Otherwise(page, x, {"phase", "turn", "queued", "deadline"})
                 /\ x.phase = s.phase /\ x.turn = s.turn /\ x.queued = s.queued
    BY <2>1, PhaseAnnounced
  <2>3. IsPage(x) /\ x.self = q /\ x.people = page.people /\ x.story = r.story
    BY <2>1, <2>2 DEF Otherwise, Part
  <2>4. PICK z : Becomes(x, b, z) /\ Otherwise(x, z, {"story"}) /\ z.story = s.story
    <3>1. CASE phase = "picking"
      <4>1. Otherwise(x, x, {"story"}) /\ x.story = s.story
        BY <1>4, <1>5, <2>3, <3>1 DEF Otherwise
      <4> QED
        BY <3>1, <4>1, BecomesItself
    <3>2. CASE phase # "picking"
      <4> DEFINE z == Folded(x, FeedAppended(s))
      <4>1. Becomes(x, b, z)
        BY <3>2, BecomesOne
      <4>2. Otherwise(x, z, {"story"}) /\ z.story = x.story + 1
        BY <2>3, StoryShown
      <4> HIDE DEF z
      <4> QED
        BY <1>4, <1>5, <2>3, <3>2, <4>1, <4>2
    <3> QED
      BY <3>1, <3>2
  <2> HIDE DEF a, b
  <2>5. Becomes(page, tell, z)
    BY <1>9, <2>2, <2>4, BecomesFurther
  <2>6. /\ IsPage(z) /\ z.self = q /\ z.people = page.people /\ z.phase = s.phase
        /\ z.turn = s.turn /\ z.queued = s.queued
    BY <2>2, <2>3, <2>4 DEF Otherwise, Part
  <2>7. Layout(s).people = Layout(r).people
    BY <1>4, <1>5, LayoutOf
  <2>8. s.phase # "lobby"
    BY <1>5
  <2>9. Alike(z, s)
    BY <2>1, <2>4, <2>6, <2>7, <2>8 DEF Alike
  <2> QED
    BY <2>5, <2>6, <2>9
<1> HIDE DEF tell
<1>12. ASSUME NEW q \in Nat \ {0}, NEW gen \in Nat, NEW mine \in BOOLEAN PROVE Brings(r, o, q, gen, mine)
  <2>1. IsReceipt(<<>>)
    BY DEF IsReceipt
  <2> QED
    BY <1>2, <1>3, <1>10, <1>11, <2>1, ViewsBring
<1>13. Faithful(r, o, c)
  BY <1>2, <1>8, <1>10, <1>12, UttersNothing DEF Faithful, Informs
<1> QED
  BY <1>1, <1>13

LEMMA DeletionFaithful == ASSUME NEW r, NEW c PROVE Faithful(r, Deletion(<<>>), c)
BY UttersNothing DEF Faithful, Deletion, Outcome

\* An alarm of a draft.
LEMMA DeadlineFaithful ==
    ASSUME NEW r, IsRoom(r), IsTable(r), r.phase # "lobby", NEW o \in DeadlineAlarm(r), NEW c
    PROVE  Faithful(r, o, c)
<1>1. r.turn \in 1 .. LastTurn + 1 /\ (r.phase # "complete" => r.turn <= LastTurn)
      /\ r.phase \in {"lobby", "picking", "review", "complete"}
  BY DEF IsRoom
<1>2. CASE r.phase = "complete"
  BY <1>2, DeletionFaithful DEF DeadlineAlarm
<1>3. CASE r.phase = "review"
  <2>1. Faithful(r, Advanced(r, "picking"), c)
    BY <1>3, AdvancedFaithful
  <2> QED
    BY <1>3, <2>1 DEF DeadlineAlarm
<1>4. CASE r.phase = "picking" /\ r.turn = LastTurn
  <2>1. Faithful(r, Advanced(r, "complete"), c)
    BY <1>1, <1>4, AdvancedFaithful
  <2> QED
    BY <1>4, <2>1 DEF DeadlineAlarm
<1>5. CASE r.phase = "picking" /\ r.turn # LastTurn
  <2>1. r.turn < LastTurn
    BY <1>1, <1>5, BoundsAssumption
  <2>2. Faithful(r, Advanced(r, "picking"), c) /\ Faithful(r, Advanced(r, "review"), c)
    BY <1>1, <1>5, <2>1, AdvancedFaithful
  <2> QED
    BY <1>5, <2>2 DEF DeadlineAlarm
<1> QED
  BY <1>1, <1>2, <1>3, <1>4, <1>5

\* A command of somebody.
LEMMA CommandFaithful ==
    ASSUME NEW r, IsRoom(r), IsTable(r), NEW p, NEW m, m.type \in CommandTypes, NEW o \in HandleCommand(r, p, m)
    PROVE  Faithful(r, o, p)
<1>1. CASE p \notin DOMAIN r.people
  <2> DEFINE n == [Outcome(r) EXCEPT !.reason = "removed"]
  <2>1. o = n
    BY <1>1 DEF HandleCommand
  <2>2. n.room = r /\ n.reply = <<>> /\ n.tell = <<>> /\ n.others = <<>> /\ n.views = FALSE
    BY DEF Outcome
  <2> HIDE DEF n
  <2> QED
    BY <2>1, <2>2, SilenceFaithful, UttersNothing DEF IsReceipt
<1>2. CASE p \in DOMAIN r.people /\ m.type = "resync"
  <2>1. Faithful(r, Resync(r, p), p)
    BY ResyncFaithful
  <2> QED
    BY <1>2, <2>1 DEF HandleCommand
<1>3. CASE p \in DOMAIN r.people /\ m.type = "queue_pick"
  BY <1>3, QueuePickFaithful, RefusedFaithful DEF HandleCommand
<1>4. CASE p \in DOMAIN r.people /\ m.type \notin {"resync", "queue_pick"} /\ r.phase # "lobby"
  BY <1>4, RefusedFaithful DEF HandleCommand
<1>5. CASE p \in DOMAIN r.people /\ m.type \notin {"resync", "queue_pick"} /\ r.phase = "lobby"
  <2>1. CASE m.type = "start_draft"
    BY <1>5, <2>1, StartDraftFaithful DEF HandleCommand
  <2>2. CASE m.type = "update_config"
    BY <1>5, <2>2, UpdateConfigFaithful DEF HandleCommand
  <2>3. CASE m.type = "move_participant"
    BY <1>5, <2>3, MoveParticipantFaithful DEF HandleCommand
  <2>4. CASE m.type = "set_seat_randomization"
    BY <1>5, <2>4, RandomizeNowFaithful DEF HandleCommand
  <2>5. CASE m.type = "leave"
    BY <1>5, <2>5, LeaveFaithful DEF HandleCommand
  <2> QED
    BY <1>5, <2>1, <2>2, <2>3, <2>4, <2>5 DEF CommandTypes
<1> QED
  BY <1>1, <1>2, <1>3, <1>4, <1>5

\* Whoever is turned away.
LEMMA TurnedAwayFaithful == ASSUME NEW r, IsRoom(r), IsTable(r), NEW why, NEW c PROVE Faithful(r, TurnedAway(r, why), c)
<1> DEFINE f == [type |-> "error", version |-> 0, body |-> Nothing]
           o == TurnedAway(r, why)
<1>1. o.room = r /\ o.reply = <<f>> /\ o.tell = <<>> /\ o.others = <<>> /\ o.views = FALSE
  BY DEF TurnedAway, Outcome
<1> HIDE DEF o
<1>2. Uttered(r, f)
  BY DEF Uttered, Fitting, Nothing, IsRoom
<1>3. f.body = Nothing /\ f.type = "error"
  OBVIOUS
<1> HIDE DEF f
<1>4. IsReceipt(<<f>>) /\ Utters(r, <<f>>)
  BY <1>2, <1>3, UttersFew DEF IsReceipt
<1>5. Faithful(r, o, c)
  BY <1>1, <1>4, SilenceFaithful
<1> QED
  BY <1>5 DEF o

LEMMA SilentFaithful ==
    ASSUME NEW r, IsRoom(r), IsTable(r), NEW why, NEW c
    PROVE  Faithful(r, Outcome(r), c) /\ Faithful(r, [Outcome(r) EXCEPT !.reason = why], c)
<1> DEFINE n == Outcome(r)
           o == [n EXCEPT !.reason = why]
<1>1. n.room = r /\ n.reply = <<>> /\ n.tell = <<>> /\ n.others = <<>> /\ n.views = FALSE
  BY DEF Outcome
<1>2. o.room = r /\ o.reply = <<>> /\ o.tell = <<>> /\ o.others = <<>> /\ o.views = FALSE
  BY DEF Outcome
<1> HIDE DEF n, o
<1>3. Faithful(r, n, c) /\ Faithful(r, o, c)
  BY <1>1, <1>2, SilenceFaithful, UttersNothing DEF IsReceipt
<1> QED
  BY <1>3 DEF n, o

\* A hello that is let in: one more connection of whoever it is, who hears
\* everything, whatever their page shows; the others hear who is there.
Greets(r, o) ==
    /\ IsRoom(o.room) /\ IsTable(o.room) /\ o.room.version > r.version
    /\ DOMAIN o.room.people = DOMAIN r.people \cup {o.self}
    /\ \A q \in DOMAIN r.people \ {o.self} : o.room.people[q].gen = r.people[q].gen
    /\ o.self \in DOMAIN r.people => o.room.people[o.self].gen = r.people[o.self].gen + 1
    /\ o.self \notin DOMAIN r.people => o.room.people[o.self].gen = 1 /\ o.self = r.minted + 1
    /\ o.reason = "superseded" /\ o.dismissed = o.self /\ o.below = o.room.people[o.self].gen
    /\ o.tell = <<>> /\ o.views = FALSE /\ Proper(o.others) /\ Proper(o.reply)
    /\ Utters(o.room, o.reply) /\ Utters(o.room, o.others)
    /\ \A p \in Nat \ {0}, gen \in Nat : Leads(r, o.room, o.others, p, gen)
    /\ \A page, gen : IsPage(page) =>
           \E q : Becomes(page, o.reply, q) /\ Agrees(q, o.room, o.self, gen)

\* The newcomer hears who they are, and everything.
LEMMA GreetingShown ==
    ASSUME NEW s, IsRoom(s), NEW p, NEW minted, NEW page, IsPage(page), NEW gen
    PROVE  LET reply == <<Frame(s, "hello_ack", [self |-> p, minted |-> minted]), Snapshot(s)>> \o PrivateView(s, p)
           IN  /\ Proper(reply) /\ Utters(s, reply)
               /\ \E q : Becomes(page, reply, q) /\ Agrees(q, s, p, gen)
<1> DEFINE f == Frame(s, "hello_ack", [self |-> p, minted |-> minted])
           g == Snapshot(s)
           b == PrivateView(s, p)
           x == Folded(page, f)
           y == Folded(x, g)
<1>1. f.type = "hello_ack" /\ f.body.self = p
  BY DEF Frame
<1>2. Uttered(s, f) /\ Uttered(s, g) /\ Utters(s, b) /\ Proper(b)
  BY RoomUtters, ViewTold DEF Told
<1> HIDE DEF f
<1>3. Otherwise(page, x, {"self"}) /\ x.self = p
  BY <1>1, SelfShown
<1>4. IsPage(x)
  BY <1>3 DEF Otherwise
<1>5. /\ Otherwise(x, y, {"people", "look", "phase", "config", "story", "turn", "queued", "deadline"})
      /\ y.people = Layout(s).people /\ y.look = s.look /\ y.phase = s.phase
      /\ y.config = s.config /\ y.story = s.story
      /\ s.phase # "lobby" => y.turn = s.turn /\ y.queued = s.queued
  <2> HIDE DEF x
  <2> QED
    BY <1>4, SnapshotShown
<1>6. Becomes(page, <<f, g>>, y)
  BY BecomesTwo
<1> HIDE DEF x, y, g
<1>7. IsPage(y) /\ y.self = p
  BY <1>3, <1>5 DEF Otherwise, Part
<1>8. PICK q : /\ Becomes(y, b, q) /\ Otherwise(y, q, {"view"})
               /\ p \in s.ring => q.view.turn = s.turn /\ (q.view.queued <=> p \in s.queued)
  BY <1>7, ViewShown
<1> HIDE DEF b
<1>9. Proper(<<f, g>>) /\ Utters(s, <<f, g>>)
  BY <1>2, ProperFew, UttersFew
<1>10. Becomes(page, <<f, g>> \o b, q)
  BY <1>2, <1>6, <1>8, <1>9, BecomesFurther
<1>11. /\ IsPage(q) /\ q.self = p /\ q.people = y.people /\ q.look = y.look /\ q.phase = y.phase
       /\ q.config = y.config /\ q.story = y.story /\ q.turn = y.turn /\ q.queued = y.queued
  BY <1>7, <1>8 DEF Otherwise, Part
<1>12. Agrees(q, s, p, gen)
  BY <1>5, <1>8, <1>11 DEF Agrees, Alike, Viewed
<1>13. Proper(<<f, g>> \o b) /\ Utters(s, <<f, g>> \o b)
  BY <1>2, <1>9, ProperConcat, UttersConcat
<1> QED
  BY <1>10, <1>12, <1>13 DEF f, g, b

\* The room after a hello.
LEMMA NewcomerFacts ==
    ASSUME NEW r, IsRoom(r), IsTable(r), NEW p, NEW self, NEW minted, NEW claim,
           IsRoom(WithNewcomer(r, p, self, minted, claim))
    PROVE  LET s == WithNewcomer(r, p, self, minted, claim)
           IN  /\ IsTable(s) /\ s.version > r.version /\ s.story = r.story + 1 /\ SameDraft(r, s)
               /\ DOMAIN s.people = DOMAIN r.people \cup {p} /\ s.people[p] = self
               /\ \A q \in DOMAIN r.people \ {p} : s.people[q] = r.people[q]
<1> DEFINE w == WithStory(r)
           people == [q \in DOMAIN r.people \cup {p} |-> IF q = p THEN self ELSE r.people[q]]
           spent == w.claimSpent \/ claim
           s == [w EXCEPT !.people = people, !.minted = minted, !.claimSpent = spent]
<1>1. /\ IsRoom(w) /\ w.version = r.version + 1 /\ w.story = r.story + 1
      /\ SameDraft(r, w) /\ w.people = r.people
  BY Storied DEF SameDraft
<1>2. WithNewcomer(r, p, self, minted, claim) = s
  BY <1>1 DEF WithNewcomer
<1> HIDE DEF w, people, spent
<1>3. s.version = w.version /\ s.story = w.story /\ s.people = people /\ SameDraft(w, s)
  BY <1>1 DEF IsRoom, SameDraft
<1> HIDE DEF s
<1>4. s.version > r.version /\ s.version > 0 /\ SameDraft(r, s)
  BY <1>1, <1>3 DEF IsRoom, SameDraft
<1>5. IsTable(s)
  BY <1>4 DEF IsTable, SameDraft
<1>6. /\ DOMAIN people = DOMAIN r.people \cup {p} /\ people[p] = self
      /\ \A q \in DOMAIN r.people \ {p} : people[q] = r.people[q]
  BY DEF people
<1> QED
  BY <1>1, <1>2, <1>3, <1>4, <1>5, <1>6

LEMMA WelcomeGreets ==
    ASSUME NEW r, IsRoom(r), IsTable(r), NEW p, NEW self, NEW minted, NEW claim, NEW new,
           IsRoom(WithNewcomer(r, p, self, minted, claim)),
           p \in DOMAIN r.people => self.gen = r.people[p].gen + 1,
           p \notin DOMAIN r.people => self.gen = 1 /\ p = r.minted + 1
    PROVE  Greets(r, Welcome(WithNewcomer(r, p, self, minted, claim), p, new))
<1> DEFINE s == WithNewcomer(r, p, self, minted, claim)
           o == Welcome(s, p, new)
           reply == <<Frame(s, "hello_ack", [self |-> p, minted |-> new]), Snapshot(s)>> \o PrivateView(s, p)
           others == <<PeopleChanged(s), FeedAppended(s)>>
<1>1. /\ IsTable(s) /\ s.version > r.version /\ s.story = r.story + 1 /\ SameDraft(r, s)
      /\ DOMAIN s.people = DOMAIN r.people \cup {p} /\ s.people[p] = self
      /\ \A q \in DOMAIN r.people \ {p} : s.people[q] = r.people[q]
  BY NewcomerFacts
<1>2. IsRoom(s)
  OBVIOUS
<1> HIDE DEF s
<1>3. /\ o.room = s /\ o.self = p /\ o.reason = "superseded" /\ o.dismissed = p /\ o.below = s.people[p].gen
      /\ o.reply = reply /\ o.tell = <<>> /\ o.others = others /\ o.views = FALSE
  BY DEF Welcome, Outcome
<1> HIDE DEF o
<1>5. Proper(others) /\ Utters(s, others)
  BY <1>2, PeopleUttered
<1>6. \A q \in Nat \ {0}, gen \in Nat : Leads(r, s, others, q, gen)
  BY <1>1, PeopleAndStoryLead
<1>7. ASSUME NEW page, NEW gen, IsPage(page)
      PROVE  /\ Proper(reply) /\ Utters(s, reply)
             /\ \E q : Becomes(page, reply, q) /\ Agrees(q, s, p, gen)
  BY <1>2, <1>7, GreetingShown
<1>8. \E page : IsPage(page)
  <2> DEFINE v == [turn |-> 0, queued |-> FALSE]
             page == [x \in Part |-> v]
  <2>1. v \in View
    BY DEF View
  <2> HIDE DEF v
  <2>2. "view" \in Part
    BY DEF Part
  <2>3. IsPage(page)
    BY <2>1, <2>2 DEF IsPage
  <2> QED
    BY <2>3
<1>9. Proper(reply) /\ Utters(s, reply)
  BY <1>7, <1>8
<1> HIDE DEF reply, others
<1>10. Greets(r, o)
  BY <1>1, <1>2, <1>3, <1>5, <1>6, <1>7, <1>9 DEF Greets
<1> QED
  BY <1>10 DEF o, s

LEMMA HelloGreets ==
    ASSUME NEW r, IsRoom(r), IsTable(r), NEW m, IsHello(m), m.claim => ~r.claimSpent
    PROVE  LET o == Hello(r, m)
           IN  \/ Spoken(r, o) /\ o.reason # "none" /\ o.dismissed = Nobody /\ Faithful(r, o, Nobody)
               \/ Welcomed(r, m, o) /\ Greets(r, o)
<1> DEFINE returning == m.credential \in DOMAIN r.people
           p == IF returning THEN m.credential ELSE r.minted + 1
           self == IF returning
                   THEN [r.people[p] EXCEPT !.connected = TRUE, !.host = @ \/ m.claim, !.gen = @ + 1]
                   ELSE [connected |-> TRUE, host |-> m.claim, gen |-> 1]
           minted == IF returning THEN WithStory(r).minted ELSE WithStory(r).minted + 1
           s == WithNewcomer(r, p, self, minted, m.claim)
           o == Welcome(s, p, ~returning)
<1>1. Hello(r, m) = o \/ \E why \in {"wrong_password", "room_full", "spectators_disabled"} : Hello(r, m) = TurnedAway(r, why)
  BY DEF Hello, WithNewcomer
<1>2. CASE \E why \in {"wrong_password", "room_full", "spectators_disabled"} : Hello(r, m) = TurnedAway(r, why)
  BY <1>2, TurnedAwaySpoken, TurnedAwayFaithful
<1>3. CASE Hello(r, m) = o
  <2>1. Spoken(r, o) \/ Welcomed(r, m, o)
    BY <1>3, HelloSpoken
  <2>2. o.self = p /\ o.room = s
    BY DEF Welcome, Outcome
  <2>3. p # Nobody
    BY NobodyAssumption, SMTT(30) DEF IsRoom, IsHello
  <2>4. Welcomed(r, m, o)
    BY <2>1, <2>2, <2>3 DEF Spoken
  <2>5. IsRoom(s)
    BY <2>2, <2>4 DEF Welcomed
  <2>6. p \in DOMAIN r.people => self.gen = r.people[p].gen + 1
    <3> SUFFICES ASSUME p \in DOMAIN r.people PROVE self.gen = r.people[p].gen + 1
      OBVIOUS
    <3>1. returning
      BY DEF IsRoom
    <3>2. r.people[p] \in Person
      BY DEF IsRoom
    <3> HIDE DEF p, returning
    <3> QED
      BY <3>1, <3>2 DEF Person
  <2>7. p \notin DOMAIN r.people => self.gen = 1 /\ p = r.minted + 1
    OBVIOUS
  <2> HIDE DEF p, self, minted, returning
  <2>8. Greets(r, o)
    BY <2>5, <2>6, <2>7, WelcomeGreets
  <2> QED
    BY <1>3, <2>4, <2>8
<1> QED
  BY <1>1, <1>2, <1>3

-----------------------------------------------------------------------------
(* What a socket hears of an outcome.                                      *)

\* The frames of socket l, which was k and is h once it has heard an outcome:
\* what was under way, the reply if it is the sender's, and then a goodbye or
\* what is said to everybody.
HeardAs(o, k, h, l, from) ==
    LET carries == k.open /\ ~k.cut
    IN  \E down :
            /\ IF l = from /\ carries THEN down = k.down \o o.reply ELSE down = k.down
            /\ IF Dismisses(o, h, l, from)
               THEN h.down = down \/ \E code, reason : h.down = down \o <<CloseFrame(code, reason)>>
               ELSE IF h.pid # Nobody /\ carries THEN h.down = down \o Said(o, h.pid, l = from) ELSE h.down = down

LEMMA HearsHow ==
    ASSUME NEW l \in Link, IsLink(links[l]), NEW from, NEW o, Speech(o)
    PROVE  HeardAs(o, links[l], Hears(o, l, from), l, from)
<1> DEFINE k == links[l]
           h == Hears(o, l, from)
           carries == k.open /\ ~k.cut
           code == IF o.reason = "superseded" THEN "superseded" ELSE "refused"
           attached == IF l = from /\ o.self # Nobody
                       THEN [k EXCEPT !.pid = o.self, !.gen = o.room.people[o.self].gen] ELSE k
           replied == IF l = from THEN Sent(attached, o.reply) ELSE attached
           dismissed == Dismisses(o, attached, l, from)
           said == Said(o, attached.pid, l = from)
           down == IF l = from /\ carries THEN k.down \o o.reply ELSE k.down
<1>1. h = IF dismissed THEN ClosedByRoom(replied, code, o.reason)
          ELSE IF attached.pid = Nobody THEN replied ELSE Sent(replied, said)
  BY DEF Hears, Dismisses, Said
<1>2. /\ IsLink(attached) /\ attached.open = k.open /\ attached.cut = k.cut /\ attached.down = k.down
  <2>1. o.self # Nobody => o.self \in Nat \ {0} /\ o.room.people[o.self].gen \in Nat
    BY DEF Speech, IsRoom, Person
  <2> QED
    BY <2>1 DEF IsLink
<1>3. h.pid = attached.pid /\ h.gen = attached.gen
  <2>1. /\ h.pid = IF l = from /\ o.self # Nobody THEN o.self ELSE k.pid
        /\ h.gen = IF l = from /\ o.self # Nobody THEN o.room.people[o.self].gen ELSE k.gen
    BY HearsFacts
  <2> QED
    BY <2>1 DEF IsLink
<1> HIDE DEF attached, said
<1>4. /\ IsLink(replied) /\ replied.open = k.open /\ replied.cut = k.cut /\ replied.down = down
  <2>1. Proper(o.reply)
    BY DEF Speech
  <2>2. CASE l = from
    <3>1. IsLink(replied) /\ SameLink(attached, replied) /\ replied.open = attached.open
      BY <1>2, <2>1, <2>2, SentFacts
    <3>2. replied.down = down
      BY <1>2, <2>2 DEF Sent, IsLink
    <3> QED
      BY <1>2, <3>1, <3>2 DEF SameLink
  <2>3. CASE l # from
    BY <1>2, <2>3
  <2> QED
    BY <2>2, <2>3
<1> HIDE DEF replied
<1>5. dismissed <=> Dismisses(o, h, l, from)
  BY <1>3 DEF Dismisses
<1> HIDE DEF dismissed, down
<1>6. CASE dismissed
  <2> DEFINE f == CloseFrame(code, o.reason)
             s == Sent(replied, <<f>>)
  <2>1. s.down = down \/ s.down = down \o <<f>>
    BY <1>4 DEF Sent, IsLink
  <2>2. IsLink(s)
    BY <1>4, SentFacts, ProperFew
  <2>3. h = [s EXCEPT !.open = FALSE]
    BY <1>1, <1>6 DEF ClosedByRoom
  <2> HIDE DEF s, f, h
  <2>4. h.down = s.down
    BY <2>2, <2>3 DEF IsLink
  <2>5. h.down = down \/ \E cd, reason : h.down = down \o <<CloseFrame(cd, reason)>>
    BY <2>1, <2>4 DEF f
  <2>6. Dismisses(o, h, l, from)
    BY <1>5, <1>6 DEF h
  <2> QED
    BY <2>5, <2>6 DEF down, h, HeardAs
<1>7. CASE ~dismissed
  <2>1. h = IF h.pid = Nobody THEN replied ELSE Sent(replied, said)
    BY <1>1, <1>3, <1>7
  <2> HIDE DEF h
  <2>2. IF h.pid # Nobody /\ carries THEN h.down = down \o said ELSE h.down = down
    BY <1>4, <2>1 DEF Sent, IsLink
  <2>3. said = Said(o, h.pid, l = from)
    BY <1>3 DEF said
  <2>4. ~Dismisses(o, h, l, from)
    BY <1>5, <1>7 DEF h
  <2> QED
    BY <2>2, <2>3, <2>4 DEF down, h, HeardAs
<1> QED
  BY <1>6, <1>7

\* Folding what was under way, the reply and what is said.
LEMMA HearsOn ==
    ASSUME NEW l \in Link, IsLink(links[l]), NEW from, NEW o, Speech(o),
           LET h == Hears(o, l, from) IN h.open /\ ~h.cut /\ h.pid # Nobody,
           NEW page, NEW q, NEW x, NEW w,
           Becomes(page, links[l].down, q), Becomes(q, IF l = from THEN o.reply ELSE <<>>, x),
           Becomes(x, Said(o, Hears(o, l, from).pid, l = from), w)
    PROVE  Becomes(page, Hears(o, l, from).down, w)
<1> DEFINE k == links[l]
           h == Hears(o, l, from)
           said == Said(o, h.pid, l = from)
<1>1. k.open /\ ~k.cut /\ ~Dismisses(o, h, l, from)
  BY HearsFacts DEF SameLink
<1>2. PICK down : /\ IF l = from THEN down = k.down \o o.reply ELSE down = k.down
                  /\ h.down = down \o said
  <2>1. HeardAs(o, k, h, l, from)
    BY HearsHow
  <2> DEFINE carries == k.open /\ ~k.cut
  <2> HIDE DEF h
  <2>2. PICK down : /\ IF l = from /\ carries THEN down = k.down \o o.reply ELSE down = k.down
                    /\ IF Dismisses(o, h, l, from)
                       THEN h.down = down \/ \E code, reason : h.down = down \o <<CloseFrame(code, reason)>>
                       ELSE IF h.pid # Nobody /\ carries THEN h.down = down \o said ELSE h.down = down
    BY <2>1 DEF HeardAs
  <2> HIDE DEF said
  <2>3. h.pid # Nobody
    BY DEF h
  <2> QED
    BY <1>1, <2>2, <2>3
<1>3. Proper(k.down) /\ Proper(o.reply)
  BY DEF IsLink, Speech
<1>4. Proper(said)
  <2>1. o.room # Deleted
    BY <1>1 DEF Dismisses
  <2>2. Told(IF l = from THEN <<>> ELSE o.others)
    BY ToldEmpty DEF Speech
  <2>3. Told(IF o.views THEN PrivateView(o.room, h.pid) ELSE <<>>)
    BY <2>1, ToldEmpty, ViewTold DEF Speech
  <2>4. Told(o.tell)
    BY DEF Speech
  <2> HIDE DEF h
  <2>5. Told(said)
    BY <2>2, <2>3, <2>4, ToldConcat DEF Said
  <2> QED
    BY <2>5 DEF Told
<1> HIDE DEF h, said
<1>5. Proper(down) /\ Becomes(page, down, x)
  <2>1. CASE l = from
    <3>1. Becomes(q, o.reply, x)
      BY <2>1
    <3>2. Becomes(page, k.down \o o.reply, x)
      BY <1>3, <3>1, BecomesFurther
    <3>3. down = k.down \o o.reply
      BY <1>2, <2>1
    <3>4. Proper(k.down \o o.reply)
      BY <1>3, ProperConcat
    <3> QED
      BY <3>2, <3>3, <3>4
  <2>2. CASE l # from
    <3>1. x = q
      BY <2>2, BecomesNothing
    <3> QED
      BY <1>2, <1>3, <2>2, <3>1
  <2> QED
    BY <2>1, <2>2
<1>6. Becomes(x, said, w)
  BY DEF said, h
<1>7. Becomes(page, h.down, w)
  BY <1>2, <1>4, <1>5, <1>6, BecomesFurther
<1> QED
  BY <1>7 DEF h

\* Nobody hears nothing.
LEMMA NobodyHears ==
    ASSUME NEW l \in Link, IsLink(links[l]), NEW from, l # from, NEW o, Speech(o),
           LET h == Hears(o, l, from) IN h.open /\ ~h.cut /\ h.pid = Nobody
    PROVE  Hears(o, l, from).down = links[l].down
<1> DEFINE h == Hears(o, l, from)
<1>1. ~Dismisses(o, h, l, from)
  BY HearsFacts
<1>2. HeardAs(o, links[l], h, l, from)
  BY HearsHow
<1> HIDE DEF h
<1> QED
  BY <1>1, <1>2 DEF HeardAs, h

\* Every frame on its way was, or is a goodbye, or the room's.
LEMMA HearsFrames ==
    ASSUME NEW l \in Link, IsLink(links[l]), NEW from, NEW o, Speech(o),
           Utters(o.room, o.reply), Utters(o.room, o.tell), Utters(o.room, o.others),
           NEW f \in Range(Hears(o, l, from).down)
    PROVE  f \in Range(links[l].down) \/ f.type = "close" \/ (Uttered(o.room, f) /\ links[l].open)
<1> DEFINE k == links[l]
           h == Hears(o, l, from)
           said == Said(o, h.pid, l = from)
           carries == k.open /\ ~k.cut
<1>1. PICK down : /\ IF l = from /\ carries THEN down = k.down \o o.reply ELSE down = k.down
                  /\ IF Dismisses(o, h, l, from)
                     THEN h.down = down \/ \E code, reason : h.down = down \o <<CloseFrame(code, reason)>>
                     ELSE IF h.pid # Nobody /\ carries THEN h.down = down \o said ELSE h.down = down
  <2>1. HeardAs(o, k, h, l, from)
    BY HearsHow
  <2> HIDE DEF h
  <2> QED
    BY <2>1 DEF HeardAs
<1>2. Proper(k.down) /\ Proper(o.reply)
  BY DEF IsLink, Speech
<1>3. Proper(down) /\ \A g \in Range(down) : g \in Range(k.down) \/ (Uttered(o.room, g) /\ k.open)
  <2>1. CASE l = from /\ carries
    <3>1. down = k.down \o o.reply
      BY <1>1, <2>1
    <3>2. Proper(down) /\ Range(down) = Range(k.down) \cup Range(o.reply)
      BY <1>2, <3>1, ProperConcat
    <3>3. \A g \in Range(o.reply) : Uttered(o.room, g)
      BY DEF Utters, Uttered
    <3> QED
      BY <2>1, <3>2, <3>3
  <2>2. CASE ~(l = from /\ carries)
    <3>1. down = k.down
      BY <1>1, <2>2
    <3> QED
      BY <1>2, <3>1
  <2> QED
    BY <2>1, <2>2
<1>4. o.room # Deleted => Proper(said) /\ Utters(o.room, said)
  <2> SUFFICES ASSUME o.room # Deleted PROVE Proper(said) /\ Utters(o.room, said)
    OBVIOUS
  <2> DEFINE a == o.tell
             b == IF l = from THEN <<>> ELSE o.others
             v == IF o.views THEN PrivateView(o.room, h.pid) ELSE <<>>
  <2>1. IsRoom(o.room) /\ Proper(a) /\ Proper(o.others)
    BY DEF Speech, Told
  <2>2. Proper(b) /\ Utters(o.room, b)
    BY <2>1, ProperEmpty, UttersNothing
  <2> HIDE DEF h
  <2>3. Proper(v) /\ Utters(o.room, v)
    BY <2>1, ProperEmpty, UttersNothing, RoomUtters, ViewTold DEF Told
  <2>4. said = (a \o b) \o v
    BY DEF Said
  <2>5. Utters(o.room, a)
    OBVIOUS
  <2> HIDE DEF a, b, v, said
  <2>6. Proper(a \o b) /\ Utters(o.room, a \o b)
    BY <2>1, <2>2, <2>5, ProperConcat, UttersConcat
  <2> QED
    BY <2>3, <2>4, <2>6, ProperConcat, UttersConcat
<1>5. f \in Range(h.down)
  OBVIOUS
<1> HIDE DEF h, said
<1>6. CASE h.down = down
  BY <1>3, <1>5, <1>6
<1>7. CASE \E code, reason : h.down = down \o <<CloseFrame(code, reason)>>
  <2>1. PICK code, reason : h.down = down \o <<CloseFrame(code, reason)>>
    BY <1>7
  <2> DEFINE g == CloseFrame(code, reason)
  <2>2. Proper(<<g>>) /\ Range(<<g>>) = {g} /\ g.type = "close"
    BY ProperFew DEF CloseFrame
  <2> HIDE DEF g
  <2>3. Range(h.down) = Range(down) \cup {g}
    BY <1>3, <2>1, <2>2, ProperConcat DEF g
  <2> QED
    BY <1>3, <1>5, <2>2, <2>3
<1>8. CASE ~Dismisses(o, h, l, from) /\ carries /\ h.down = down \o said
  <2>1. o.room # Deleted
    BY <1>8 DEF Dismisses
  <2>2. Range(h.down) = Range(down) \cup Range(said)
    BY <1>3, <1>4, <1>8, <2>1, ProperConcat
  <2>3. \A g \in Range(said) : Uttered(o.room, g)
    BY <1>4, <2>1 DEF Utters, Uttered
  <2> QED
    BY <1>3, <1>5, <1>8, <2>2, <2>3
<1> QED
  BY <1>1, <1>6, <1>7, <1>8

-----------------------------------------------------------------------------
(* The invariant.                                                          *)

\* What is on its way fits, nobody is told anything before hello, and what
\* carries is listed.
Orderly(k) ==
    /\ \A f \in Range(k.down) : Fitting(f)
    /\ k.open /\ ~k.cut /\ k.pid = Nobody => k.down = <<>>
    /\ ~k.cut => k.listed

\* A listed socket that the room has not closed is of its identity's current
\* connection, and none is of a later one.
Seated(k, r) ==
    /\ k.listed /\ k.open /\ k.pid # Nobody => k.pid \in DOMAIN r.people /\ k.gen = r.people[k.pid].gen
    /\ k.listed /\ k.pid \in DOMAIN r.people => k.gen \in 1 .. r.people[k.pid].gen

\* Folding what is on its way gives what the room holds.
Catches(page, k, r) ==
    k.open /\ ~k.cut /\ k.pid # Nobody => \E q : Becomes(page, k.down, q) /\ Agrees(q, r, k.pid, k.gen)

Tables == \A c \in Code : Exists(c) => IsTable(rooms[c])
Order == \A l \in Used : Orderly(links[l])
Standing == \A l \in Used : Exists(links[l].code) => Seated(links[l], rooms[links[l].code])

\* No two listed sockets are of one connection.
Apart ==
    \A l, k \in Used : (/\ links[l].listed /\ links[k].listed /\ links[l].code = links[k].code
                        /\ links[l].pid # Nobody /\ links[l].pid = links[k].pid /\ links[l].gen = links[k].gen) => l = k
LinksInv == Tables /\ Order /\ Standing /\ Apart

PageShape == \A t \in Tab : current[t] # 0 => IsPage(pages[t])

\* Whoever is connected was told who they are, on the socket they have.
Arrived ==
    \A x \in Drivers : DriverAt(x).status = "connected" =>
        DriverAt(x).socket # NoSocket /\ links[DriverAt(x).socket].pid # Nobody

\* The page of socket l, if it shows what comes over it.
Follower(l) == links[l].heard /\ current[links[l].driver[1]] = links[l].driver[2]
Following ==
    \A l \in Used : Follower(l) => Catches(pages[links[l].driver[1]], links[l], rooms[links[l].code])

PageInv == LinksInv /\ PageShape /\ Arrived /\ Following

\* What the invariants say of one socket of a room.
LEMMA LinkFacts ==
    ASSUME SessionInv, PageInv, NEW l \in Used
    PROVE  /\ l \in Link /\ Faultless(links[l]) /\ IsLink(links[l]) /\ Orderly(links[l])
           /\ links[l].code \in Code /\ links[l].driver \in Drivers
           /\ Exists(links[l].code) => /\ IsRoom(rooms[links[l].code]) /\ IsTable(rooms[links[l].code])
                                       /\ Seated(links[l], rooms[links[l].code])
           /\ ~Exists(links[l].code) => rooms[links[l].code] = Deleted
<1>1. l \in Link /\ Faultless(links[l]) /\ IsLink(links[l]) /\ links[l].code \in Code /\ Orderly(links[l])
  BY DEF Used, SessionInv, Sockets, Faultless, IsLink, PageInv, LinksInv, Order
<1>2. links[l].driver \in Drivers /\ links[l].code \in shared
  BY DEF SessionInv, References
<1>3. rooms[links[l].code] # Unmade
  BY <1>2 DEF SessionInv, Shapes
<1>4. Exists(links[l].code) => IsRoom(rooms[links[l].code])
  BY <1>1, RoomShape DEF SessionInv
<1>5. Exists(links[l].code) => IsTable(rooms[links[l].code]) /\ Seated(links[l], rooms[links[l].code])
  BY <1>1 DEF PageInv, LinksInv, Tables, Standing
<1>6. ~Exists(links[l].code) => rooms[links[l].code] = Deleted
  BY <1>1, <1>3 DEF SessionInv, Shapes
<1> QED
  BY <1>1, <1>2, <1>4, <1>5, <1>6

-----------------------------------------------------------------------------
(* A socket hears of what its room does.                                   *)

\* Socket k of room r has become h of room s.
Turns(k, r, h, s) ==
    /\ Orderly(h)
    /\ s = Deleted => ~h.open
    /\ s # Deleted => /\ Seated(h, s)
                      /\ \A page : IsPage(page) /\ Catches(page, k, r) => Catches(page, h, s)

\* The room is gone, and its sockets are closed.
LEMMA DeletedTurns ==
    ASSUME NEW l \in Link, IsLink(links[l]), Orderly(links[l]), NEW r, NEW from, NEW o, Speech(o),
           o.room = Deleted, Utters(o.room, o.reply), Utters(o.room, o.tell), Utters(o.room, o.others)
    PROVE  Turns(links[l], r, Hears(o, l, from), o.room)
<1> DEFINE k == links[l]
           h == Hears(o, l, from)
<1>1. SameLink(k, h) /\ ~h.open
  BY HearsFacts DEF Dismisses
<1>2. \A f \in Range(h.down) : f \in Range(k.down) \/ f.type = "close" \/ (Uttered(o.room, f) /\ k.open)
  BY HearsFrames
<1> HIDE DEF h
<1>3. \A f \in Range(h.down) : Fitting(f)
  BY <1>2 DEF Orderly, Uttered, Fitting
<1>4. Orderly(h)
  BY <1>1, <1>3 DEF Orderly, SameLink
<1> QED
  BY <1>1, <1>4 DEF Turns, h

\* The room goes on, by what identity who says, or nobody.
LEMMA SpokenTurns ==
    ASSUME NEW l \in Link, IsLink(links[l]), Orderly(links[l]), NEW r, IsRoom(r), Seated(links[l], r),
           NEW from, NEW o, Spoken(r, o), o.room # Deleted, NEW who, Faithful(r, o, who), links[l].listed,
           l = from /\ Hears(o, l, from).open => links[l].pid # Nobody /\ links[l].pid = who,
           l # from /\ links[l].open /\ who # Nobody /\ links[l].pid = who => links[l].gen > 1
    PROVE  Turns(links[l], r, Hears(o, l, from), o.room)
<1> DEFINE k == links[l]
           h == Hears(o, l, from)
           s == o.room
<1>1. Speech(o) /\ o.self = Nobody /\ IsRoom(s)
  BY SpokenSpeech DEF Spoken, Kept
<1>2. /\ IsLink(h) /\ SameLink(k, h) /\ h.pid = k.pid /\ h.gen = k.gen
      /\ h.open <=> k.open /\ ~Dismisses(o, h, l, from)
  BY <1>1, HearsFacts
<1>3. /\ Utters(s, o.reply) /\ Utters(s, o.tell) /\ Utters(s, o.others) /\ Stands(r, o) /\ Informs(r, o, who)
  BY DEF Faithful
<1>4. \A f \in Range(h.down) : f \in Range(k.down) \/ f.type = "close" \/ (Uttered(s, f) /\ k.open)
  BY <1>1, <1>3, HearsFrames
<1>5. l # from /\ h.open /\ ~h.cut /\ h.pid = Nobody => h.down = k.down
  BY <1>1, NobodyHears
<1>6. ASSUME h.open, ~h.cut, h.pid # Nobody,
             NEW page, NEW q, NEW x, NEW w,
             Becomes(page, k.down, q), Becomes(q, IF l = from THEN o.reply ELSE <<>>, x),
             Becomes(x, Said(o, h.pid, l = from), w)
      PROVE  Becomes(page, h.down, w)
  BY <1>1, <1>6, HearsOn
<1>7. l = from /\ h.open => k.pid # Nobody /\ k.pid = who
  OBVIOUS
<1> HIDE DEF h
<1>8. Orderly(h)
  <2>1. \A f \in Range(h.down) : Fitting(f)
    BY <1>4 DEF Orderly, Uttered, Fitting
  <2>2. h.open /\ ~h.cut /\ h.pid = Nobody => h.down = <<>>
    BY <1>2, <1>5, <1>7 DEF Orderly, SameLink
  <2> QED
    BY <1>2, <2>1, <2>2 DEF Orderly, SameLink
<1>9. ASSUME k.pid # Nobody, h.open PROVE k.pid \in DOMAIN r.people /\ k.pid \in DOMAIN s.people
                                          /\ k.gen = r.people[k.pid].gen
  <2>1. k.pid \in DOMAIN r.people /\ k.gen = r.people[k.pid].gen
    BY <1>2, <1>9 DEF Seated
  <2>2. k.pid \notin DOMAIN s.people => o.dismissed = k.pid /\ k.gen < o.below
    BY <1>3, <2>1 DEF Stands
  <2>3. k.pid \in DOMAIN s.people
    BY <1>2, <1>9, <2>2 DEF Dismisses
  <2> QED
    BY <2>1, <2>3
<1>10. Seated(h, s)
  <2>1. \A p \in DOMAIN s.people : p \in DOMAIN r.people /\ s.people[p].gen = r.people[p].gen
    BY <1>3 DEF Stands
  <2>2. h.listed /\ h.open /\ h.pid # Nobody => h.pid \in DOMAIN s.people /\ h.gen = s.people[h.pid].gen
    BY <1>2, <1>9, <2>1
  <2>3. h.listed /\ h.pid \in DOMAIN s.people => h.gen \in 1 .. s.people[h.pid].gen
    BY <1>2, <2>1 DEF Seated, SameLink
  <2> QED
    BY <2>2, <2>3 DEF Seated
<1>11. ASSUME NEW page, Catches(page, k, r), h.open, ~h.cut, h.pid # Nobody
       PROVE  \E w : Becomes(page, h.down, w) /\ Agrees(w, s, h.pid, h.gen)
  <2>1. k.open /\ ~k.cut /\ k.pid # Nobody
    BY <1>2, <1>11 DEF SameLink
  <2>2. PICK q : Becomes(page, k.down, q) /\ Agrees(q, r, k.pid, k.gen)
    BY <1>11, <2>1 DEF Catches
  <2>3. k.pid \in Nat \ {0} /\ k.gen \in Nat
    BY <2>1 DEF IsLink
  <2>4. CASE l = from
    <3>1. k.pid = who
      BY <1>7, <1>11, <2>4
    <3>2. Brings(r, o, k.pid, k.gen, TRUE)
      BY <1>3, <2>3, <3>1 DEF Informs
    <3>3. PICK x, w : /\ Becomes(q, IF TRUE THEN o.reply ELSE <<>>, x)
                      /\ Becomes(x, Said(o, k.pid, TRUE), w) /\ Agrees(w, s, k.pid, k.gen)
      BY <2>2, <3>2 DEF Brings
    <3>4. Said(o, k.pid, TRUE) = Said(o, k.pid, l = from)
      BY <2>4 DEF Said
    <3>5. Becomes(q, IF l = from THEN o.reply ELSE <<>>, x)
      BY <2>4, <3>3
    <3>6. Becomes(x, Said(o, h.pid, l = from), w)
      BY <1>2, <3>3, <3>4
    <3>7. Becomes(page, h.down, w)
      BY <1>6, <1>11, <2>2, <3>5, <3>6
    <3> QED
      BY <1>2, <3>3, <3>7
  <2>5. CASE l # from
    <3>1. k.pid = who => k.gen > 1
      BY <2>1, <2>5
    <3>2. Brings(r, o, k.pid, k.gen, FALSE)
      BY <1>3, <2>3, <3>1 DEF Informs
    <3>3. PICK x, w : /\ Becomes(q, IF FALSE THEN o.reply ELSE <<>>, x)
                      /\ Becomes(x, Said(o, k.pid, FALSE), w) /\ Agrees(w, s, k.pid, k.gen)
      BY <2>2, <3>2 DEF Brings
    <3>4. Said(o, k.pid, FALSE) = Said(o, k.pid, l = from)
      BY <2>5 DEF Said
    <3>5. Becomes(q, IF l = from THEN o.reply ELSE <<>>, x)
      BY <2>5, <3>3
    <3>6. Becomes(x, Said(o, h.pid, l = from), w)
      BY <1>2, <3>3, <3>4
    <3>7. Becomes(page, h.down, w)
      BY <1>6, <1>11, <2>2, <3>5, <3>6
    <3> QED
      BY <1>2, <3>3, <3>7
  <2> QED
    BY <2>4, <2>5
<1>12. \A page : Catches(page, k, r) => Catches(page, h, s)
  BY <1>11 DEF Catches
<1> QED
  BY <1>8, <1>10, <1>12 DEF Turns, h

\* A hello makes a connection that no other socket is of: those of its
\* identity are of earlier ones, and an identity that is new has none.
LEMMA NewConnection ==
    ASSUME SessionInv, PageInv, NEW from \in Used, NEW c \in Code, c = links[from].code, Exists(c),
           NEW o, Greets(rooms[c], o), o.self \in Nat \ {0},
           NEW l \in Used, links[l].code = c, links[l].listed, links[l].pid = o.self
    PROVE  /\ o.self \in DOMAIN rooms[c].people
           /\ links[l].gen \in 1 .. rooms[c].people[o.self].gen /\ links[l].gen < o.below
<1> DEFINE p == o.self
           b == Home(links[l].driver)
<1>1. IsRoom(rooms[c]) /\ rooms[c].minted \in Nat /\ Seated(links[l], rooms[c])
  BY RoomShape, LinkFacts DEF SessionInv
<1>2. links[l].driver \in Drivers
  BY DEF SessionInv, References
<1>3. b \in Browser
  BY <1>2, DriverShape DEF SessionInv, Shapes, Home
<1>4. Knows(b, c, p)
  BY DEF Knows, Tells, Home
<1>5. p <= rooms[c].minted
  BY <1>3, <1>4 DEF SessionInv, Owners
<1>6. p \in DOMAIN rooms[c].people
  BY <1>1, <1>5 DEF Greets
<1>7. links[l].gen \in 1 .. rooms[c].people[p].gen /\ rooms[c].people[p].gen \in Nat
  BY <1>1, <1>6 DEF Seated, IsRoom, Person
<1>8. o.below = rooms[c].people[p].gen + 1
  BY <1>6 DEF Greets
<1> QED
  BY <1>6, <1>7, <1>8

\* What is said besides the reply to a hello.
LEMMA SaidToOthers ==
    ASSUME NEW o, o.tell = <<>>, o.views = FALSE, Proper(o.others), NEW p, NEW mine
    PROVE  Said(o, p, mine) = IF mine THEN <<>> ELSE o.others
<1> DEFINE b == IF mine THEN <<>> ELSE o.others
<1>1. Proper(b)
  BY ProperEmpty
<1>2. Said(o, p, mine) = (<<>> \o b) \o <<>>
  BY DEF Said
<1> HIDE DEF b
<1>3. b \in Seq(Range(b))
  BY <1>1 DEF Proper
<1>4. <<>> \o b = b /\ b \o <<>> = b
  BY <1>3
<1>5. Said(o, p, mine) = b
  BY <1>2, <1>4
<1> QED
  BY <1>5 DEF b

\* The socket that says hello.
LEMMA NewcomerTurns ==
    ASSUME NEW l \in Link, IsLink(links[l]), Orderly(links[l]), links[l].open, links[l].pid = Nobody, links[l].listed,
           NEW r, NEW o, Speech(o), o.self \in Nat \ {0}, Greets(r, o)
    PROVE  Turns(links[l], r, Hears(o, l, l), o.room)
<1> DEFINE k == links[l]
           h == Hears(o, l, l)
           s == o.room
           p == o.self
<1>1. IsRoom(s) /\ s # Deleted /\ p \in DOMAIN s.people /\ p # Nobody
  BY RoomExists, NobodyAssumption DEF Greets
<1>2. s.people[p].gen \in Nat \ {0} /\ o.below = s.people[p].gen /\ o.dismissed = p /\ Proper(o.others)
  BY <1>1 DEF IsRoom, Person, Greets
<1>3. /\ IsLink(h) /\ SameLink(k, h) /\ h.pid = p /\ h.gen = s.people[p].gen
      /\ h.open <=> k.open /\ ~Dismisses(o, h, l, l)
  BY <1>1, HearsFacts
<1>4. \A f \in Range(h.down) : f \in Range(k.down) \/ f.type = "close" \/ (Uttered(s, f) /\ k.open)
  <2>1. Utters(s, o.reply) /\ Utters(s, o.tell) /\ Utters(s, o.others)
    BY UttersNothing DEF Greets
  <2> QED
    BY <2>1, HearsFrames
<1>5. ASSUME h.open, ~h.cut, h.pid # Nobody,
             NEW page, NEW q, NEW x, NEW w,
             Becomes(page, k.down, q), Becomes(q, IF l = l THEN o.reply ELSE <<>>, x),
             Becomes(x, Said(o, h.pid, l = l), w)
      PROVE  Becomes(page, h.down, w)
  BY <1>5, HearsOn
<1> HIDE DEF h
<1>6. \A f \in Range(h.down) : Fitting(f)
  BY <1>4 DEF Orderly, Uttered, Fitting
<1>7. Orderly(h)
  BY <1>1, <1>3, <1>6 DEF Orderly, SameLink
<1>8. Seated(h, s)
  <2>1. h.gen \in 1 .. s.people[p].gen
    BY <1>2, <1>3
  <2> QED
    BY <1>1, <1>3, <2>1 DEF Seated
<1>9. ASSUME NEW page, IsPage(page), h.open, ~h.cut PROVE \E w : Becomes(page, h.down, w) /\ Agrees(w, s, h.pid, h.gen)
  <2>1. k.down = <<>>
    BY <1>3, <1>9 DEF Orderly, SameLink
  <2>2. Becomes(page, k.down, page)
    BY <2>1, BecomesItself
  <2>3. PICK x : Becomes(page, o.reply, x) /\ Agrees(x, s, p, h.gen)
    BY <1>9 DEF Greets
  <2>4. Said(o, p, TRUE) = <<>>
    BY <1>2, SaidToOthers DEF Greets
  <2>5. Becomes(x, Said(o, p, TRUE), x)
    BY <2>4, BecomesItself
  <2>6. Said(o, h.pid, l = l) = Said(o, p, TRUE)
    BY <1>3 DEF Said
  <2>7. Becomes(x, Said(o, h.pid, l = l), x)
    BY <2>5, <2>6
  <2>8. Becomes(page, IF l = l THEN o.reply ELSE <<>>, x)
    BY <2>3
  <2>9. h.pid # Nobody
    BY <1>1, <1>3
  <2>10. Becomes(page, h.down, x)
    BY <1>5, <1>9, <2>2, <2>7, <2>8, <2>9
  <2> QED
    BY <1>3, <2>3, <2>10
<1>10. \A page : IsPage(page) => Catches(page, h, s)
  BY <1>9 DEF Catches
<1> QED
  BY <1>1, <1>7, <1>8, <1>10 DEF Turns, h

\* The other sockets of the room: those of the newcomer are closed, all others
\* hear who is there.
LEMMA OthersTurn ==
    ASSUME NEW l \in Link, IsLink(links[l]), Orderly(links[l]), links[l].listed, NEW from, l # from,
           NEW r, IsRoom(r), Seated(links[l], r), NEW o, Speech(o), o.self \in Nat \ {0}, Greets(r, o),
           links[l].pid = o.self => /\ o.self \in DOMAIN r.people
                                    /\ links[l].gen \in 1 .. r.people[o.self].gen /\ links[l].gen < o.below
    PROVE  Turns(links[l], r, Hears(o, l, from), o.room)
<1> DEFINE k == links[l]
           h == Hears(o, l, from)
           s == o.room
           p == o.self
<1>1. IsRoom(s) /\ s # Deleted /\ p \in DOMAIN s.people /\ p # Nobody
  BY RoomExists, NobodyAssumption DEF Greets
<1>2. o.dismissed = p /\ Proper(o.others) /\ DOMAIN s.people = DOMAIN r.people \cup {p}
  BY DEF Greets
<1>3. /\ IsLink(h) /\ SameLink(k, h) /\ h.pid = k.pid /\ h.gen = k.gen
      /\ h.open <=> k.open /\ ~Dismisses(o, h, l, from)
  BY HearsFacts
<1>4. \A f \in Range(h.down) : f \in Range(k.down) \/ f.type = "close" \/ (Uttered(s, f) /\ k.open)
  <2>1. Utters(s, o.reply) /\ Utters(s, o.tell) /\ Utters(s, o.others)
    BY UttersNothing DEF Greets
  <2> QED
    BY <2>1, HearsFrames
<1>5. ASSUME h.open, ~h.cut, h.pid # Nobody,
             NEW page, NEW q, NEW x, NEW w,
             Becomes(page, k.down, q), Becomes(q, IF l = from THEN o.reply ELSE <<>>, x),
             Becomes(x, Said(o, h.pid, l = from), w)
      PROVE  Becomes(page, h.down, w)
  BY <1>5, HearsOn
<1>6. h.open /\ ~h.cut /\ h.pid = Nobody => h.down = k.down
  BY NobodyHears
<1>7. h.open => k.open /\ k.pid # p
  BY <1>1, <1>2, <1>3 DEF Dismisses
<1> HIDE DEF h
<1>8. Orderly(h)
  <2>1. \A f \in Range(h.down) : Fitting(f)
    BY <1>4 DEF Orderly, Uttered, Fitting
  <2> QED
    BY <1>3, <1>6, <2>1 DEF Orderly, SameLink
<1>9. \A q \in DOMAIN r.people \ {p} : s.people[q].gen = r.people[q].gen
  BY DEF Greets
<1>10. Seated(h, s)
  <2>1. h.open /\ h.pid # Nobody => h.pid \in DOMAIN s.people /\ h.gen = s.people[h.pid].gen
    BY <1>2, <1>3, <1>7, <1>9 DEF Seated
  <2>2. h.pid \in DOMAIN s.people => h.gen \in 1 .. s.people[h.pid].gen
    <3>1. CASE k.pid = p
      <4>1. s.people[p].gen = r.people[p].gen + 1 /\ r.people[p].gen \in Nat /\ k.gen \in 1 .. r.people[p].gen
        BY <3>1 DEF Greets, IsRoom, Person
      <4> QED
        BY <1>3, <3>1, <4>1
    <3>2. CASE k.pid # p
      BY <1>2, <1>3, <1>9, <3>2 DEF Seated
    <3> QED
      BY <3>1, <3>2
  <2> QED
    BY <2>1, <2>2 DEF Seated
<1>11. ASSUME NEW page, Catches(page, k, r), h.open, ~h.cut, h.pid # Nobody
       PROVE  \E w : Becomes(page, h.down, w) /\ Agrees(w, s, h.pid, h.gen)
  <2>1. k.open /\ ~k.cut /\ k.pid # Nobody
    BY <1>3, <1>11 DEF SameLink
  <2>2. PICK q : Becomes(page, k.down, q) /\ Agrees(q, r, k.pid, k.gen)
    BY <1>11, <2>1 DEF Catches
  <2>3. k.pid \in Nat \ {0} /\ k.gen \in Nat
    BY <2>1 DEF IsLink
  <2>4. PICK w : Becomes(q, o.others, w) /\ Agrees(w, s, k.pid, k.gen)
    BY <2>2, <2>3 DEF Greets, Leads
  <2>5. Said(o, k.pid, l = from) = o.others
    <3>1. Said(o, k.pid, FALSE) = o.others
      BY <1>2, SaidToOthers DEF Greets
    <3>2. Said(o, k.pid, l = from) = Said(o, k.pid, FALSE)
      BY DEF Said
    <3> QED
      BY <3>1, <3>2
  <2>6. Becomes(q, Said(o, h.pid, l = from), w)
    BY <1>3, <2>4, <2>5
  <2>7. Becomes(q, IF l = from THEN o.reply ELSE <<>>, q)
    BY BecomesItself
  <2>8. Becomes(page, h.down, w)
    BY <1>5, <1>11, <2>2, <2>6, <2>7
  <2> QED
    BY <1>3, <2>4, <2>8
<1>12. \A page : Catches(page, k, r) => Catches(page, h, s)
  BY <1>11, SMTT(30) DEF Catches
<1> QED
  BY <1>1, <1>8, <1>10, <1>12 DEF Turns, h

\* A hello is let in.
LEMMA WelcomedTurns ==
    ASSUME SessionInv, PageInv, NEW from \in Used, Unread(links[from]), NEW c \in Code, c = links[from].code,
           Exists(c), links[from].listed, NEW m, NEW o, Welcomed(rooms[c], m, o), Greets(rooms[c], o),
           NEW l \in Used, links[l].code = c, links[l].listed
    PROVE  Turns(links[l], rooms[c], Hears(o, l, from), o.room)
<1>1. Speech(o) /\ o.self \in Nat \ {0}
  BY WelcomedSpeech DEF Welcomed, IsRoom
<1>2. l \in Link /\ IsLink(links[l]) /\ Orderly(links[l]) /\ Seated(links[l], rooms[c]) /\ IsRoom(rooms[c])
  BY LinkFacts
<1>3. CASE l = from
  BY <1>1, <1>2, <1>3, NewcomerTurns DEF Unread
<1>4. CASE l # from
  <2>1. links[l].pid = o.self => /\ o.self \in DOMAIN rooms[c].people
                                 /\ links[l].gen \in 1 .. rooms[c].people[o.self].gen /\ links[l].gen < o.below
    BY <1>1, NewConnection
  <2> QED
    BY <1>1, <1>2, <1>4, <2>1, OthersTurn
<1> QED
  BY <1>3, <1>4

-----------------------------------------------------------------------------
(* A room does something.                                                  *)

\* Of socket g nothing has changed but what it has still to send, and that it
\* may no longer be listed once it is cut.
Rests(g, n) ==
    /\ n.code = g.code /\ n.driver = g.driver /\ n.pid = g.pid /\ n.gen = g.gen
    /\ n.open = g.open /\ n.heard = g.heard /\ n.cut = g.cut /\ n.down = g.down
    /\ n.listed => g.listed
    /\ ~n.cut => n.listed = g.listed

\* No two sockets of room c are of one connection when they have heard o.
KeepsApart(c, o, from) ==
    \A l, k \in Used :
        (/\ links[l].code = c /\ links[l].listed /\ links[k].code = c /\ links[k].listed
         /\ Hears(o, l, from).pid # Nobody /\ Hears(o, l, from).pid = Hears(o, k, from).pid
         /\ Hears(o, l, from).gen = Hears(o, k, from).gen) => l = k

LEMMA RoomTurns ==
    ASSUME SessionInv, SessionInv', PageInv, UNCHANGED <<drivers, current, pages>>,
           NEW c \in Code, NEW o, Speech(o), rooms' = [rooms EXCEPT ![c] = o.room],
           o.room # Deleted => IsTable(o.room),
           NEW from,
           \A l \in Used' : l \in Used /\ Rests(Announced(c, o, from)[l], links'[l]),
           \A l \in Used : links[l].code = c /\ links[l].listed =>
               Turns(links[l], rooms[c], Hears(o, l, from), o.room),
           KeepsApart(c, o, from)
    PROVE  PageInv'
<1> DEFINE Mine(l) == links[l].code = c /\ links[l].listed
           h(l) == Hears(o, l, from)
<1>1. /\ rooms'[c] = o.room /\ \A d \in Code \ {c} : rooms'[d] = rooms[d]
      /\ Drivers' = Drivers /\ \A x : DriverAt(x)' = DriverAt(x)
  BY DEF SessionInv, Shapes, Drivers, DriverAt
<1>2. /\ Exists(c)' => o.room # Deleted
      /\ \A d \in Code \ {c} : Exists(d)' <=> Exists(d)
  BY <1>1 DEF Exists, Deleted
<1>3. ASSUME NEW l \in Used
      PROVE  /\ l \in Link /\ IsLink(links[l]) /\ links[l].code \in Code /\ Orderly(links[l])
             /\ links[l].driver \in Drivers
             /\ Exists(links[l].code) => Seated(links[l], rooms[links[l].code])
             /\ Mine(l) => /\ SameLink(links[l], h(l)) /\ (links[l].pid # Nobody => h(l).pid # Nobody)
                           /\ Turns(links[l], rooms[c], h(l), o.room)
  <2>1. l \in Link /\ IsLink(links[l])
    BY LinkFacts
  <2>2. SameLink(links[l], h(l)) /\ (links[l].pid # Nobody => h(l).pid # Nobody)
    BY <2>1, HearsFacts
  <2> HIDE DEF h
  <2> QED
    BY <2>1, <2>2, LinkFacts DEF h
<1>4. ASSUME NEW l \in Used'
      PROVE  l \in Used /\ Rests(IF Mine(l) THEN h(l) ELSE links[l], links'[l])
  <2>1. l \in Used /\ l \in Link /\ Rests(Announced(c, o, from)[l], links'[l])
    BY <1>3
  <2>2. Announced(c, o, from)[l] = IF Mine(l) THEN h(l) ELSE links[l]
    BY <2>1 DEF Announced
  <2> HIDE DEF h, Mine
  <2> QED
    BY <2>1, <2>2
<1> HIDE DEF h
<1>5. ASSUME NEW l \in Used', Mine(l)
      PROVE  /\ Rests(h(l), links'[l]) /\ SameLink(links[l], h(l))
             /\ Turns(links[l], rooms[c], h(l), o.room) /\ Orderly(h(l))
             /\ links'[l].code = c /\ links'[l].driver = links[l].driver /\ links'[l].heard = links[l].heard
  <2>1. l \in Used /\ Rests(h(l), links'[l])
    BY <1>4, <1>5
  <2>2. SameLink(links[l], h(l)) /\ Turns(links[l], rooms[c], h(l), o.room)
    BY <1>3, <1>5, <2>1
  <2> QED
    BY <1>5, <2>1, <2>2 DEF Rests, SameLink, Turns
<1>6. ASSUME NEW l \in Used', ~Mine(l)
      PROVE  Rests(links[l], links'[l])
  BY <1>4, <1>6
<1> HIDE DEF Mine
<1>7. Tables'
  BY <1>1, <1>2 DEF Tables, PageInv, LinksInv
<1>8. Order'
  <2> SUFFICES ASSUME NEW l \in Used' PROVE Orderly(links'[l])
    BY DEF Order, Orderly
  <2>1. PICK g : Rests(g, links'[l]) /\ Orderly(g)
    BY <1>3, <1>4, <1>5, <1>6
  <2> QED
    BY <2>1 DEF Rests, Orderly
<1>9. Standing'
  <2> SUFFICES ASSUME NEW l \in Used', rooms'[links'[l].code].phase \notin {"unmade", "gone"}
               PROVE  Seated(links'[l], rooms'[links'[l].code])
    BY DEF Standing, Exists, Seated
  <2>1. CASE Mine(l)
    <3>1. Rests(h(l), links'[l]) /\ links'[l].code = c /\ Turns(links[l], rooms[c], h(l), o.room)
      BY <1>5, <2>1
    <3>2. o.room # Deleted
      BY <1>1, <3>1 DEF Deleted
    <3>3. Seated(h(l), o.room)
      BY <3>1, <3>2 DEF Turns
    <3> QED
      BY <1>1, <3>1, <3>3 DEF Seated, Rests
  <2>2. CASE ~Mine(l)
    <3>1. l \in Used /\ Rests(links[l], links'[l])
      BY <1>4, <1>6, <2>2
    <3>2. CASE links[l].code = c
      <4>1. ~links'[l].listed
        BY <2>2, <3>1, <3>2 DEF Rests, Mine
      <4> QED
        BY <4>1 DEF Seated
    <3>3. CASE links[l].code # c
      <4>1. links'[l].code = links[l].code /\ links[l].code \in Code \ {c}
        BY <1>3, <3>1, <3>3 DEF Rests
      <4>2. Seated(links[l], rooms[links[l].code])
        BY <1>1, <1>3, <3>1, <4>1 DEF Exists
      <4> QED
        BY <1>1, <3>1, <4>1, <4>2 DEF Seated, Rests
    <3> QED
      BY <3>2, <3>3
  <2> QED
    BY <2>1, <2>2
<1>10. Apart'
  <2> SUFFICES ASSUME NEW l \in Used', NEW k \in Used', links'[l].listed, links'[k].listed,
                      links'[l].code = links'[k].code, links'[l].pid # Nobody,
                      links'[l].pid = links'[k].pid, links'[l].gen = links'[k].gen
               PROVE  l = k
    BY DEF Apart
  <2>1. l \in Used /\ k \in Used
    BY <1>4
  <2>2. ASSUME NEW j \in Used', links'[j].listed
        PROVE  links[j].listed /\ links'[j].code = links[j].code /\ (links[j].code = c => Mine(j))
    BY <1>5, <1>6, <2>2 DEF Rests, Mine
  <2>3. CASE links[l].code = c
    <3>1. Mine(l) /\ Mine(k)
      BY <2>2, <2>3
    <3>2. /\ h(l).pid = links'[l].pid /\ h(l).gen = links'[l].gen
          /\ h(k).pid = links'[k].pid /\ h(k).gen = links'[k].gen
      BY <1>5, <3>1 DEF Rests
    <3> QED
      BY <2>1, <3>1, <3>2 DEF KeepsApart, Mine, h
  <2>4. CASE links[l].code # c
    <3>1. ~Mine(l) /\ ~Mine(k) /\ links[l].code = links[k].code /\ links[l].listed /\ links[k].listed
      BY <2>2, <2>4 DEF Mine
    <3>2. /\ links[l].pid = links'[l].pid /\ links[l].gen = links'[l].gen
          /\ links[k].pid = links'[k].pid /\ links[k].gen = links'[k].gen
      BY <1>6, <3>1 DEF Rests
    <3> QED
      BY <2>1, <3>1, <3>2 DEF PageInv, LinksInv, Apart
  <2> QED
    BY <2>3, <2>4
<1>11. PageShape'
  BY DEF PageShape, PageInv
<1>12. Arrived'
  <2> SUFFICES ASSUME NEW x \in Drivers, DriverAt(x).status = "connected"
               PROVE  DriverAt(x).socket # NoSocket /\ links'[DriverAt(x).socket].pid # Nobody
    BY <1>1 DEF Arrived
  <2> DEFINE l == DriverAt(x).socket
  <2>1. l # NoSocket /\ links[l].pid # Nobody /\ l \in Link
    BY DriverShape DEF PageInv, Arrived, SessionInv, IsDriver
  <2>2. l \in Used'
    BY <1>1, <2>1 DEF SessionInv, References, Used
  <2> HIDE DEF l
  <2>3. CASE Mine(l)
    <3>1. l \in Used
      BY <1>4, <2>2
    <3>2. h(l).pid # Nobody
      BY <1>3, <2>1, <2>3, <3>1
    <3>3. links'[l].pid = h(l).pid
      BY <1>5, <2>2, <2>3 DEF Rests
    <3> QED
      BY <2>1, <3>2, <3>3 DEF l
  <2>4. CASE ~Mine(l)
    BY <1>6, <2>1, <2>2, <2>4 DEF Rests, l
  <2> QED
    BY <2>3, <2>4
<1>13. Following'
  <2> SUFFICES ASSUME NEW l \in Used', Follower(l)'
               PROVE  Catches(pages[links'[l].driver[1]], links'[l], rooms'[links'[l].code])
    BY DEF Following, Catches
  <2>1. /\ l \in Used /\ links'[l].driver = links[l].driver /\ links'[l].heard = links[l].heard
        /\ links'[l].code = links[l].code
    BY <1>4, <1>5, <1>6 DEF Rests, Mine
  <2> DEFINE t == links[l].driver[1]
  <2>2. Catches(pages[t], links[l], rooms[links[l].code]) /\ IsPage(pages[t])
    <3>1. Follower(l)
      BY <2>1 DEF Follower
    <3>2. t \in Tab /\ links[l].driver[2] # 0
      BY <1>3, <2>1, DriverShape DEF SessionInv
    <3> QED
      BY <2>1, <3>1, <3>2 DEF PageInv, Following, PageShape, Follower
  <2>3. CASE Mine(l)
    <3>1. Rests(h(l), links'[l]) /\ Turns(links[l], rooms[c], h(l), o.room)
      BY <1>5, <2>3
    <3>2. CASE o.room = Deleted
      BY <3>1, <3>2 DEF Turns, Rests, Catches
    <3>3. CASE o.room # Deleted
      <4>1. Catches(pages[t], h(l), o.room)
        BY <2>2, <2>3, <3>1, <3>3 DEF Turns, Mine
      <4> QED
        BY <1>1, <2>1, <2>3, <3>1, <4>1 DEF Catches, Rests, Mine
    <3> QED
      BY <3>2, <3>3
  <2>4. CASE ~Mine(l) /\ links[l].code = c
    <3>1. links'[l].cut
      BY <1>3, <1>6, <2>1, <2>4 DEF Orderly, Mine, Rests
    <3> QED
      BY <3>1 DEF Catches
  <2>5. CASE links[l].code # c
    <3>1. rooms'[links[l].code] = rooms[links[l].code] /\ Rests(links[l], links'[l])
      BY <1>1, <1>3, <1>6, <2>1, <2>5 DEF Mine
    <3> QED
      BY <2>1, <2>2, <3>1 DEF Catches, Rests
  <2> QED
    BY <2>3, <2>4, <2>5
<1> QED
  BY <1>7, <1>8, <1>9, <1>10, <1>11, <1>12, <1>13 DEF PageInv, LinksInv

\* What a room says when nobody is let in.
LEMMA RoomSpeaks ==
    ASSUME SessionInv, SessionInv', PageInv, UNCHANGED <<drivers, current, pages>>,
           NEW c \in Code, NEW o, Spoken(rooms[c], o), rooms' = [rooms EXCEPT ![c] = o.room],
           o.room # Deleted => Exists(c), NEW who, Faithful(rooms[c], o, who), NEW from,
           \A l \in Used' : l \in Used /\ Rests(Announced(c, o, from)[l], links'[l]),
           who # Nobody => from \in Used /\ links[from].code = c /\ links[from].listed /\ links[from].pid = who,
           from \in Used /\ Hears(o, from, from).open => links[from].pid # Nobody /\ links[from].pid = who
    PROVE  PageInv'
<1>1. Speech(o) /\ o.self = Nobody
  BY SpokenSpeech DEF Spoken
<1>2. o.room # Deleted => IsTable(o.room)
  BY DEF Faithful, Stands
<1>3. ASSUME NEW l \in Used, links[l].code = c, links[l].listed, l # from, links[l].open, who # Nobody,
             links[l].pid = who, Exists(c)
      PROVE  links[l].gen > 1
  <2> DEFINE p == links[l].pid
             n == rooms[c].people[p].gen
             i == links[l].gen
             j == links[from].gen
  <2>1. Seated(links[l], rooms[c]) /\ Seated(links[from], rooms[c]) /\ IsRoom(rooms[c])
    BY <1>3, LinkFacts
  <2>2. p \in DOMAIN rooms[c].people /\ i = n /\ j \in 1 .. n
    BY <1>3, <2>1 DEF Seated
  <2>3. n \in Nat
    BY <2>1, <2>2 DEF IsRoom, Person
  <2>4. i # j
    BY <1>3 DEF PageInv, LinksInv, Apart
  <2> HIDE DEF n, i, j
  <2>5. i > 1
    BY <2>2, <2>3, <2>4
  <2> QED
    BY <2>5 DEF i
<1>4. ASSUME NEW l \in Used, links[l].code = c, links[l].listed
      PROVE  Turns(links[l], rooms[c], Hears(o, l, from), o.room)
  <2>1. l \in Link /\ IsLink(links[l]) /\ Orderly(links[l])
    BY LinkFacts
  <2>2. CASE o.room = Deleted
    BY <1>1, <2>1, <2>2, DeletedTurns DEF Faithful
  <2>3. CASE o.room # Deleted
    <3>1. Exists(c) /\ IsRoom(rooms[c]) /\ Seated(links[l], rooms[c])
      BY <1>4, <2>3, LinkFacts
    <3>2. l = from /\ Hears(o, l, from).open => links[l].pid # Nobody /\ links[l].pid = who
      OBVIOUS
    <3>3. l # from /\ links[l].open /\ who # Nobody /\ links[l].pid = who => links[l].gen > 1
      BY <1>3, <1>4, <3>1
    <3> QED
      BY <1>4, <2>1, <2>3, <3>1, <3>2, <3>3, SpokenTurns
  <2> QED
    BY <2>2, <2>3
<1>5. KeepsApart(c, o, from)
  <2>1. ASSUME NEW l \in Used
        PROVE  Hears(o, l, from).pid = links[l].pid /\ Hears(o, l, from).gen = links[l].gen
    BY <1>1, HearsFacts, LinkFacts
  <2> QED
    BY <2>1 DEF KeepsApart, PageInv, LinksInv, Apart
<1> QED
  BY <1>1, <1>2, <1>4, <1>5, RoomTurns

\* The sockets rest as they were told, but for the one that is read.
LEMMA ReadRests ==
    ASSUME SessionInv, NEW c \in Code, NEW o, Speech(o), NEW l \in Used, NEW from,
           links' = [Announced(c, o, from) EXCEPT ![l].up = Tail(@)]
    PROVE  \A k \in Used' : k \in Used /\ Rests(Announced(c, o, from)[k], links'[k])
<1>1. DOMAIN Announced(c, o, from) = Link
  BY DEF Announced
<1>2. ASSUME NEW k \in Link
      PROVE  (links[k] = NoLink => Announced(c, o, from)[k] = NoLink) /\ (k \in Used => IsLink(Announced(c, o, from)[k]))
  <2>1. links[k] = NoLink => links[k].code # c
    BY SessionAssumption DEF NoLink
  <2>2. links[k] = NoLink => Announced(c, o, from)[k] = NoLink
    BY <2>1 DEF Announced
  <2>3. k \in Used => IsLink(links[k])
    BY DEF Used, SessionInv, Sockets, Faultless
  <2>4. k \in Used => IsLink(Announced(c, o, from)[k])
    BY <2>3, HearsFacts DEF Announced
  <2> QED
    BY <2>2, <2>4
<1> DEFINE g(k) == Announced(c, o, from)[k]
<1>3. l \in Link /\ IsLink(g(l))
  BY <1>2 DEF Used
<1>4. links'[l] = [g(l) EXCEPT !.up = Tail(@)] /\ \A k \in Link \ {l} : links'[k] = g(k)
  BY <1>1, <1>3
<1> HIDE DEF g
<1>5. Rests(g(l), links'[l])
  BY <1>3, <1>4 DEF Rests, IsLink
<1>6. ASSUME NEW k \in Used' PROVE k \in Used /\ Rests(g(k), links'[k])
  <2>1. k \in Link /\ links'[k] # NoLink
    BY <1>6 DEF Used
  <2>2. CASE k = l
    BY <1>5, <2>2
  <2>3. CASE k # l
    <3>1. links'[k] = g(k) /\ k \in Used
      BY <1>2, <1>4, <2>1, <2>3 DEF Used, g
    <3> QED
      BY <3>1 DEF Rests
  <2> QED
    BY <2>2, <2>3
<1> QED
  BY <1>6 DEF g

\* A room reads a message.
LEMMA ReadsFollow == ASSUME SessionInv, SessionInv', PageInv, NEW l \in Link, RoomReads(l) PROVE PageInv'
<1> DEFINE k == links[l]
           m == k.up[1]
           outcomes(c) == IF ~Exists(c) THEN {[Outcome(rooms[c]) EXCEPT !.reason = "room_closed"]}
                          ELSE IF k.pid # Nobody THEN HandleCommand(rooms[c], k.pid, m)
                          ELSE IF ~k.open THEN {Outcome(rooms[c])}
                          ELSE IF m.type # "hello" THEN {TurnedAway(rooms[c], "hello_required")}
                          ELSE {Hello(rooms[c], m)}
<1>1. l \in Used /\ Faultless(k) /\ k.code \in Code /\ k.listed /\ k.up # <<>> /\ IsLink(k)
  BY CodedUsed DEF RoomReads, SessionInv, Sockets, Faultless, IsLink
<1>2. Head(k.up) = m /\ Len(k.up) \in Nat \ {0}
  BY <1>1, ProperTail DEF Faultless, IsLink
<1>3. PICK c \in Code : c = k.code
  BY <1>1
<1>4. PICK o \in outcomes(c) :
          /\ rooms' = [rooms EXCEPT ![c] = o.room]
          /\ links' = [Announced(c, o, l) EXCEPT ![l].up = Tail(@)]
  BY <1>2, <1>3 DEF RoomReads
<1>5. UNCHANGED <<drivers, current, pages>>
  BY DEF RoomReads
<1>6. Exists(c) => IsRoom(rooms[c]) /\ IsTable(rooms[c]) /\ rooms[c] # Deleted
  BY <1>1, <1>3, LinkFacts, RoomExists
<1>7. ASSUME NEW who, Spoken(rooms[c], o), o.room # Deleted => Exists(c), Faithful(rooms[c], o, who),
             who # Nobody => k.pid = who, Hears(o, l, l).open => k.pid # Nobody /\ k.pid = who
      PROVE  PageInv'
  <2>1. Speech(o)
    BY <1>7, SpokenSpeech
  <2>2. \A j \in Used' : j \in Used /\ Rests(Announced(c, o, l)[j], links'[j])
    BY <1>1, <1>4, <2>1, ReadRests
  <2> HIDE DEF outcomes
  <2> QED
    BY <1>1, <1>3, <1>4, <1>5, <1>7, <2>2, RoomSpeaks
<1>8. CASE ~Exists(c)
  <2>1. rooms[c] = Deleted
    BY <1>1, <1>3, <1>8, LinkFacts
  <2>2. o = [Outcome(Deleted) EXCEPT !.reason = "room_closed"]
    BY <1>4, <1>8, <2>1
  <2>3. /\ Spoken(rooms[c], o) /\ o.room = Deleted /\ o.self = Nobody
        /\ o.reply = <<>> /\ o.tell = <<>> /\ o.others = <<>>
    BY <2>1, <2>2, ToldEmpty DEF Spoken, Outcome
  <2>4. Faithful(rooms[c], o, Nobody)
    BY <2>3, UttersNothing DEF Faithful
  <2>5. ~Hears(o, l, l).open
    BY <1>1, <2>3, SpokenSpeech, HearsFacts DEF Dismisses
  <2> QED
    BY <1>7, <2>3, <2>4, <2>5
<1>9. CASE Exists(c) /\ k.pid # Nobody
  <2>1. o \in HandleCommand(rooms[c], k.pid, m)
    BY <1>4, <1>9
  <2>2. m.type \in CommandTypes
    BY <1>1, <1>2, <1>9 DEF Faultless, Says
  <2>3. Spoken(rooms[c], o) /\ Faithful(rooms[c], o, k.pid)
    BY <1>6, <1>9, <2>1, <2>2, CommandSpoken, CommandFaithful
  <2> QED
    BY <1>7, <1>9, <2>3
<1>10. CASE Exists(c) /\ k.pid = Nobody /\ ~k.open
  <2>1. o = Outcome(rooms[c])
    BY <1>4, <1>10
  <2>2. Spoken(rooms[c], o) /\ Faithful(rooms[c], o, Nobody)
    BY <1>6, <1>10, <2>1, SilenceSpoken, SilentFaithful
  <2>3. ~Hears(o, l, l).open
    BY <1>1, <1>10, <2>2, SpokenSpeech, HearsFacts
  <2> QED
    BY <1>7, <1>10, <2>2, <2>3
<1>11. CASE Exists(c) /\ k.pid = Nobody /\ k.open
  <2>1. Unread(k)
    BY <1>1, <1>11 DEF Unread
  <2>2. IsHello(m) /\ m.type = "hello"
    BY <1>1, <2>1 DEF Faultless, Says, IsHello
  <2>3. m.claim => ~rooms[c].claimSpent
    BY <1>1, <1>3, <1>11, <2>1 DEF SessionInv, Claims, Spent
  <2>4. o = Hello(rooms[c], m)
    BY <1>4, <1>11, <2>2
  <2>5. \/ Spoken(rooms[c], o) /\ o.reason # "none" /\ o.dismissed = Nobody /\ Faithful(rooms[c], o, Nobody)
        \/ Welcomed(rooms[c], m, o) /\ Greets(rooms[c], o)
    BY <1>6, <1>11, <2>2, <2>3, <2>4, HelloGreets
  <2>6. CASE Spoken(rooms[c], o) /\ o.reason # "none" /\ o.dismissed = Nobody /\ Faithful(rooms[c], o, Nobody)
    <3>1. ~Hears(o, l, l).open
      BY <1>1, <2>6, SpokenSpeech, HearsFacts DEF Dismisses
    <3> QED
      BY <1>7, <1>11, <2>6, <3>1
  <2>7. CASE Welcomed(rooms[c], m, o) /\ Greets(rooms[c], o)
    <3>1. Speech(o) /\ IsTable(o.room) /\ o.self \in Nat \ {0}
      <4> HIDE DEF outcomes, k, m
      <4>1. Speech(o)
        BY <2>7, WelcomedSpeech
      <4>2. IsTable(o.room)
        BY <2>7 DEF Greets
      <4>3. o.self \in DOMAIN o.room.people /\ IsRoom(o.room)
        BY <2>7 DEF Welcomed
      <4>4. o.room.minted \in Nat /\ DOMAIN o.room.people \subseteq 1 .. o.room.minted
        BY <4>3 DEF IsRoom
      <4> QED
        BY <4>1, <4>2, <4>3, <4>4
    <3>2. \A j \in Used' : j \in Used /\ Rests(Announced(c, o, l)[j], links'[j])
      BY <1>1, <1>4, <3>1, ReadRests
    <3>3. \A j \in Used : links[j].code = c /\ links[j].listed => Turns(links[j], rooms[c], Hears(o, j, l), o.room)
      BY <1>1, <1>3, <1>11, <2>1, <2>7, WelcomedTurns
    <3>4. KeepsApart(c, o, l)
      <4>1. ASSUME NEW j \in Used, links[j].code = c, links[j].listed, j # l
            PROVE  /\ Hears(o, j, l).pid = links[j].pid /\ Hears(o, j, l).gen = links[j].gen
                   /\ links[j].pid = o.self => links[j].gen < o.below /\ links[j].gen \in Nat
        <5>1. Hears(o, j, l).pid = links[j].pid /\ Hears(o, j, l).gen = links[j].gen /\ links[j].gen \in Nat
          BY <3>1, <4>1, HearsFacts, LinkFacts DEF IsLink
        <5>2. links[j].pid = o.self => links[j].gen < o.below
          BY <1>1, <1>3, <1>11, <2>7, <3>1, <4>1, NewConnection
        <5> QED
          BY <5>1, <5>2
      <4>2. Hears(o, l, l).pid = o.self /\ Hears(o, l, l).gen = o.below /\ o.below \in Nat
        <5>1. o.self # Nobody /\ o.below = o.room.people[o.self].gen /\ o.self \in DOMAIN o.room.people /\ IsRoom(o.room)
          BY <2>7, WelcomedSpeech DEF Greets
        <5>2. o.below \in Nat
          BY <5>1 DEF IsRoom, Person
        <5> QED
          BY <1>1, <3>1, <5>1, <5>2, HearsFacts
      <4>3. ASSUME NEW i \in Used, links[i].code = c, links[i].listed,
                   NEW j \in Used, links[j].code = c, links[j].listed, Hears(o, i, l).pid # Nobody,
                   Hears(o, i, l).pid = Hears(o, j, l).pid, Hears(o, i, l).gen = Hears(o, j, l).gen
            PROVE  i = j
        <5>1. CASE i # l /\ j # l
          BY <4>1, <4>3, <5>1 DEF PageInv, LinksInv, Apart
        <5>2. ASSUME NEW x \in Used, links[x].code = c, links[x].listed, x # l,
                     Hears(o, x, l).pid = Hears(o, l, l).pid
              PROVE  Hears(o, x, l).gen # Hears(o, l, l).gen
          <6>1. links[x].pid = o.self /\ Hears(o, x, l).gen = links[x].gen
            BY <4>1, <4>2, <5>2
          <6>2. links[x].gen < o.below /\ links[x].gen \in Nat
            BY <4>1, <5>2, <6>1
          <6> QED
            BY <4>2, <6>1, <6>2
        <5> QED
          BY <4>3, <5>1, <5>2
      <4> QED
        BY <4>3 DEF KeepsApart
    <3> HIDE DEF outcomes
    <3> QED
      BY <1>4, <1>5, <3>1, <3>2, <3>3, <3>4, RoomTurns
  <2> QED
    BY <2>5, <2>6, <2>7
<1> QED
  BY <1>8, <1>9, <1>10, <1>11

\* A room hears that a socket is closed.
LEMMA CloseFollows == ASSUME SessionInv, SessionInv', PageInv, NEW l \in Link, RoomHearsClose(l) PROVE PageInv'
<1> DEFINE unlisted(k) == Settled([k EXCEPT !.listed = FALSE])
<1>1. l \in Used /\ IsLink(links[l]) /\ links[l].listed /\ links[l].cut
  BY CodedUsed, LinkFacts DEF RoomHearsClose
<1>2. PICK c \in Code : c = links[l].code
  BY <1>1, LinkFacts
<1>3. PICK o \in IF SpeaksFor(links[l]) THEN Absent(rooms[c], links[l].pid) ELSE {Outcome(rooms[c])} :
          rooms' = [rooms EXCEPT ![c] = o.room] /\ links' = [Announced(c, o, 0) EXCEPT ![l] = unlisted(@)]
  BY <1>2 DEF RoomHearsClose
<1>4. UNCHANGED <<drivers, current, pages>>
  BY DEF RoomHearsClose
<1>5. Spoken(rooms[c], o) /\ Faithful(rooms[c], o, Nobody) /\ (o.room # Deleted => Exists(c))
  <2>1. CASE Exists(c)
    <3>1. IsRoom(rooms[c]) /\ IsTable(rooms[c])
      BY <1>1, <1>2, <2>1, LinkFacts
    <3>2. CASE SpeaksFor(links[l])
      BY <1>2, <1>3, <2>1, <3>1, <3>2, AbsentSpoken, AbsentFaithful DEF SpeaksFor
    <3>3. CASE ~SpeaksFor(links[l])
      BY <1>3, <2>1, <3>1, <3>3, SilenceSpoken, SilentFaithful
    <3> QED
      BY <3>2, <3>3
  <2>2. CASE ~Exists(c)
    <3>1. rooms[c] = Deleted
      BY <1>1, <1>2, <2>2, LinkFacts
    <3>2. o = Outcome(Deleted)
      BY <1>2, <1>3, <2>2, <3>1 DEF SpeaksFor
    <3>3. o.room = Deleted /\ o.reply = <<>> /\ o.tell = <<>> /\ o.others = <<>> /\ Spoken(rooms[c], o)
      BY <3>1, <3>2, ToldEmpty DEF Spoken, Outcome
    <3> QED
      BY <3>3, UttersNothing DEF Faithful
  <2> QED
    BY <2>1, <2>2
<1>6. Speech(o)
  BY <1>5, SpokenSpeech
<1> DEFINE g(j) == Announced(c, o, 0)[j]
<1>7. DOMAIN Announced(c, o, 0) = Link
  BY DEF Announced
<1>8. ASSUME NEW j \in Used PROVE IsLink(g(j)) /\ SameLink(links[j], g(j))
  <2>1. j \in Link /\ IsLink(links[j])
    BY <1>8, LinkFacts
  <2> QED
    BY <1>6, <2>1, HearsFacts DEF Announced, SameLink
<1>9. ASSUME NEW j \in Link, links[j] = NoLink PROVE g(j) = NoLink
  <2>1. links[j].code # c
    BY <1>9, SessionAssumption DEF NoLink
  <2> QED
    BY <1>9, <2>1 DEF Announced
<1>10. links'[l] = unlisted(g(l)) /\ \A j \in Link \ {l} : links'[j] = g(j)
  <2> HIDE DEF unlisted
  <2> QED
    BY <1>3, <1>7
<1>11. g(l).cut
  BY <1>1, <1>8 DEF SameLink
<1> HIDE DEF g
<1>12. ASSUME NEW j \in Used' PROVE j \in Used /\ Rests(g(j), links'[j])
  <2>1. j \in Link /\ links'[j] # NoLink
    BY <1>12 DEF Used
  <2>2. CASE j = l
    <3>1. links'[l] = [g(l) EXCEPT !.listed = FALSE]
      BY <1>10, <2>1, <2>2, SettledFacts
    <3> QED
      BY <1>1, <1>8, <1>11, <2>2, <3>1 DEF Rests, IsLink
  <2>3. CASE j # l
    <3>1. links'[j] = g(j) /\ j \in Used
      BY <1>9, <1>10, <2>1, <2>3 DEF Used
    <3> QED
      BY <3>1 DEF Rests
  <2> QED
    BY <2>2, <2>3
<1>13. \A j \in Used' : j \in Used /\ Rests(Announced(c, o, 0)[j], links'[j])
  BY <1>12 DEF g
<1>14. 0 \notin Used
  BY SessionAssumption DEF Used, Link
<1> HIDE DEF unlisted
<1> QED
  BY <1>3, <1>4, <1>5, <1>13, <1>14, RoomSpeaks

\* A room's alarm fires.
LEMMA AlarmFollows == ASSUME SessionInv, SessionInv', PageInv, NEW c \in Code, AlarmFires(c) PROVE PageInv'
<1>1. Exists(c) /\ IsRoom(rooms[c]) /\ IsTable(rooms[c])
  BY RoomShape DEF AlarmFires, SessionInv, PageInv, LinksInv, Tables
<1>2. PICK o : Spoken(rooms[c], o) /\ Faithful(rooms[c], o, Nobody) /\ Takes(c, o, 0)
  <2>1. PICK o \in IF rooms[c].phase # "lobby" THEN DeadlineAlarm(rooms[c])
                   ELSE IF Connected(rooms[c]) = {} THEN {Deletion(<<>>)}
                   ELSE {Reconciled(rooms[c], live) : live \in
                            {s \in Live(c) : ~(Connected(rooms[c]) \subseteq s)}} : Takes(c, o, 0)
    BY DEF AlarmFires
  <2>2. Spoken(rooms[c], o)
    BY <1>1, <2>1, AlarmSpoken, SweptSpoken, ReconciledSpoken
  <2>3. Faithful(rooms[c], o, Nobody)
    BY <1>1, <2>1, DeadlineFaithful, DeletionFaithful, ReconciledFaithful
  <2> QED
    BY <2>1, <2>2, <2>3
<1>3. links' = Announced(c, o, 0) /\ rooms' = [rooms EXCEPT ![c] = o.room]
  BY <1>2 DEF Takes
<1>4. UNCHANGED <<drivers, current, pages>>
  BY DEF AlarmFires
<1>5. \A j \in Used' : j \in Used /\ Rests(Announced(c, o, 0)[j], links'[j])
  <2>1. ASSUME NEW j \in Link, links[j] = NoLink PROVE Announced(c, o, 0)[j] = NoLink
    <3>1. links[j].code # c
      BY <2>1, SessionAssumption DEF NoLink
    <3> QED
      BY <2>1, <3>1 DEF Announced
  <2> QED
    BY <1>3, <2>1 DEF Used, Rests
<1>6. 0 \notin Used
  BY SessionAssumption DEF Used, Link
<1> QED
  BY <1>1, <1>2, <1>3, <1>4, <1>5, <1>6, RoomSpeaks

-----------------------------------------------------------------------------
(* The pages and the network go on, and the rooms stay as they are.        *)

\* Socket k goes on as n, or less of it does; a new one is fresh.
Wanes(k, n) ==
    /\ n.code = k.code /\ n.driver = k.driver /\ n.pid = k.pid /\ n.gen = k.gen /\ n.open = k.open
    /\ n.listed => k.listed
    /\ ~n.cut => ~k.cut /\ (k.listed => n.listed) /\ (k.down = <<>> => n.down = <<>>)
    /\ \A f \in Range(n.down) : f \in Range(k.down) \/ f.type = "close"
Fresh(n) == n.pid = Nobody /\ n.down = <<>> /\ n.listed

\* Nothing of what it carries has been taken.
Lies(k, n) == Wanes(k, n) /\ (n.heard => k.heard) /\ (n.cut \/ n.down = k.down)

LEMMA LinksWane ==
    ASSUME SessionInv, PageInv, Tables',
           \A l \in Used' : /\ rooms'[links'[l].code] = rooms[links'[l].code] /\ links'[l].code \in Code
                            /\ (l \in Used /\ Wanes(links[l], links'[l])) \/ Fresh(links'[l])
    PROVE  LinksInv'
<1>1. Order'
  <2> SUFFICES ASSUME NEW l \in Used' PROVE Orderly(links'[l])
    BY DEF Order, Orderly
  <2>1. CASE Fresh(links'[l])
    BY <2>1, ProperEmpty DEF Fresh, Orderly
  <2>2. CASE l \in Used /\ Wanes(links[l], links'[l])
    <3>1. Orderly(links[l])
      BY <2>2 DEF PageInv, LinksInv, Order
    <3>2. \A f \in Range(links'[l].down) : Fitting(f)
      BY <2>2, <3>1 DEF Wanes, Orderly, Fitting
    <3> QED
      BY <2>2, <3>1, <3>2 DEF Wanes, Orderly
  <2> QED
    BY <2>1, <2>2
<1>2. Standing'
  <2> SUFFICES ASSUME NEW l \in Used', rooms'[links'[l].code].phase \notin {"unmade", "gone"}
               PROVE  Seated(links'[l], rooms[links'[l].code])
    BY DEF Standing, Exists, Seated
  <2>1. Exists(links'[l].code) /\ links'[l].code \in Code
    BY DEF Exists
  <2>2. CASE Fresh(links'[l])
    <3>1. IsRoom(rooms[links'[l].code])
      BY <2>1, RoomShape DEF SessionInv
    <3> QED
      BY <2>2, <3>1, NobodyAssumption DEF Fresh, Seated, IsRoom
  <2>3. CASE l \in Used /\ Wanes(links[l], links'[l])
    <3>1. Seated(links[l], rooms[links[l].code])
      BY <2>1, <2>3 DEF Wanes, PageInv, LinksInv, Standing
    <3> QED
      BY <2>3, <3>1 DEF Wanes, Seated
  <2> QED
    BY <2>2, <2>3
<1>3. Apart'
  BY DEF Apart, PageInv, LinksInv, Wanes, Fresh
<1> QED
  BY <1>1, <1>2, <1>3 DEF LinksInv

LEMMA PageRests ==
    ASSUME SessionInv, SessionInv', PageInv, Tables', PageShape',
           \A l \in Used' : /\ rooms'[links'[l].code] = rooms[links'[l].code]
                            /\ \/ l \in Used /\ Lies(links[l], links'[l])
                               \/ l \notin Used /\ Fresh(links'[l]),
           \A l \in Used' : links'[l].heard /\ current'[links'[l].driver[1]] = links'[l].driver[2] =>
               /\ current'[links'[l].driver[1]] = current[links'[l].driver[1]]
               /\ pages'[links'[l].driver[1]] = pages[links'[l].driver[1]],
           \A x \in Drivers' : DriverAt(x)'.status = "connected" =>
               x \in Drivers /\ DriverAt(x).status = "connected" /\ DriverAt(x)'.socket = DriverAt(x).socket
    PROVE  PageInv'
<1>1. LinksInv'
  <2>1. \A l \in Used' : links'[l].code \in Code
    BY DEF SessionInv, Sockets, Faultless, IsLink
  <2> QED
    BY <2>1, LinksWane DEF Lies
<1>2. Arrived'
  <2> SUFFICES ASSUME NEW x \in Drivers', DriverAt(x)'.status = "connected"
               PROVE  DriverAt(x)'.socket # NoSocket /\ links'[DriverAt(x)'.socket].pid # Nobody
    BY DEF Arrived
  <2> DEFINE l == DriverAt(x).socket
  <2>1. x \in Drivers /\ DriverAt(x)'.socket = l /\ l # NoSocket /\ links[l].pid # Nobody
    BY DEF PageInv, Arrived
  <2>2. l \in Link /\ l \in Used
    BY <2>1, DriverShape DEF SessionInv, IsDriver, References, Used
  <2>3. links'[l] # NoLink
    BY <2>1 DEF SessionInv, References
  <2> HIDE DEF l
  <2>4. links'[l].pid = links[l].pid
    BY <2>2, <2>3 DEF Used, Lies, Wanes
  <2> QED
    BY <2>1, <2>4
<1>3. Following'
  <2> SUFFICES ASSUME NEW l \in Used', links'[l].heard, current'[links'[l].driver[1]] = links'[l].driver[2]
               PROVE  Catches(pages'[links'[l].driver[1]], links'[l], rooms'[links'[l].code])
    BY DEF Following, Follower, Catches
  <2> DEFINE t == links'[l].driver[1]
  <2>1. pages'[t] = pages[t] /\ rooms'[links'[l].code] = rooms[links'[l].code] /\ current[t] = links'[l].driver[2]
    OBVIOUS
  <2>2. CASE Fresh(links'[l])
    BY <2>2 DEF Fresh, Catches
  <2>3. CASE l \in Used /\ Lies(links[l], links'[l])
    <3>1. Follower(l)
      BY <2>1, <2>3 DEF Follower, Lies, Wanes
    <3>2. Catches(pages[t], links[l], rooms[links[l].code])
      BY <2>3, <3>1 DEF Lies, Wanes, PageInv, Following
    <3>3. links[l].code = links'[l].code
      BY <2>3 DEF Lies, Wanes
    <3> HIDE DEF t
    <3>4. Catches(pages[t], links'[l], rooms[links'[l].code])
      BY <2>3, <3>2, <3>3 DEF Catches, Lies, Wanes
    <3> QED
      BY <2>1, <3>4 DEF t
  <2> QED
    BY <2>2, <2>3
<1> QED
  BY <1>1, <1>2, <1>3 DEF PageInv

\* A socket goes on as it is, says something, is let go of, or is forgotten.
LEMMA LiesSame == ASSUME NEW k PROVE Lies(k, k)
BY DEF Lies, Wanes

LEMMA LiesSettled ==
    ASSUME NEW k, NEW n, Lies(k, n)
    PROVE  Settled(n) = NoLink \/ Lies(k, Settled(n))
BY SettledFacts

LEMMA LiesCommand ==
    ASSUME NEW k, IsLink(k), NEW m
    PROVE  Lies(k, WithCommand(k, m))
<1>1. CASE k.cut
  BY <1>1 DEF WithCommand, Lies, Wanes
<1>2. CASE ~k.cut
  <2> DEFINE up == Append(k.up, m)
             h == [k EXCEPT !.up = up]
  <2>1. h = WithCommand(k, m)
    BY <1>2 DEF WithCommand
  <2> HIDE DEF up
  <2>2. Lies(k, h)
    BY DEF Lies, Wanes, IsLink
  <2> QED
    BY <2>1, <2>2
<1> QED
  BY <1>1, <1>2

LEMMA LiesAbandoned ==
    ASSUME NEW k, NEW n, Faultless(n), Lies(k, n)
    PROVE  Abandoned(n) = NoLink \/ Lies(k, Abandoned(n))
<1> DEFINE a == [n EXCEPT !.heard = FALSE, !.cut = TRUE, !.down = <<>>]
<1>1. /\ a.code = n.code /\ a.driver = n.driver /\ a.pid = n.pid /\ a.gen = n.gen /\ a.open = n.open
      /\ a.listed = n.listed /\ a.heard = FALSE /\ a.cut = TRUE /\ a.down = <<>>
  BY DEF Faultless, IsLink
<1> HIDE DEF a
<1>2. Lies(k, a)
  BY <1>1, ProperEmpty DEF Lies, Wanes
<1>3. Abandoned(n) = Settled(a)
  BY DEF Abandoned, a
<1> QED
  BY <1>2, <1>3, LiesSettled

\* The rooms and the pages stay as they are, and so do the drivers.
LEMMA QuietFollows ==
    ASSUME SessionInv, SessionInv', PageInv, UNCHANGED <<rooms, drivers, current, pages>>,
           \A l \in Used' : l \in Used /\ Lies(links[l], links'[l])
    PROVE  PageInv'
<1>1. Tables' /\ PageShape'
  BY DEF PageInv, LinksInv, Tables, Exists, PageShape
<1>2. Drivers' = Drivers /\ \A x : DriverAt(x)' = DriverAt(x)
  BY DEF Drivers, DriverAt
<1>3. \A x \in Drivers' : DriverAt(x)'.status = "connected" =>
          x \in Drivers /\ DriverAt(x).status = "connected" /\ DriverAt(x)'.socket = DriverAt(x).socket
  BY <1>2
<1> QED
  BY <1>1, <1>3, PageRests

\* A request goes on, a socket is cut, a control is used.
LEMMA RequestFollows ==
    ASSUME SessionInv, SessionInv', PageInv, NEW q \in Request,
           SubmitCreate(q) \/ RouterCollides(q) \/ CreateFails(q) \/ AnsweredNo(q)
    PROVE  PageInv'
<1>1. UNCHANGED <<rooms, links, drivers, current, pages>>
  BY DEF SubmitCreate, RouterCollides, CreateFails, AnsweredNo
<1>2. \A l \in Used' : l \in Used /\ Lies(links[l], links'[l])
  BY <1>1, LiesSame DEF Used
<1> QED
  BY <1>1, <1>2, QuietFollows

\* One socket becomes another, or is forgotten.
LEMMA OneLies ==
    ASSUME SessionInv, NEW l \in Used, NEW n, n = NoLink \/ Lies(links[l], n), links' = [links EXCEPT ![l] = n]
    PROVE  \A k \in Used' : k \in Used /\ Lies(links[k], links'[k])
<1>1. DOMAIN links = Link /\ l \in Link
  BY DEF SessionInv, Shapes, Used
<1>2. links'[l] = n /\ \A k \in Link \ {l} : links'[k] = links[k]
  BY <1>1
<1> QED
  BY <1>2, LiesSame DEF Used

LEMMA CutFollows == ASSUME SessionInv, SessionInv', PageInv, NEW l \in Link, IsCut(l) PROVE PageInv'
<1>1. l \in Used /\ IsLink(links[l])
  BY CodedUsed, LinkFacts DEF IsCut
<1>2. PICK listed \in {links[l].listed, FALSE} :
          links' = [links EXCEPT ![l] =
               Settled([@ EXCEPT !.cut = TRUE, !.listed = listed, !.up = <<>>,
                                 !.down = IF links[l].heard THEN <<CloseFrame("lost", "none")>> ELSE <<>>])]
  BY DEF IsCut
<1> DEFINE down == IF links[l].heard THEN <<CloseFrame("lost", "none")>> ELSE <<>>
           h == [links[l] EXCEPT !.cut = TRUE, !.listed = listed, !.up = <<>>, !.down = down]
<1>3. \A f \in Range(down) : f.type = "close"
  <2>1. Range(<<>>) = {} /\ Range(<<CloseFrame("lost", "none")>>) = {CloseFrame("lost", "none")}
    BY ProperEmpty, ProperFew
  <2>2. CloseFrame("lost", "none").type = "close"
    BY DEF CloseFrame
  <2> QED
    BY <2>1, <2>2
<1>4. links' = [links EXCEPT ![l] = Settled(h)]
  BY <1>2
<1> HIDE DEF down
<1>5. /\ h.code = links[l].code /\ h.driver = links[l].driver /\ h.pid = links[l].pid /\ h.gen = links[l].gen
      /\ h.open = links[l].open /\ h.heard = links[l].heard /\ h.listed = listed /\ h.cut = TRUE /\ h.down = down
  BY <1>1 DEF IsLink
<1> HIDE DEF h
<1>6. Lies(links[l], h)
  BY <1>1, <1>3, <1>5 DEF Lies, Wanes, IsLink
<1>7. \A k \in Used' : k \in Used /\ Lies(links[k], links'[k])
  BY <1>1, <1>4, <1>6, LiesSettled, OneLies
<1> QED
  BY <1>7, QuietFollows DEF IsCut

LEMMA ControlFollows == ASSUME SessionInv, SessionInv', PageInv, NEW t \in Tab, UsesControl(t) PROVE PageInv'
<1> DEFINE l == drivers[t][current[t]].socket
<1>1. PICK m \in Commands(t) : links' = [links EXCEPT ![l] = WithCommand(@, m)]
  BY DEF UsesControl
<1>2. l \in Used
  <2>1. current[t] \in 1 .. Len(drivers[t]) /\ Len(drivers[t]) \in Nat /\ Len(drivers[t]) <= MaxEntries
    BY LenProperties DEF UsesControl, SessionInv, Shapes
  <2>2. <<t, current[t]>> \in Drivers /\ DriverAt(<<t, current[t]>>).socket = l
    BY <2>1, SessionAssumption DEF Drivers, Driver, DriverAt
  <2>3. DriverAt(<<t, current[t]>>) \in IsDriver
    BY <2>2, DriverShape DEF SessionInv
  <2>4. l \in Link /\ l # NoSocket
    BY <2>2, <2>3 DEF IsDriver, UsesControl
  <2> HIDE DEF l
  <2>5. links[l] # NoLink
    BY <2>2, <2>4 DEF SessionInv, References
  <2> QED
    BY <2>4, <2>5 DEF Used
<1>3. IsLink(links[l])
  BY <1>2, LinkFacts
<1> DEFINE h == WithCommand(links[l], m)
<1>4. Lies(links[l], h)
  BY <1>3, LiesCommand
<1>5. links' = [links EXCEPT ![l] = h]
  BY <1>1
<1> HIDE DEF h, l
<1>6. \A k \in Used' : k \in Used /\ Lies(links[k], links'[k])
  BY <1>2, <1>4, <1>5, OneLies
<1> QED
  BY <1>6, QuietFollows DEF UsesControl

-----------------------------------------------------------------------------
(* The drivers go on.                                                      *)

LEMMA TablesStay == ASSUME PageInv, UNCHANGED rooms PROVE Tables'
BY DEF PageInv, LinksInv, Tables, Exists

\* The backoff ends.
LEMMA TryFollows == ASSUME SessionInv, SessionInv', PageInv, NEW c \in Drivers, TriesAgain(c) PROVE PageInv'
<1> DEFINE d == [DriverAt(c) EXCEPT !.status = "connecting"]
<1>1. DriverAt(c) \in IsDriver
  BY DriverShape DEF SessionInv
<1>2. d \in IsDriver /\ d.status = "connecting"
  BY <1>1 DEF IsDriver, Stages
<1>3. drivers' = [drivers EXCEPT ![c[1]][c[2]] = d]
  BY DEF TriesAgain, DriverAt
<1> HIDE DEF d
<1>4. /\ drivers' \in [Tab -> Seq(IsDriver)] /\ \A t \in Tab : Len(drivers'[t]) = Len(drivers[t])
      /\ DriverAt(c)' = d /\ \A x \in Drivers \ {c} : DriverAt(x)' = DriverAt(x)
  BY <1>2, <1>3, DriverReplaced DEF SessionInv
<1>5. Drivers' = Drivers
  BY <1>4 DEF Drivers, Driver
<1>6. UNCHANGED <<rooms, links, current, pages>>
  BY DEF TriesAgain
<1>7. Tables' /\ PageShape'
  BY <1>6, TablesStay DEF PageInv, PageShape
<1>8. \A x \in Drivers' : DriverAt(x)'.status = "connected" =>
          x \in Drivers /\ DriverAt(x).status = "connected" /\ DriverAt(x)'.socket = DriverAt(x).socket
  BY <1>2, <1>4, <1>5
<1>9. \A l \in Used' : l \in Used /\ Lies(links[l], links'[l])
  BY <1>6, LiesSame DEF Used
<1> QED
  BY <1>6, <1>7, <1>8, <1>9, PageRests

\* What becomes of the pages when a driver becomes another.
LEMMA DriverIsPages ==
    ASSUME NEW c \in Drivers, SessionInv, NEW d, NEW all, DriverIs(c, d, all)
    PROVE  \A t \in Tab : current'[t] # 0 => current'[t] = current[t] /\ pages'[t] = pages[t]
<1>1. c[1] \in Tab
  BY DriverShape DEF SessionInv
<1>2. \/ UNCHANGED <<current, pages>>
      \/ current' = [current EXCEPT ![c[1]] = 0] /\ pages' = [pages EXCEPT ![c[1]] = NoPage]
  BY DEF DriverIs, EndRoom
<1> QED
  BY <1>1, <1>2 DEF SessionInv, Shapes

\* A driver lets go of its socket, if it has one; its page may end.
LEMMA LetsGoFollows ==
    ASSUME SessionInv, SessionInv', PageInv, UNCHANGED rooms, NEW c \in Drivers, NEW d \in IsDriver,
           d.socket = NoSocket, d.status # "connected", NEW all, DOMAIN all = Link, DriverIs(c, d, all),
           \A l \in Link : \/ all[l] = links[l]
                           \/ /\ l = DriverAt(c).socket /\ l \in Used
                              /\ all[l] = NoLink \/ Lies(links[l], all[l])
    PROVE  PageInv'
<1>1. \A t \in Tab : current'[t] # 0 => current'[t] = current[t] /\ pages'[t] = pages[t]
  BY DriverIsPages
<1>2. /\ drivers' \in [Tab -> Seq(IsDriver)] /\ \A t \in Tab : Len(drivers'[t]) = Len(drivers[t])
      /\ DriverAt(c)' = d /\ DOMAIN links' = Link
  BY DriverIsFacts DEF SessionInv
<1>3. PICK Z \in SUBSET (Drivers \ {c}) : EndsWith(Z, c, all)
  BY DriverIsFacts DEF SessionInv
<1>4. Drivers' = Drivers
  BY <1>2 DEF Drivers, Driver
<1>5. Tables' /\ PageShape'
  BY <1>1, TablesStay DEF PageInv, PageShape
<1>6. ASSUME NEW x \in Drivers', DriverAt(x)'.status = "connected"
      PROVE  x \in Drivers /\ DriverAt(x).status = "connected" /\ DriverAt(x)'.socket = DriverAt(x).socket
  <2>1. x \in Drivers /\ x # c
    BY <1>2, <1>4, <1>6
  <2>2. DriverAt(x)' = IF x \in Z THEN StoppedFor(DriverAt(x), "done") ELSE DriverAt(x)
    BY <1>3, <2>1 DEF EndsWith
  <2>3. DriverAt(x) \in IsDriver /\ "done" \in Cause \ {"superseded"}
    BY <2>1, DriverShape DEF SessionInv, Cause, Reason
  <2>4. Stopped(StoppedFor(DriverAt(x), "done"))
    BY <2>3, StoppedForFacts
  <2>5. x \notin Z
    BY <1>6, <2>2, <2>4 DEF Stopped, Stages
  <2> QED
    BY <1>6, <2>1, <2>2, <2>5
<1>7. ASSUME NEW l \in Used' PROVE l \in Used /\ Lies(links[l], links'[l])
  <2>1. l \in Link /\ links'[l] # NoLink
    BY <1>7 DEF Used
  <2>2. links'[l] = IF \E x \in Z : DriverAt(x).socket = l THEN Abandoned(all[l]) ELSE all[l]
    BY <1>3, <2>1 DEF EndsWith
  <2>3. CASE \E x \in Z : DriverAt(x).socket = l
    <3>1. PICK x \in Z : DriverAt(x).socket = l
      BY <2>3
    <3>2. x \in Drivers /\ x # c /\ l # NoSocket
      BY <2>1, <3>1 DEF Link, NoSocket
    <3>3. links[l] # NoLink /\ links[l].driver = x
      BY <3>1, <3>2 DEF SessionInv, References
    <3>4. l \in Used /\ l # DriverAt(c).socket
      BY <2>1, <3>2, <3>3 DEF Used, SessionInv, References
    <3>5. links'[l] = Abandoned(links[l]) /\ Faultless(links[l])
      BY <2>1, <2>2, <2>3, <3>4, LinkFacts
    <3> QED
      BY <2>1, <3>4, <3>5, LiesSame, LiesAbandoned
  <2>4. CASE ~\E x \in Z : DriverAt(x).socket = l
    BY <2>1, <2>2, <2>4, LiesSame DEF Used
  <2> QED
    BY <2>3, <2>4
<1>8. ASSUME NEW l \in Used', current'[links'[l].driver[1]] = links'[l].driver[2]
      PROVE  /\ current'[links'[l].driver[1]] = current[links'[l].driver[1]]
             /\ pages'[links'[l].driver[1]] = pages[links'[l].driver[1]]
  <2>1. links'[l].driver = links[l].driver /\ links[l].driver \in Drivers
    BY <1>7, LinkFacts DEF Lies, Wanes
  <2>2. links[l].driver[1] \in Tab /\ links[l].driver[2] # 0
    BY <2>1, DriverShape DEF SessionInv
  <2> QED
    BY <1>1, <1>8, <2>1, <2>2
<1> QED
  BY <1>5, <1>6, <1>7, <1>8, PageRests

LEMMA FailFollows == ASSUME SessionInv, SessionInv', PageInv, NEW c \in Drivers, FailsToOpen(c) PROVE PageInv'
<1> DEFINE d == Closed(DriverAt(c), "lost", "none")
<1>1. UNCHANGED rooms /\ DriverIs(c, d, links)
  BY DEF FailsToOpen
<1>2. DriverAt(c) \in IsDriver
  BY DriverShape DEF SessionInv
<1>3. d \in IsDriver /\ d.socket = NoSocket /\ d.status \notin {"connecting", "connected"}
  BY <1>2, ClosedTo
<1> HIDE DEF d
<1>4. DOMAIN links = Link
  BY DEF SessionInv, Shapes
<1> QED
  BY <1>1, <1>3, <1>4, LetsGoFollows

LEMMA HearsCloseFollows == ASSUME SessionInv, SessionInv', PageInv, NEW l \in Link, HearsClose(l) PROVE PageInv'
<1> DEFINE k == links[l]
           frame == Head(k.down)
           all == [links EXCEPT ![l] = Abandoned(k)]
<1>1. l \in Used /\ Faultless(k) /\ k.heard /\ k.down # <<>> /\ frame.type = "close" /\ UNCHANGED rooms
  BY CodedUsed DEF HearsClose, SessionInv, Sockets
<1>2. PICK c \in Drivers : c = k.driver /\ DriverAt(c).socket = l
  BY <1>1 DEF SessionInv, References
<1> DEFINE d == Closed(DriverAt(c), frame.code, frame.reason)
<1>3. DriverIs(c, d, all)
  BY <1>2 DEF HearsClose
<1>4. frame \in Range(k.down) /\ IsFrame(frame, k)
  BY <1>1, TakenFacts DEF Faultless
<1>5. frame.code = "refused" => frame.reason \in Cause \ {"superseded"}
  BY <1>1, <1>4 DEF IsFrame
<1>6. DriverAt(c) \in IsDriver
  BY DriverShape DEF SessionInv
<1>7. d \in IsDriver /\ d.socket = NoSocket /\ d.status # "connected"
  <2> HIDE DEF d, frame
  <2>1. LET e == Closed(DriverAt(c), frame.code, frame.reason)
        IN  e \in IsDriver /\ e.socket = NoSocket /\ e.status \notin {"connecting", "connected"}
    BY <1>5, <1>6, ClosedTo
  <2> QED
    BY <2>1 DEF d
<1>8. /\ DOMAIN all = Link /\ all[l] = Abandoned(k) /\ \A j \in Link \ {l} : all[j] = links[j]
  BY DEF SessionInv, Shapes
<1> HIDE DEF d, all, frame
<1>9. all[l] = NoLink \/ Lies(links[l], all[l])
  BY <1>1, <1>8, LiesSame, LiesAbandoned
<1> QED
  BY <1>1, <1>2, <1>3, <1>7, <1>8, <1>9, LetsGoFollows

LEMMA LeaveFollows == ASSUME SessionInv, SessionInv', PageInv, NEW t \in Tab, LeaveRoom(t) PROVE PageInv'
<1>1. PICK c : c = <<t, current[t]>>
  OBVIOUS
<1>2. c \in Drivers /\ DriverAt(c) = drivers[t][current[t]]
  <2>1. current[t] \in 1 .. Len(drivers[t]) /\ Len(drivers[t]) \in Nat /\ Len(drivers[t]) <= MaxEntries
    BY LenProperties DEF LeaveRoom, SessionInv, Shapes
  <2> QED
    BY <1>1, <2>1, SessionAssumption DEF Drivers, Driver, DriverAt
<1> DEFINE l == DriverAt(c).socket
           said == WithCommand(links[l], [type |-> "leave"])
           all == IF l = NoSocket THEN links ELSE [links EXCEPT ![l] = Abandoned(said)]
           d == StoppedFor(DriverAt(c), "left")
<1>3. DriverIs(c, d, all) /\ (l # NoSocket \/ DriverAt(c).status = "reconnecting") /\ UNCHANGED rooms
  BY <1>1, <1>2 DEF LeaveRoom
<1>4. ~Stopped(DriverAt(c)) /\ DriverAt(c) \in IsDriver
  BY <1>2, <1>3, DriverShape DEF SessionInv, References, Stopped, Stages
<1>5. "left" \in Cause \ {"superseded"}
  BY DEF Cause, Reason
<1>6. d \in IsDriver /\ d.socket = NoSocket /\ d.status = "left"
  BY <1>4, <1>5, StoppedForFacts
<1> HIDE DEF d
<1>7. l # NoSocket => l \in Used /\ Faultless(links[l])
  <2>1. l # NoSocket => l \in Link /\ links[l] # NoLink
    BY <1>2, <1>4 DEF IsDriver, SessionInv, References
  <2> HIDE DEF l
  <2> QED
    BY <2>1, LinkFacts DEF Used
<1>8. DOMAIN all = Link /\ \A j \in Link \ {l} : all[j] = links[j]
  BY DEF SessionInv, Shapes
<1>9. l # NoSocket => all[l] = NoLink \/ Lies(links[l], all[l])
  <2> SUFFICES ASSUME l # NoSocket PROVE all[l] = NoLink \/ Lies(links[l], all[l])
    OBVIOUS
  <2>1. l \in Link /\ Faultless(links[l]) /\ IsLink(links[l])
    BY <1>7 DEF Used, Faultless
  <2>2. all[l] = Abandoned(said)
    BY <2>1 DEF SessionInv, Shapes
  <2> HIDE DEF all, l
  <2>3. Faultless(said) /\ Lies(links[l], said)
    BY <2>1, WithCommandFacts, LiesCommand DEF CommandTypes
  <2> HIDE DEF said
  <2> QED
    BY <2>2, <2>3, LiesAbandoned
<1>10. l = NoSocket => all = links
  OBVIOUS
<1> HIDE DEF all
<1>11. \A j \in Link : all[j] = links[j]
                       \/ (j = DriverAt(c).socket /\ j \in Used /\ (all[j] = NoLink \/ Lies(links[j], all[j])))
  BY <1>7, <1>8, <1>9, <1>10
<1> QED
  BY <1>2, <1>3, <1>6, <1>8, <1>11, LetsGoFollows

\* A page that folds a frame is a page.
LEMMA FoldedIsPage ==
    ASSUME NEW q, IsPage(q), NEW f, Fitting(f), f.type # "close"
    PROVE  IsPage(Folded(q, f))
<1>1. CASE f.type = "hello_ack"
  BY <1>1, SelfShown DEF Otherwise
<1>2. CASE f.type = "queue_status_changed"
  BY <1>2, QueuedShown DEF Otherwise
<1>3. CASE f.type = "feed_appended"
  <2> DEFINE w == [q EXCEPT !.story = @ + 1]
  <2>1. Folded(q, f) = w
    BY <1>3 DEF Folded
  <2>2. DOMAIN w = Part /\ w.view = q.view
    BY DEF IsPage, Part
  <2> QED
    BY <2>1, <2>2 DEF IsPage
<1>4. CASE f.type = "ack"
  <2> DEFINE w == [q EXCEPT !.view.queued = TRUE]
  <2>1. Folded(q, f) = w \/ Folded(q, f) = q
    BY <1>4 DEF Folded
  <2>2. DOMAIN w = Part /\ w.view = [q.view EXCEPT !.queued = TRUE]
    BY DEF IsPage, Part
  <2>3. w.view \in View
    BY <2>2 DEF IsPage, View
  <2> QED
    BY <2>1, <2>2, <2>3 DEF IsPage
<1>5. CASE f.type \notin {"hello_ack", "queue_status_changed", "feed_appended", "ack"}
  BY <1>5, FrameReplaces
<1> QED
  BY <1>1, <1>2, <1>3, <1>4, <1>5

LEMMA NewPageShape == ASSUME NEW c PROVE IsPage(NewPage(c))
<1> DEFINE q == NewPage(c)
<1>1. DOMAIN q = Part /\ q.view = [turn |-> 0, queued |-> FALSE]
  BY DEF NewPage, Part
<1> HIDE DEF q
<1>2. q.view \in View
  BY <1>1 DEF View
<1> QED
  BY <1>1, <1>2 DEF IsPage, q

\* The router makes a room: nobody has a socket to it.
LEMMA CreateFollows == ASSUME SessionInv, SessionInv', PageInv, NEW q \in Request, RouterCreates(q) PROVE PageInv'
<1>1. PICK c \in Code, options \in Options : rooms[c] = Unmade /\ rooms' = [rooms EXCEPT ![c] = NewRoom(options)]
  BY DEF RouterCreates, MayInitialize
<1>2. UNCHANGED <<links, drivers, current, pages>>
  BY DEF RouterCreates
<1>3. rooms'[c] = NewRoom(options) /\ \A d \in Code \ {c} : rooms'[d] = rooms[d]
  BY <1>1 DEF SessionInv, Shapes
<1>4. IsTable(NewRoom(options))
  <2> DEFINE r == NewRoom(options)
  <2>1. r.config = [bots |-> TRUE, shuffle |-> TRUE] /\ r.ring = {} /\ r.people = Nothing
    BY DEF NewRoom
  <2>2. DOMAIN Nothing = {}
    BY DEF Nothing
  <2> HIDE DEF r
  <2>3. r.config \in [bots : {r.config.bots}, shuffle : BOOLEAN]
    BY <2>1
  <2> QED
    BY <2>1, <2>2, <2>3 DEF IsTable, r
<1>5. Tables'
  BY <1>3, <1>4 DEF Tables, Exists, PageInv, LinksInv
<1>6. PageShape'
  BY <1>2 DEF PageShape, PageInv
<1>7. c \notin shared
  BY <1>1 DEF SessionInv, Shapes
<1>8. ASSUME NEW l \in Used'
      PROVE  rooms'[links'[l].code] = rooms[links'[l].code] /\ l \in Used /\ Lies(links[l], links'[l])
  <2>1. l \in Used /\ links'[l] = links[l]
    BY <1>2, <1>8 DEF Used
  <2>2. links[l].code \in Code /\ links[l].code # c
    BY <1>7, <2>1, LinkFacts, DriverShape DEF SessionInv, References
  <2> QED
    BY <1>3, <2>1, <2>2, LiesSame
<1>9. Drivers' = Drivers /\ \A x : DriverAt(x)' = DriverAt(x)
  BY <1>2 DEF Drivers, DriverAt
<1>10. \A x \in Drivers' : DriverAt(x)'.status = "connected" =>
           x \in Drivers /\ DriverAt(x).status = "connected" /\ DriverAt(x)'.socket = DriverAt(x).socket
  BY <1>9
<1> QED
  BY <1>2, <1>5, <1>6, <1>8, <1>10, PageRests

\* A page enters a room, with a driver that has no socket yet.
LEMMA EnterFollows ==
    ASSUME SessionInv, SessionInv', PageInv, NEW t \in Tab, NEW c, NEW claim, NEW password,
           Enter(t, NewDriver(c, claim, password)), UNCHANGED <<rooms, links>>
    PROVE  PageInv'
<1> DEFINE d == NewDriver(c, claim, password)
           n == Len(drivers[t]) + 1
<1>1. d.status = "connecting" /\ d.code = c
  BY DEF NewDriver
<1>2. /\ drivers' = [drivers EXCEPT ![t] = Append(@, d)]
      /\ current' = [current EXCEPT ![t] = n] /\ pages' = [pages EXCEPT ![t] = NewPage(c)]
  BY <1>1 DEF Enter
<1> HIDE DEF d
<1>3. drivers \in [Tab -> Seq(IsDriver)] /\ Len(drivers[t]) \in Nat
  BY LenProperties DEF SessionInv, Shapes
<1>4. /\ drivers[t] \in Seq(IsDriver \cup {d}) /\ d \in IsDriver \cup {d}
  BY <1>3
<1>5. /\ \A u \in Tab \ {t} : drivers'[u] = drivers[u] /\ current'[u] = current[u] /\ pages'[u] = pages[u]
      /\ current'[t] = n /\ pages'[t] = NewPage(c) /\ Len(drivers'[t]) = n
      /\ \A i \in 1 .. Len(drivers[t]) : drivers'[t][i] = drivers[t][i]
      /\ drivers'[t][n] = d
  <2>1. drivers'[t] = Append(drivers[t], d)
    BY <1>2, <1>3
  <2>2. /\ Len(Append(drivers[t], d)) = n /\ Append(drivers[t], d)[n] = d
        /\ \A i \in 1 .. Len(drivers[t]) : Append(drivers[t], d)[i] = drivers[t][i]
    BY <1>4, AppendProperties
  <2> QED
    BY <1>2, <2>1, <2>2 DEF SessionInv, Shapes
<1>6. Tables'
  BY TablesStay
<1>7. PageShape'
  <2>1. \A u \in Tab \ {t} : current'[u] # 0 => IsPage(pages'[u])
    BY <1>5 DEF PageInv, PageShape
  <2> QED
    BY <1>5, <2>1, NewPageShape DEF PageShape
<1>8. ASSUME NEW l \in Used', current'[links'[l].driver[1]] = links'[l].driver[2]
      PROVE  /\ current'[links'[l].driver[1]] = current[links'[l].driver[1]]
             /\ pages'[links'[l].driver[1]] = pages[links'[l].driver[1]]
  <2>1. links'[l].driver \in Drivers
    BY <1>8, LinkFacts DEF Used
  <2>2. links'[l].driver[1] \in Tab /\ links'[l].driver[2] \in 1 .. Len(drivers[links'[l].driver[1]])
    BY <2>1, DriverShape DEF SessionInv
  <2>3. links'[l].driver[1] # t
    BY <1>3, <1>5, <1>8, <2>2
  <2> QED
    BY <1>5, <2>2, <2>3
<1>9. ASSUME NEW x \in Drivers', DriverAt(x)'.status = "connected"
      PROVE  x \in Drivers /\ DriverAt(x).status = "connected" /\ DriverAt(x)'.socket = DriverAt(x).socket
  <2>1. x \in Driver /\ x[1] \in Tab /\ x[2] \in Nat \ {0} /\ x[2] <= Len(drivers'[x[1]])
    BY <1>9 DEF Drivers, Driver
  <2>2. CASE x[1] # t
    BY <1>5, <1>9, <2>1, <2>2 DEF Drivers, DriverAt
  <2>3. CASE x[1] = t /\ x[2] = n
    BY <1>1, <1>5, <1>9, <2>3 DEF DriverAt
  <2>4. CASE x[1] = t /\ x[2] # n
    <3>1. x[2] \in 1 .. Len(drivers[t])
      BY <1>3, <1>5, <2>1, <2>4
    <3> QED
      BY <1>3, <1>5, <1>9, <2>1, <2>4, <3>1 DEF Drivers, DriverAt
  <2> QED
    BY <2>2, <2>3, <2>4
<1>10. \A l \in Used' : l \in Used /\ Lies(links[l], links'[l])
  BY LiesSame DEF Used
<1> QED
  BY <1>6, <1>7, <1>8, <1>9, <1>10, PageRests

LEMMA AnsweredFollows == ASSUME SessionInv, SessionInv', PageInv, NEW q \in Request, Answered(q) PROVE PageInv'
BY EnterFollows DEF Answered, Request

LEMMA JoinFollows == ASSUME SessionInv, SessionInv', PageInv, NEW t \in Tab, SubmitJoin(t) PROVE PageInv'
<1>1. PICK c \in shared, password \in BOOLEAN : Enter(t, NewDriver(c, FALSE, password))
  BY DEF SubmitJoin
<1> QED
  BY <1>1, EnterFollows DEF SubmitJoin

\* A driver's socket opens: nothing is on its way to it yet.
LEMMA OpenFollows == ASSUME SessionInv, SessionInv', PageInv, NEW c \in Drivers, Opens(c) PROVE PageInv'
<1>1. DriverAt(c) \in IsDriver /\ DriverAt(c).status = "connecting"
  BY DriverShape DEF SessionInv, Opens
<1>2. PICK l : l = CHOOSE k \in FreeLinks : \A j \in FreeLinks : k <= j
  OBVIOUS
<1>3. l \in Link /\ l \notin Used
  <2>1. FreeLinks \subseteq Nat /\ FreeLinks # {}
    BY DEF Opens, FreeLinks, Link
  <2>2. \E k \in FreeLinks : \A j \in FreeLinks : k <= j
    BY <2>1, LeastNumber
  <2>3. l \in FreeLinks
    BY <1>2, <2>2
  <2> QED
    BY <2>3 DEF FreeLinks, Used
<1>4. PICK new : new = NewLink(c)
  OBVIOUS
<1>5. links' = [links EXCEPT ![l] = new] /\ Fresh(new)
  BY <1>2, <1>4 DEF Opens, NewLink, Fresh
<1>6. PICK e : e = [DriverAt(c) EXCEPT !.socket = l]
  OBVIOUS
<1>7. e \in IsDriver /\ e.status = "connecting"
  BY <1>1, <1>3, <1>6 DEF IsDriver
<1>8. drivers' = [drivers EXCEPT ![c[1]][c[2]] = e]
  BY <1>2, <1>6 DEF Opens, DriverAt
<1>9. /\ drivers' \in [Tab -> Seq(IsDriver)] /\ \A t \in Tab : Len(drivers'[t]) = Len(drivers[t])
      /\ DriverAt(c)' = e /\ \A x \in Drivers \ {c} : DriverAt(x)' = DriverAt(x)
  BY <1>7, <1>8, DriverReplaced DEF SessionInv
<1>10. Drivers' = Drivers
  BY <1>9 DEF Drivers, Driver
<1>11. links'[l] = new /\ \A k \in Link \ {l} : links'[k] = links[k]
  BY <1>3, <1>5 DEF SessionInv, Shapes
<1>12. UNCHANGED <<rooms, current, pages>>
  BY DEF Opens
<1>13. Tables' /\ PageShape'
  BY <1>12, TablesStay DEF PageShape, PageInv
<1>14. \A k \in Used' : (k \in Used /\ Lies(links[k], links'[k])) \/ (k \notin Used /\ Fresh(links'[k]))
  BY <1>3, <1>5, <1>11, LiesSame DEF Used
<1>15. \A x \in Drivers' : DriverAt(x)'.status = "connected" =>
           x \in Drivers /\ DriverAt(x).status = "connected" /\ DriverAt(x)'.socket = DriverAt(x).socket
  BY <1>7, <1>9, <1>10
<1> QED
  BY <1>12, <1>13, <1>14, <1>15, PageRests

\* A driver takes a frame, and its page folds it: the page shows one room, so
\* it is the page that refers to the driver.
LEMMA FrameFollows ==
    ASSUME SessionInv, SessionInv', PageInv, OneConnection, NEW l \in Link, HearsFrame(l)
    PROVE  PageInv'
<1> DEFINE k == links[l]
           frame == Head(k.down)
           rest == [k EXCEPT !.down = Tail(@)]
           h == IF AsksResync(DriverAt(k.driver), frame) THEN WithCommand(rest, [type |-> "resync"]) ELSE rest
<1>1. l \in Used /\ Faultless(k) /\ IsLink(k) /\ Orderly(k) /\ k.heard /\ k.down # <<>> /\ frame.type # "close"
  BY CodedUsed, LinkFacts DEF HearsFrame
<1>2. Faultless(rest) /\ frame \in Range(k.down) /\ Range(Tail(k.down)) \subseteq Range(k.down)
  BY <1>1, TakenFacts, ProperTail DEF IsLink
<1>3. /\ frame.version \in Int /\ (frame.type = "hello_ack" => k.pid # Nobody /\ frame.body.self = k.pid)
      /\ Fitting(frame)
  BY <1>1, <1>2 DEF Faultless, IsFrame, Orderly
<1>4. /\ h.code = k.code /\ h.driver = k.driver /\ h.pid = k.pid /\ h.gen = k.gen /\ h.open = k.open
      /\ h.listed = k.listed /\ h.cut = k.cut /\ h.heard = k.heard /\ h.down = Tail(k.down) /\ h # NoLink
  <2>1. /\ rest.code = k.code /\ rest.driver = k.driver /\ rest.pid = k.pid /\ rest.gen = k.gen
        /\ rest.open = k.open /\ rest.listed = k.listed /\ rest.cut = k.cut /\ rest.heard = k.heard
        /\ rest.down = Tail(k.down) /\ IsLink(rest)
    BY <1>1, <1>2 DEF IsLink, Faultless
  <2> HIDE DEF rest, k
  <2>2. LET g == WithCommand(rest, [type |-> "resync"])
        IN  /\ Faultless(g) /\ Lies(rest, g) /\ g.heard = rest.heard /\ g.cut = rest.cut
            /\ g.down = rest.down /\ g.listed = rest.listed
    BY <1>2, <2>1, WithCommandFacts, LiesCommand DEF CommandTypes
  <2>3. \A g : Faultless(g) => g # NoLink
    BY LinkUsed DEF Faultless
  <2> QED
    BY <1>2, <2>1, <2>2, <2>3 DEF Lies, Wanes
<1>5. PICK c \in Drivers : c = k.driver /\ DriverAt(c).socket = l
  BY <1>1 DEF SessionInv, References
<1> DEFINE d == Received(DriverAt(c), frame)
<1>6. c[1] \in Tab /\ c[2] # 0 /\ DriverAt(c) \in IsDriver
  BY DriverShape DEF SessionInv
<1>7. /\ d \in IsDriver /\ d.socket = l
      /\ d.status = "connected" => frame.type = "hello_ack" \/ DriverAt(c).status = "connected"
  BY <1>3, <1>5, <1>6, ReceivedFacts
<1>8. /\ drivers' = [drivers EXCEPT ![c[1]][c[2]] = d]
      /\ links' = [links EXCEPT ![l] = h]
      /\ pages' = [pages EXCEPT ![c[1]] = IF @ = NoPage THEN @ ELSE Folded(@, frame)]
      /\ UNCHANGED <<rooms, current>>
  BY <1>5 DEF HearsFrame
<1> HIDE DEF d, h, frame, rest
<1>9. /\ drivers' \in [Tab -> Seq(IsDriver)] /\ \A t \in Tab : Len(drivers'[t]) = Len(drivers[t])
      /\ DriverAt(c)' = d /\ \A x \in Drivers \ {c} : DriverAt(x)' = DriverAt(x)
  BY <1>7, <1>8, DriverReplaced DEF SessionInv
<1>10. Drivers' = Drivers
  BY <1>9 DEF Drivers, Driver
<1>11. links'[l] = h /\ \A j \in Link \ {l} : links'[j] = links[j]
  BY <1>8 DEF SessionInv, Shapes
<1>12. Used' = Used
  BY <1>1, <1>4, <1>11 DEF Used
<1>13. current[c[1]] = c[2]
  <2>1. l # NoSocket
    BY DEF Link, NoSocket
  <2>2. ~Stopped(DriverAt(c))
    BY <1>5, <2>1 DEF SessionInv, References
  <2> QED
    BY <2>2 DEF OneConnection
<1>14. /\ IsPage(pages[c[1]]) /\ pages'[c[1]] = Folded(pages[c[1]], frame)
       /\ \A t \in Tab \ {c[1]} : pages'[t] = pages[t]
  <2>1. IsPage(pages[c[1]])
    BY <1>6, <1>13 DEF PageInv, PageShape
  <2>2. pages[c[1]] # NoPage
    BY <2>1 DEF IsPage, Part, NoPage
  <2> QED
    BY <1>6, <1>8, <2>1, <2>2 DEF SessionInv, Shapes
<1>15. LinksInv'
  <2>1. \A j \in Used' : /\ rooms'[links'[j].code] = rooms[links'[j].code] /\ links'[j].code \in Code
                         /\ j \in Used /\ Wanes(links[j], links'[j])
    <3>1. Wanes(k, h)
      BY <1>1, <1>2, <1>4 DEF Wanes
    <3> HIDE DEF k
    <3>2. \A j \in Used : Wanes(links[j], links'[j])
      BY <1>11, <3>1, LiesSame DEF Used, Lies, k
    <3>3. \A j \in Used : links[j].code \in Code
      BY LinkFacts
    <3> QED
      BY <1>8, <1>12, <3>2, <3>3 DEF Wanes
  <2> QED
    BY <1>8, <2>1, LinksWane, TablesStay
<1>16. PageShape'
  BY <1>1, <1>3, <1>8, <1>14, FoldedIsPage DEF PageShape, PageInv
<1>17. Arrived'
  <2> SUFFICES ASSUME NEW x \in Drivers, DriverAt(x)'.status = "connected"
               PROVE  DriverAt(x)'.socket # NoSocket /\ links'[DriverAt(x)'.socket].pid # Nobody
    BY <1>10 DEF Arrived
  <2>1. CASE x = c
    <3>1. l # NoSocket
      BY DEF Link, NoSocket
    <3>2. k.pid # Nobody
      BY <1>3, <1>5, <1>7, <1>9, <2>1 DEF PageInv, Arrived
    <3> QED
      BY <1>4, <1>7, <1>9, <1>11, <2>1, <3>1, <3>2
  <2>2. CASE x # c
    <3> DEFINE j == DriverAt(x).socket
    <3>1. DriverAt(x)' = DriverAt(x)
      BY <1>9, <2>2
    <3>2. j # NoSocket /\ links[j].pid # Nobody /\ links[j].driver = x /\ j \in Link
      BY <3>1, DriverShape DEF PageInv, Arrived, SessionInv, References, IsDriver
    <3> HIDE DEF j
    <3>3. links'[j] = links[j]
      BY <1>5, <1>11, <2>2, <3>2
    <3> QED
      BY <3>1, <3>2, <3>3 DEF j
  <2> QED
    BY <2>1, <2>2
<1>18. Following'
  <2> SUFFICES ASSUME NEW j \in Used, links'[j].heard, current[links'[j].driver[1]] = links'[j].driver[2]
               PROVE  Catches(pages'[links'[j].driver[1]], links'[j], rooms[links'[j].code])
    BY <1>8, <1>12 DEF Following, Follower, Catches
  <2>1. CASE j = l
    <3>1. Catches(pages[c[1]], k, rooms[k.code])
      BY <1>1, <1>5, <1>13 DEF PageInv, Following, Follower
    <3>2. Proper(k.down)
      BY <1>1 DEF IsLink
    <3>3. ASSUME NEW q, Becomes(pages[c[1]], k.down, q) PROVE Becomes(pages'[c[1]], Tail(k.down), q)
      BY <1>1, <1>14, <3>2, <3>3, BecomesFirst DEF frame
    <3> HIDE DEF k
    <3>4. Catches(pages'[c[1]], h, rooms[k.code])
      BY <1>4, <3>1, <3>3 DEF Catches
    <3> QED
      BY <1>4, <1>5, <1>11, <2>1, <3>4
  <2>2. CASE j # l
    <3>1. links'[j] = links[j]
      BY <1>11, <2>2 DEF Used
    <3>2. links[j].driver \in Drivers /\ DriverAt(links[j].driver).socket = j
      BY <3>1 DEF SessionInv, References
    <3>3. links[j].driver # c
      BY <1>5, <2>2, <3>2
    <3>4. links[j].driver = <<links[j].driver[1], links[j].driver[2]>> /\ links[j].driver[1] \in Tab
          /\ c = <<c[1], c[2]>>
      BY <3>2, DriverShape DEF SessionInv
    <3>5. links[j].driver[1] # c[1]
      BY <1>13, <3>1, <3>3, <3>4
    <3>6. pages'[links[j].driver[1]] = pages[links[j].driver[1]]
      BY <1>14, <3>4, <3>5
    <3>7. Follower(j)
      BY <3>1 DEF Follower
    <3> QED
      BY <3>1, <3>6, <3>7 DEF PageInv, Following
  <2> QED
    BY <2>1, <2>2
<1> QED
  BY <1>15, <1>16, <1>17, <1>18 DEF PageInv

-----------------------------------------------------------------------------
(* The theorems.                                                           *)

LEMMA InitFollows == ASSUME Init PROVE PageInv
<1> USE DEF Init
<1>1. Used = {} /\ Drivers = {}
  <2>1. \A x \in Driver : x[1] \in Tab /\ x[2] \in 1 .. MaxEntries /\ Len(drivers[x[1]]) = 0
    BY ProperEmpty DEF Driver
  <2> QED
    BY <2>1 DEF Used, Drivers
<1>2. \A c \in Code : ~Exists(c)
  BY DEF Exists, Unmade
<1>3. LinksInv
  BY <1>1, <1>2 DEF LinksInv, Tables, Order, Standing, Apart
<1> QED
  BY <1>1, <1>3 DEF PageInv, PageShape, Arrived, Following

LEMMA StutterFollows == ASSUME SessionInv, SessionInv', PageInv, UNCHANGED vars PROVE PageInv'
<1>1. UNCHANGED <<rooms, links, drivers, current, pages>>
  BY DEF vars
<1>2. \A l \in Used' : l \in Used /\ Lies(links[l], links'[l])
  BY <1>1, LiesSame DEF Used
<1> QED
  BY <1>1, <1>2, QuietFollows

LEMMA StepFollows == ASSUME SessionInv, SessionInv', PageInv, OneConnection, [Next]_vars PROVE PageInv'
<1>1. ASSUME NEW q \in Request,
             \/ SubmitCreate(q) \/ RouterCreates(q) \/ RouterCollides(q) \/ CreateFails(q)
             \/ Answered(q) \/ AnsweredNo(q)
      PROVE  PageInv'
  BY <1>1, RequestFollows, CreateFollows, AnsweredFollows
<1>2. ASSUME NEW t \in Tab, SubmitJoin(t) \/ LeaveRoom(t) \/ UsesControl(t)
      PROVE  PageInv'
  BY <1>2, JoinFollows, LeaveFollows, ControlFollows
<1>3. ASSUME NEW c \in Drivers, Opens(c) \/ FailsToOpen(c) \/ TriesAgain(c)
      PROVE  PageInv'
  BY <1>3, OpenFollows, FailFollows, TryFollows
<1>4. ASSUME NEW l \in Link, HearsFrame(l) \/ HearsClose(l) \/ RoomReads(l) \/ RoomHearsClose(l) \/ IsCut(l)
      PROVE  PageInv'
  BY <1>4, FrameFollows, HearsCloseFollows, ReadsFollow, CloseFollows, CutFollows
<1>5. ASSUME NEW c \in Code, AlarmFires(c) PROVE PageInv'
  BY <1>5, AlarmFollows
<1> QED
  BY <1>1, <1>2, <1>3, <1>4, <1>5, StutterFollows DEF Next

\* As long as no driver goes on that its page does not refer to, folding what
\* is on its way to a page gives what its room holds: every handler of room.ts
\* announces to each socket all that it changes for it.
THEOREM PagesAlwaysFollow == Spec /\ []OneConnection => []PageInv
<1>1. Init => PageInv
  BY InitFollows
<1>2. SessionInv /\ SessionInv' /\ PageInv /\ OneConnection /\ [Next]_vars => PageInv'
  BY StepFollows, SMTT(30)
<1> QED
  BY <1>1, <1>2, SessionAlways, PTL DEF Spec

\* A connected page that nothing is on its way to shows what its room holds.
LEMMA SettledPagesFollow == ASSUME SessionInv, PageInv PROVE PageFollows
<1> SUFFICES ASSUME NEW t \in Tab, current[t] # 0,
                    LET d == drivers[t][current[t]]
                        link == links[d.socket]
                    IN  d.status = "connected" /\ link.open /\ ~link.cut /\ link.down = <<>>
             PROVE  LET d == drivers[t][current[t]]
                        link == links[d.socket]
                    IN  Agrees(pages[t], rooms[d.code], link.pid, link.gen)
  BY DEF PageFollows, Agrees, Alike, Viewed
<1>1. PICK x : x = <<t, current[t]>>
  OBVIOUS
<1>2. x \in Drivers /\ x[1] = t /\ x[2] = current[t] /\ DriverAt(x) = drivers[t][current[t]]
  <2>1. current[t] \in 1 .. Len(drivers[t]) /\ Len(drivers[t]) \in Nat /\ Len(drivers[t]) <= MaxEntries
    BY LenProperties DEF SessionInv, Shapes
  <2> QED
    BY <1>1, <2>1, SessionAssumption DEF Drivers, Driver, DriverAt
<1> DEFINE l == DriverAt(x).socket
           r == rooms[DriverAt(x).code]
<1>3. l # NoSocket /\ links[l].pid # Nobody /\ DriverAt(x).status = "connected"
  BY <1>2 DEF PageInv, Arrived
<1>4. l \in Used /\ links[l].heard /\ links[l].driver = x /\ DriverAt(x).code = links[l].code
  <2>1. l \in Link
    BY <1>2, <1>3, DriverShape DEF SessionInv, IsDriver
  <2>2. links[l] # NoLink /\ links[l].heard /\ links[l].driver = x
    BY <1>2, <1>3 DEF SessionInv, References
  <2> HIDE DEF l
  <2>3. l \in Used
    BY <2>1, <2>2 DEF Used
  <2> QED
    BY <2>2, <2>3 DEF SessionInv, References
<1>5. Follower(l)
  BY <1>2, <1>4 DEF Follower
<1>6. links[l].open /\ ~links[l].cut /\ links[l].down = <<>>
  BY <1>2
<1>7. Catches(pages[t], links[l], r)
  BY <1>2, <1>4, <1>5 DEF PageInv, Following
<1> HIDE DEF l, r
<1>8. PICK q : Becomes(pages[t], links[l].down, q) /\ Agrees(q, r, links[l].pid, links[l].gen)
  BY <1>3, <1>6, <1>7 DEF Catches
<1>9. q = pages[t]
  BY <1>6, <1>8, BecomesNothing
<1> QED
  BY <1>2, <1>8, <1>9, SMTT(30) DEF l, r

\* PageFollows: whenever a page is connected and nothing is on its way to it,
\* it shows what its room holds, whatever the numbers of tabs, rooms, sockets
\* and picks, and however often sockets are lost and drivers come back.
THEOREM PagesFollow == Spec /\ []OneConnection => []PageFollows
<1>1. SessionInv /\ PageInv => PageFollows
  BY SettledPagesFollow
<1> QED
  BY <1>1, SessionAlways, PagesAlwaysFollow, PTL

-----------------------------------------------------------------------------
(* A room starts as the table its host was shown: versions.                *)

\* A socket the room has closed although its identity is still there: a newer
\* one has taken its place.
Outlived(k, r) == k.listed /\ ~k.open /\ k.pid \in DOMAIN r.people

\* Nothing that is on its way is newer than the room, and to a socket that was
\* replaced nothing is as new as the room.
Dated(k, r) ==
    \A f \in Range(k.down) : f.type # "close" => f.version <= r.version /\ (Outlived(k, r) => f.version < r.version)

\* A start on its way names a version the room has had; and if the room still
\* has it, in its lobby with the sender, the sender saw the room as it is.
Timed(m, k, r) ==
    m.type = "start_draft" =>
        /\ m.expected \in Int /\ m.expected <= r.version
        /\ (k.listed /\ k.pid \in DOMAIN r.people /\ r.phase = "lobby" /\ m.expected = r.version) =>
               m.saw = [unsettled |-> TRUE] \/ m.saw = LobbyOf(Layout(r), r.config)

Timely(k, r) == \A m \in Range(k.up) : Timed(m, k, r)

\* Whoever listens to a socket that was replaced has not heard of its room's
\* last version.
Prompt(k, last, r) == Dated(k, r) /\ Timely(k, r) /\ (k.heard /\ Outlived(k, r) => last < r.version)

\* No driver has heard of a version its room has not had.
Knowing(x) == Exists(DriverAt(x).code) => DriverAt(x).last <= rooms[DriverAt(x).code].version
Punctual(l) == Exists(links[l].code) => Prompt(links[l], DriverAt(links[l].driver).last, rooms[links[l].code])

StartInv == (\A x \in Drivers : Knowing(x)) /\ (\A l \in Used : Punctual(l))

\* What the next state has to show.
LEMMA KnowingNext ==
    ASSUME NEW x, NEW d, DriverAt(x)' = d,
           rooms'[d.code].phase \notin {"unmade", "gone"} => d.last <= rooms'[d.code].version
    PROVE  Knowing(x)'
BY DEF Knowing, Exists, DriverAt

LEMMA PunctualNext ==
    ASSUME NEW l, NEW n, links'[l] = n, NEW d, DriverAt(n.driver)' = d,
           rooms'[n.code].phase \notin {"unmade", "gone"} => Prompt(n, d.last, rooms'[n.code])
    PROVE  Punctual(l)'
BY DEF Punctual, Exists, DriverAt, Prompt, Dated, Outlived, Timely, Timed, LobbyOf, Layout

\* What a socket carries goes on, or less of it does, and a command is added.
Eases(k, n, r) ==
    /\ Wanes(k, n) /\ (n.heard => k.heard)
    /\ \A m \in Range(n.up) : m \in Range(k.up) \/ (r.phase \notin {"unmade", "gone"} => Timed(m, k, r))

LEMMA PromptEases ==
    ASSUME NEW k, NEW n, NEW r, Eases(k, n, r), NEW last, Prompt(k, last, r), NEW then,
           r.phase \notin {"unmade", "gone"},
           n.heard /\ Outlived(n, r) => then < r.version
    PROVE  Prompt(n, then, r)
<1>1. Outlived(n, r) => Outlived(k, r)
  BY DEF Eases, Wanes, Outlived
<1>2. Dated(n, r)
  BY <1>1 DEF Eases, Wanes, Dated, Prompt
<1>3. ASSUME NEW m, Timed(m, k, r) PROVE Timed(m, n, r)
  BY <1>3 DEF Timed, Eases, Wanes
<1>4. Timely(n, r)
  BY <1>3 DEF Timely, Prompt, Eases
<1> QED
  BY <1>2, <1>4 DEF Prompt

\* A socket that has just been opened.
LEMMA PromptFresh ==
    ASSUME NEW n, Fresh(n), n.open, \A m \in Range(n.up) : m.type # "start_draft", NEW r, NEW last
    PROVE  Prompt(n, last, r)
<1>1. Range(n.down) = {}
  BY ProperEmpty DEF Fresh
<1> QED
  BY <1>1 DEF Prompt, Dated, Timely, Timed, Outlived

LEMMA DriverShapeNext == ASSUME Shapes', NEW x \in Drivers' PROVE DriverAt(x)' \in IsDriver
<1>1. x \in Driver /\ x[1] \in Tab /\ x[2] \in 1 .. Len(drivers'[x[1]])
  BY SessionAssumption DEF Drivers, Driver
<1>2. drivers'[x[1]] \in Seq(IsDriver)
  BY <1>1 DEF Shapes
<1>3. drivers'[x[1]][x[2]] \in IsDriver
  BY <1>1, <1>2, ElementOfSeq
<1> QED
  BY <1>3 DEF DriverAt

\* The versions of a room that exists are numbers.
LEMMA VersionNumber ==
    ASSUME SessionInv, NEW c \in Code, rooms[c].phase \notin {"unmade", "gone"}
    PROVE  rooms[c].version \in Nat /\ IsRoom(rooms[c])
BY RoomShape DEF SessionInv, Exists, IsRoom

\* The rooms stay as they are; drivers come and go, and nobody hears anything.
LEMMA StartRests ==
    ASSUME SessionInv, SessionInv', StartInv,
           \A x \in Drivers' : /\ rooms'[DriverAt(x)'.code] = rooms[DriverAt(x)'.code]
                               /\ \/ x \in Drivers /\ DriverAt(x)'.code = DriverAt(x).code
                                     /\ DriverAt(x)'.last = DriverAt(x).last
                                  \/ DriverAt(x)'.last = Unseen,
           \A l \in Used' : \/ l \in Used /\ Eases(links[l], links'[l], rooms[links[l].code])
                            \/ /\ Fresh(links'[l]) /\ links'[l].open
                               /\ \A m \in Range(links'[l].up) : m.type # "start_draft"
    PROVE  StartInv'
<1>1. ASSUME NEW x \in Drivers'
      PROVE  /\ DriverAt(x)' \in IsDriver /\ DriverAt(x)'.code \in Code
             /\ rooms'[DriverAt(x)'.code] = rooms[DriverAt(x)'.code]
  BY DriverShapeNext DEF SessionInv, IsDriver
<1>2. ASSUME NEW x \in Drivers' PROVE Knowing(x)'
  <2>1. PICK d \in IsDriver : d = DriverAt(x)' /\ d.code \in Code /\ rooms'[d.code] = rooms[d.code]
    BY <1>1
  <2>2. SUFFICES ASSUME rooms[d.code].phase \notin {"unmade", "gone"} PROVE d.last <= rooms[d.code].version
    BY <2>1, KnowingNext
  <2>3. rooms[d.code].version \in Nat
    BY <2>1, <2>2, VersionNumber
  <2>4. CASE x \in Drivers /\ d.code = DriverAt(x).code /\ d.last = DriverAt(x).last
    BY <2>2, <2>4 DEF StartInv, Knowing, Exists
  <2>5. CASE d.last = Unseen
    BY <2>3, <2>5 DEF Unseen
  <2> QED
    BY <2>1, <2>4, <2>5
<1>3. ASSUME NEW l \in Used' PROVE Punctual(l)'
  <2>1. PICK n : n = links'[l]
    OBVIOUS
  <2>2. PICK x \in Drivers' : x = n.driver /\ n.code = DriverAt(x)'.code
    <3>1. References'
      BY DEF SessionInv
    <3>2. \A k \in Used' : /\ links'[k].driver \in Drivers'
                           /\ links'[k].code = drivers'[links'[k].driver[1]][links'[k].driver[2]].code
      BY <3>1, Zenon DEF References, DriverAt
    <3>3. n.driver \in Drivers' /\ n.code = drivers'[n.driver[1]][n.driver[2]].code
      BY <2>1, <3>2, Zenon
    <3>4. DriverAt(n.driver)' = drivers'[n.driver[1]][n.driver[2]]
      BY DEF DriverAt
    <3> QED
      BY <3>3, <3>4, Zenon
  <2>3. PICK d \in IsDriver : d = DriverAt(x)' /\ d.code = n.code /\ n.code \in Code /\ rooms'[n.code] = rooms[n.code]
    BY <1>1, <2>2
  <2>4. SUFFICES ASSUME rooms[n.code].phase \notin {"unmade", "gone"} PROVE Prompt(n, d.last, rooms[n.code])
    BY <2>1, <2>2, <2>3, PunctualNext
  <2>5. rooms[n.code].version \in Nat
    BY <2>3, <2>4, VersionNumber
  <2>6. CASE Fresh(n) /\ n.open /\ \A m \in Range(n.up) : m.type # "start_draft"
    BY <2>6, PromptFresh
  <2>7. CASE l \in Used /\ Eases(links[l], n, rooms[links[l].code])
    <3>1. n.code = links[l].code /\ n.driver = links[l].driver
      BY <2>7 DEF Eases, Wanes
    <3>2. PICK last : last = DriverAt(x).last
      OBVIOUS
    <3>3. Prompt(links[l], last, rooms[n.code])
      BY <2>2, <2>4, <2>7, <3>1, <3>2 DEF StartInv, Punctual, Exists
    <3>4. n.heard /\ Outlived(n, rooms[n.code]) => d.last < rooms[n.code].version
      <4>1. CASE d.last = Unseen
        BY <2>5, <4>1 DEF Unseen
      <4>2. CASE d.last = last
        <5>1. n.heard => links[l].heard
          BY <2>7 DEF Eases
        <5>2. Outlived(n, rooms[n.code]) => Outlived(links[l], rooms[n.code])
          BY <2>7 DEF Eases, Wanes, Outlived
        <5> QED
          BY <3>3, <4>2, <5>1, <5>2 DEF Prompt
      <4> QED
        BY <2>2, <2>3, <3>2, <4>1, <4>2
    <3> QED
      BY <2>4, <2>7, <3>1, <3>3, <3>4, PromptEases
  <2> QED
    BY <2>1, <2>6, <2>7
<1> QED
  BY <1>2, <1>3 DEF StartInv

LEMMA EasesSame == ASSUME NEW k, NEW r PROVE Eases(k, k, r)
BY DEF Eases, Wanes

\* Nobody hears anything, and no driver comes or goes.
LEMMA QuietStarts ==
    ASSUME SessionInv, SessionInv', StartInv, UNCHANGED <<rooms, drivers>>,
           \A l \in Used' : l \in Used /\ Eases(links[l], links'[l], rooms[links[l].code])
    PROVE  StartInv'
<1>1. Drivers' = Drivers /\ \A x : DriverAt(x)' = DriverAt(x)
  BY DEF Drivers, DriverAt
<1>2. \A x \in Drivers' : /\ rooms'[DriverAt(x)'.code] = rooms[DriverAt(x)'.code]
                          /\ x \in Drivers /\ DriverAt(x)'.code = DriverAt(x).code
                          /\ DriverAt(x)'.last = DriverAt(x).last
  BY <1>1
<1> QED
  BY <1>2, StartRests

\* One socket becomes another, or is forgotten.
LEMMA OneEases ==
    ASSUME SessionInv, NEW l \in Used, NEW n, n = NoLink \/ Eases(links[l], n, rooms[links[l].code]),
           links' = [links EXCEPT ![l] = n]
    PROVE  \A k \in Used' : k \in Used /\ Eases(links[k], links'[k], rooms[links[k].code])
<1>1. DOMAIN links = Link /\ l \in Link
  BY DEF SessionInv, Shapes, Used
<1>2. links'[l] = n /\ \A k \in Link \ {l} : links'[k] = links[k]
  BY <1>1
<1> QED
  BY <1>2, EasesSame DEF Used

LEMMA RequestStarts ==
    ASSUME SessionInv, SessionInv', StartInv, NEW q \in Request,
           SubmitCreate(q) \/ RouterCollides(q) \/ CreateFails(q) \/ AnsweredNo(q)
    PROVE  StartInv'
<1>1. UNCHANGED <<rooms, links, drivers>>
  BY DEF SubmitCreate, RouterCollides, CreateFails, AnsweredNo
<1>2. \A l \in Used' : l \in Used /\ Eases(links[l], links'[l], rooms[links[l].code])
  BY <1>1, EasesSame DEF Used
<1> QED
  BY <1>1, <1>2, QuietStarts

LEMMA StutterStarts == ASSUME SessionInv, SessionInv', StartInv, UNCHANGED vars PROVE StartInv'
<1>1. UNCHANGED <<rooms, links, drivers>>
  BY DEF vars
<1>2. \A l \in Used' : l \in Used /\ Eases(links[l], links'[l], rooms[links[l].code])
  BY <1>1, EasesSame DEF Used
<1> QED
  BY <1>1, <1>2, QuietStarts

\* The router makes a room: nobody knows of it.
LEMMA CreateStarts == ASSUME SessionInv, SessionInv', StartInv, NEW q \in Request, RouterCreates(q) PROVE StartInv'
<1>1. PICK c \in Code, options \in Options : rooms[c] = Unmade /\ rooms' = [rooms EXCEPT ![c] = NewRoom(options)]
  BY DEF RouterCreates, MayInitialize
<1>2. UNCHANGED <<links, drivers, shared>>
  BY DEF RouterCreates
<1>3. c \notin shared /\ \A d \in Code \ {c} : rooms'[d] = rooms[d]
  BY <1>1 DEF SessionInv, Shapes
<1>4. Drivers' = Drivers /\ \A x : DriverAt(x)' = DriverAt(x)
  BY <1>2 DEF Drivers, DriverAt
<1>5. \A x \in Drivers : DriverAt(x).code \in Code /\ DriverAt(x).code # c
  BY <1>3, DriverShape DEF SessionInv, References
<1>6. \A x \in Drivers' : /\ rooms'[DriverAt(x)'.code] = rooms[DriverAt(x)'.code]
                          /\ x \in Drivers /\ DriverAt(x)'.code = DriverAt(x).code
                          /\ DriverAt(x)'.last = DriverAt(x).last
  BY <1>3, <1>4, <1>5
<1>7. \A l \in Used' : l \in Used /\ Eases(links[l], links'[l], rooms[links[l].code])
  BY <1>2, EasesSame DEF Used
<1> QED
  BY <1>6, <1>7, StartRests

\* A page enters a room: its driver has heard of no version.
LEMMA EnterStarts ==
    ASSUME SessionInv, SessionInv', StartInv, NEW t \in Tab, NEW c, NEW claim, NEW password,
           Enter(t, NewDriver(c, claim, password)), UNCHANGED <<rooms, links>>
    PROVE  StartInv'
<1>1. PICK d : d = NewDriver(c, claim, password) /\ d.last = Unseen
  BY DEF NewDriver
<1>2. PICK n : n = Len(drivers[t]) + 1
  OBVIOUS
<1>3. drivers' = [drivers EXCEPT ![t] = Append(@, d)]
  BY <1>1 DEF Enter
<1>4. drivers \in [Tab -> Seq(IsDriver)] /\ Len(drivers[t]) \in Nat
  BY LenProperties DEF SessionInv, Shapes
<1>5. drivers[t] \in Seq(IsDriver \cup {d}) /\ d \in IsDriver \cup {d}
  BY <1>4
<1>6. /\ \A u \in Tab \ {t} : drivers'[u] = drivers[u]
      /\ \A i \in 1 .. Len(drivers[t]) : drivers'[t][i] = drivers[t][i]
      /\ drivers'[t][n] = d /\ Len(drivers'[t]) = n
  <2>1. drivers'[t] = Append(drivers[t], d)
    BY <1>3, <1>4
  <2>2. /\ Len(Append(drivers[t], d)) = n /\ Append(drivers[t], d)[n] = d
        /\ \A i \in 1 .. Len(drivers[t]) : Append(drivers[t], d)[i] = drivers[t][i]
    BY <1>2, <1>5, AppendProperties
  <2> QED
    BY <1>3, <2>1, <2>2
<1>7. ASSUME NEW x \in Drivers'
      PROVE  (x \in Drivers /\ DriverAt(x)' = DriverAt(x)) \/ DriverAt(x)' = d
  <2>1. x \in Driver /\ x[1] \in Tab /\ x[2] \in Nat \ {0} /\ x[2] <= Len(drivers'[x[1]])
    BY SessionAssumption DEF Drivers, Driver
  <2>2. CASE x[1] # t
    BY <1>6, <2>1, <2>2 DEF Drivers, DriverAt
  <2>3. CASE x[1] = t /\ x[2] = n
    BY <1>6, <2>3 DEF DriverAt
  <2>4. CASE x[1] = t /\ x[2] # n
    <3>1. x[2] \in 1 .. Len(drivers[t])
      BY <1>2, <1>4, <1>6, <2>1, <2>4
    <3> QED
      BY <1>4, <1>6, <2>1, <2>4, <3>1 DEF Drivers, DriverAt
  <2> QED
    BY <2>2, <2>3, <2>4
<1>8. \A x \in Drivers' : /\ rooms'[DriverAt(x)'.code] = rooms[DriverAt(x)'.code]
                          /\ \/ x \in Drivers /\ DriverAt(x)'.code = DriverAt(x).code
                                /\ DriverAt(x)'.last = DriverAt(x).last
                             \/ DriverAt(x)'.last = Unseen
  BY <1>1, <1>7
<1>9. \A l \in Used' : l \in Used /\ Eases(links[l], links'[l], rooms[links[l].code])
  BY EasesSame DEF Used
<1> QED
  BY <1>8, <1>9, StartRests

LEMMA AnsweredStarts == ASSUME SessionInv, SessionInv', StartInv, NEW q \in Request, Answered(q) PROVE StartInv'
BY EnterStarts DEF Answered, Request

LEMMA JoinStarts == ASSUME SessionInv, SessionInv', StartInv, NEW t \in Tab, SubmitJoin(t) PROVE StartInv'
<1>1. PICK c \in shared, password \in BOOLEAN : Enter(t, NewDriver(c, FALSE, password))
  BY DEF SubmitJoin
<1> QED
  BY <1>1, EnterStarts DEF SubmitJoin

\* The backoff ends.
LEMMA TryStarts == ASSUME SessionInv, SessionInv', StartInv, NEW c \in Drivers, TriesAgain(c) PROVE StartInv'
<1>1. DriverAt(c) \in IsDriver
  BY DriverShape DEF SessionInv
<1>2. PICK d \in IsDriver : d = [DriverAt(c) EXCEPT !.status = "connecting"]
  BY <1>1 DEF IsDriver, Stages
<1>3. d.code = DriverAt(c).code /\ d.last = DriverAt(c).last
  BY <1>1, <1>2 DEF IsDriver
<1>4. drivers' = [drivers EXCEPT ![c[1]][c[2]] = d]
  BY <1>2 DEF TriesAgain, DriverAt
<1>5. /\ \A t \in Tab : Len(drivers'[t]) = Len(drivers[t])
      /\ DriverAt(c)' = d /\ \A x \in Drivers \ {c} : DriverAt(x)' = DriverAt(x)
  BY <1>4, DriverReplaced DEF SessionInv
<1>6. Drivers' = Drivers
  BY <1>5 DEF Drivers, Driver
<1>7. UNCHANGED <<rooms, links>>
  BY DEF TriesAgain
<1>8. \A x \in Drivers' : /\ rooms'[DriverAt(x)'.code] = rooms[DriverAt(x)'.code]
                          /\ x \in Drivers /\ DriverAt(x)'.code = DriverAt(x).code
                          /\ DriverAt(x)'.last = DriverAt(x).last
  BY <1>3, <1>5, <1>6, <1>7
<1>9. \A l \in Used' : l \in Used /\ Eases(links[l], links'[l], rooms[links[l].code])
  BY <1>7, EasesSame DEF Used
<1> QED
  BY <1>8, <1>9, StartRests

\* A driver's socket opens.
LEMMA OpenStarts == ASSUME SessionInv, SessionInv', StartInv, NEW c \in Drivers, Opens(c) PROVE StartInv'
<1>1. DriverAt(c) \in IsDriver
  BY DriverShape DEF SessionInv
<1>2. PICK l : l = CHOOSE k \in FreeLinks : \A j \in FreeLinks : k <= j
  OBVIOUS
<1>3. l \in Link /\ l \notin Used
  <2>1. FreeLinks \subseteq Nat /\ FreeLinks # {}
    BY DEF Opens, FreeLinks, Link
  <2>2. \E k \in FreeLinks : \A j \in FreeLinks : k <= j
    BY <2>1, LeastNumber
  <2>3. l \in FreeLinks
    BY <1>2, <2>2
  <2> QED
    BY <2>3 DEF FreeLinks, Used
<1>4. PICK new : new = NewLink(c)
  OBVIOUS
<1>5. links' = [links EXCEPT ![l] = new] /\ Fresh(new) /\ new.open
  BY <1>2, <1>4 DEF Opens, NewLink, Fresh
<1>6. \A m \in Range(new.up) : m.type # "start_draft"
  <2> DEFINE m == HelloOf(DriverAt(c), stored[Home(c)][DriverAt(c).code])
  <2>1. m.type = "hello"
    BY DEF HelloOf
  <2>2. new.up = <<m>>
    BY <1>4 DEF NewLink
  <2> HIDE DEF m
  <2>3. Range(new.up) = {m}
    BY <2>2, ProperFew
  <2> QED
    BY <2>1, <2>3
<1>7. PICK d \in IsDriver : d = [DriverAt(c) EXCEPT !.socket = l]
  BY <1>1, <1>3 DEF IsDriver
<1>8. d.code = DriverAt(c).code /\ d.last = DriverAt(c).last
  BY <1>1, <1>7 DEF IsDriver
<1>9. drivers' = [drivers EXCEPT ![c[1]][c[2]] = d]
  BY <1>2, <1>7 DEF Opens, DriverAt
<1>10. /\ \A t \in Tab : Len(drivers'[t]) = Len(drivers[t])
       /\ DriverAt(c)' = d /\ \A x \in Drivers \ {c} : DriverAt(x)' = DriverAt(x)
  BY <1>9, DriverReplaced DEF SessionInv
<1>11. Drivers' = Drivers
  BY <1>10 DEF Drivers, Driver
<1>12. UNCHANGED rooms
  BY DEF Opens
<1>13. \A x \in Drivers' : /\ rooms'[DriverAt(x)'.code] = rooms[DriverAt(x)'.code]
                           /\ x \in Drivers /\ DriverAt(x)'.code = DriverAt(x).code
                           /\ DriverAt(x)'.last = DriverAt(x).last
  BY <1>8, <1>10, <1>11, <1>12
<1>14. links'[l] = new /\ \A k \in Link \ {l} : links'[k] = links[k]
  BY <1>3, <1>5 DEF SessionInv, Shapes
<1>15. \A k \in Used' : \/ k \in Used /\ Eases(links[k], links'[k], rooms[links[k].code])
                        \/ /\ Fresh(links'[k]) /\ links'[k].open
                           /\ \A m \in Range(links'[k].up) : m.type # "start_draft"
  BY <1>5, <1>6, <1>14, EasesSame DEF Used
<1> QED
  BY <1>13, <1>15, StartRests

LEMMA CutStarts == ASSUME SessionInv, SessionInv', StartInv, NEW l \in Link, IsCut(l) PROVE StartInv'
<1>1. l \in Used /\ IsLink(links[l])
  BY CodedUsed DEF IsCut, SessionInv, Sockets, Faultless
<1>2. PICK down : down = IF links[l].heard THEN <<CloseFrame("lost", "none")>> ELSE <<>>
  OBVIOUS
<1>3. PICK listed \in {links[l].listed, FALSE} :
          links' = [links EXCEPT ![l] = Settled([@ EXCEPT !.cut = TRUE, !.listed = listed, !.up = <<>>, !.down = down])]
  BY <1>2 DEF IsCut
<1>4. PICK h : h = [links[l] EXCEPT !.cut = TRUE, !.listed = listed, !.up = <<>>, !.down = down]
  OBVIOUS
<1>5. \A f \in Range(down) : f.type = "close"
  <2>1. Range(<<>>) = {} /\ Range(<<CloseFrame("lost", "none")>>) = {CloseFrame("lost", "none")}
    BY ProperEmpty, ProperFew
  <2>2. CloseFrame("lost", "none").type = "close"
    BY DEF CloseFrame
  <2> QED
    BY <1>2, <2>1, <2>2
<1>6. links' = [links EXCEPT ![l] = Settled(h)]
  BY <1>3, <1>4
<1>7. /\ h.code = links[l].code /\ h.driver = links[l].driver /\ h.pid = links[l].pid /\ h.gen = links[l].gen
      /\ h.open = links[l].open /\ h.heard = links[l].heard /\ h.listed = listed /\ h.cut = TRUE
      /\ h.down = down /\ h.up = <<>>
  BY <1>1, <1>4 DEF IsLink
<1>8. Eases(links[l], h, rooms[links[l].code])
  <2>1. Range(h.up) = {}
    BY <1>7, ProperEmpty
  <2> QED
    BY <1>1, <1>5, <1>7, <2>1 DEF Eases, Wanes, IsLink
<1>9. \A k \in Used' : k \in Used /\ Eases(links[k], links'[k], rooms[links[k].code])
  <2>1. Settled(h) = NoLink \/ Settled(h) = h
    BY SettledFacts
  <2> QED
    BY <1>1, <1>6, <1>8, <2>1, OneEases
<1> QED
  BY <1>9, QuietStarts DEF IsCut

\* A driver that lets go of its socket.
LEMMA EasesAbandoned ==
    ASSUME NEW k, NEW n, NEW r, Faultless(n), Eases(k, n, r)
    PROVE  Abandoned(n) = NoLink \/ Eases(k, Abandoned(n), r)
<1>1. PICK h : h = [n EXCEPT !.heard = FALSE, !.cut = TRUE, !.down = <<>>]
  OBVIOUS
<1>2. /\ h.code = n.code /\ h.driver = n.driver /\ h.pid = n.pid /\ h.gen = n.gen /\ h.open = n.open
      /\ h.listed = n.listed /\ h.up = n.up /\ h.heard = FALSE /\ h.cut = TRUE /\ h.down = <<>>
  BY <1>1 DEF Faultless, IsLink
<1>3. Range(h.down) = {}
  BY <1>2, ProperEmpty
<1>4. Eases(k, h, r)
  BY <1>2, <1>3 DEF Eases, Wanes
<1>5. Abandoned(n) = NoLink \/ Abandoned(n) = h
  BY <1>1, SettledFacts DEF Abandoned
<1> QED
  BY <1>4, <1>5

\* A driver lets go of its socket, if it has one; its page may end.
LEMMA LetsGoStarts ==
    ASSUME SessionInv, SessionInv', StartInv, UNCHANGED rooms, NEW c \in Drivers, NEW d \in IsDriver,
           d.socket = NoSocket, d.code = DriverAt(c).code, d.last = DriverAt(c).last,
           NEW all, DOMAIN all = Link, DriverIs(c, d, all),
           \A l \in Link : \/ all[l] = links[l]
                           \/ /\ l = DriverAt(c).socket /\ l \in Used
                              /\ all[l] = NoLink \/ Eases(links[l], all[l], rooms[links[l].code])
    PROVE  StartInv'
<1>1. /\ \A t \in Tab : Len(drivers'[t]) = Len(drivers[t])
      /\ DriverAt(c)' = d /\ DOMAIN links' = Link
  BY DriverIsFacts DEF SessionInv
<1>2. PICK Z \in SUBSET (Drivers \ {c}) : EndsWith(Z, c, all)
  BY DriverIsFacts DEF SessionInv
<1>3. Drivers' = Drivers
  BY <1>1 DEF Drivers, Driver
<1>4. ASSUME NEW x \in Drivers
      PROVE  DriverAt(x)'.code = DriverAt(x).code /\ DriverAt(x)'.last = DriverAt(x).last
  <2>1. CASE x = c
    BY <1>1, <2>1
  <2>2. CASE x # c
    <3>1. DriverAt(x)' = IF x \in Z THEN StoppedFor(DriverAt(x), "done") ELSE DriverAt(x)
      BY <1>2, <2>2 DEF EndsWith
    <3>2. DriverAt(x) \in IsDriver
      BY DriverShape DEF SessionInv
    <3>3. LET e == StoppedFor(DriverAt(x), "done")
          IN  e.code = DriverAt(x).code /\ e.last = DriverAt(x).last
      BY <3>2 DEF StoppedFor, IsDriver
    <3> QED
      BY <3>1, <3>3
  <2> QED
    BY <2>1, <2>2
<1>5. ASSUME NEW l \in Used' PROVE l \in Used /\ Eases(links[l], links'[l], rooms[links[l].code])
  <2>1. l \in Link /\ links'[l] # NoLink
    BY <1>5 DEF Used
  <2>2. links'[l] = IF \E x \in Z : DriverAt(x).socket = l THEN Abandoned(all[l]) ELSE all[l]
    BY <1>2, <2>1 DEF EndsWith
  <2>3. CASE \E x \in Z : DriverAt(x).socket = l
    <3>1. PICK x \in Z : DriverAt(x).socket = l
      BY <2>3
    <3>2. x \in Drivers /\ x # c /\ l # NoSocket
      BY <2>1, <3>1 DEF Link, NoSocket
    <3>3. links[l] # NoLink /\ links[l].driver = x
      BY <3>1, <3>2 DEF SessionInv, References
    <3>4. l \in Used /\ l # DriverAt(c).socket
      BY <2>1, <3>2, <3>3 DEF Used, SessionInv, References
    <3>5. links'[l] = Abandoned(links[l]) /\ Faultless(links[l])
      BY <2>1, <2>2, <2>3, <3>4 DEF SessionInv, Sockets
    <3> QED
      BY <2>1, <3>4, <3>5, EasesSame, EasesAbandoned
  <2>4. CASE ~\E x \in Z : DriverAt(x).socket = l
    BY <2>1, <2>2, <2>4, EasesSame DEF Used
  <2> QED
    BY <2>3, <2>4
<1>6. \A x \in Drivers' : /\ rooms'[DriverAt(x)'.code] = rooms[DriverAt(x)'.code]
                          /\ x \in Drivers /\ DriverAt(x)'.code = DriverAt(x).code
                          /\ DriverAt(x)'.last = DriverAt(x).last
  BY <1>3, <1>4
<1> QED
  BY <1>5, <1>6, StartRests

\* What a driver closes or is stopped to has heard what it had heard.
LEMMA ClosedHeard ==
    ASSUME NEW d \in IsDriver, NEW code, NEW reason
    PROVE  /\ Closed(d, code, reason).last = d.last
           /\ StoppedFor(d, reason).last = d.last
BY DEF Closed, StoppedFor, IsDriver

LEMMA FailStarts == ASSUME SessionInv, SessionInv', StartInv, NEW c \in Drivers, FailsToOpen(c) PROVE StartInv'
<1>1. PICK d : d = Closed(DriverAt(c), "lost", "none")
  OBVIOUS
<1>2. UNCHANGED rooms /\ DriverIs(c, d, links)
  BY <1>1 DEF FailsToOpen
<1>3. DriverAt(c) \in IsDriver
  BY DriverShape DEF SessionInv
<1>4. d \in IsDriver /\ d.socket = NoSocket /\ d.code = DriverAt(c).code /\ d.last = DriverAt(c).last
  BY <1>1, <1>3, ClosedTo, ClosedHeard
<1>5. DOMAIN links = Link
  BY DEF SessionInv, Shapes
<1> QED
  BY <1>2, <1>4, <1>5, LetsGoStarts

LEMMA HearsCloseStarts == ASSUME SessionInv, SessionInv', StartInv, NEW l \in Link, HearsClose(l) PROVE StartInv'
<1>1. PICK k : k = links[l]
  OBVIOUS
<1>2. PICK frame : frame = Head(k.down)
  OBVIOUS
<1>3. l \in Used /\ Faultless(k) /\ k.heard /\ k.down # <<>> /\ frame.type = "close" /\ UNCHANGED rooms
  BY <1>1, <1>2, CodedUsed DEF HearsClose, SessionInv, Sockets
<1>4. PICK c \in Drivers : c = k.driver /\ DriverAt(c).socket = l
  BY <1>1, <1>3 DEF SessionInv, References
<1>5. PICK d : d = Closed(DriverAt(c), frame.code, frame.reason)
  OBVIOUS
<1>6. PICK all : all = [links EXCEPT ![l] = Abandoned(k)]
  OBVIOUS
<1>7. DriverIs(c, d, all)
  BY <1>1, <1>2, <1>4, <1>5, <1>6 DEF HearsClose
<1>8. frame.code = "refused" => frame.reason \in Cause \ {"superseded"}
  BY <1>2, <1>3, TakenFacts DEF Faultless, IsFrame
<1>9. DriverAt(c) \in IsDriver
  BY DriverShape DEF SessionInv
<1>10. d \in IsDriver /\ d.socket = NoSocket /\ d.code = DriverAt(c).code /\ d.last = DriverAt(c).last
  BY <1>5, <1>8, <1>9, ClosedTo, ClosedHeard
<1>11. DOMAIN all = Link /\ all[l] = Abandoned(k) /\ \A j \in Link \ {l} : all[j] = links[j]
  BY <1>6 DEF SessionInv, Shapes
<1>12. all[l] = NoLink \/ Eases(links[l], all[l], rooms[links[l].code])
  BY <1>1, <1>3, <1>11, EasesSame, EasesAbandoned
<1> QED
  BY <1>3, <1>4, <1>7, <1>10, <1>11, <1>12, LetsGoStarts

\* A command is sent.
LEMMA EasesCommand ==
    ASSUME NEW k, Faultless(k), NEW m, NEW r,
           r.phase \notin {"unmade", "gone"} => Timed(m, k, r)
    PROVE  Eases(k, WithCommand(k, m), r)
<1>1. CASE k.cut
  BY <1>1, EasesSame DEF WithCommand
<1>2. CASE ~k.cut
  <2>1. PICK up : up = Append(k.up, m)
    OBVIOUS
  <2>2. \A n \in Range(up) : n \in Range(k.up) \/ n = m
    <3>1. Proper(k.up)
      BY DEF Faultless, IsLink
    <3>2. /\ Proper(up) /\ Len(up) = Len(k.up) + 1 /\ up[Len(k.up) + 1] = m
          /\ \A i \in 1 .. Len(k.up) : up[i] = k.up[i]
      BY <2>1, <3>1, ProperAppend
    <3>3. Len(k.up) \in Nat /\ DOMAIN up = 1 .. Len(up) /\ \A i \in 1 .. Len(k.up) : k.up[i] \in Range(k.up)
      BY <3>1, <3>2, ProperFacts
    <3> QED
      BY <3>2, <3>3, SMTT(30) DEF Range
  <2>3. PICK h : h = WithCommand(k, m) /\ h = [k EXCEPT !.up = up]
    BY <1>2, <2>1 DEF WithCommand
  <2>4. /\ h.code = k.code /\ h.driver = k.driver /\ h.pid = k.pid /\ h.gen = k.gen /\ h.open = k.open
        /\ h.listed = k.listed /\ h.up = up /\ h.heard = k.heard /\ h.cut = k.cut /\ h.down = k.down
    BY <2>3 DEF Faultless, IsLink
  <2> QED
    BY <2>2, <2>3, <2>4 DEF Eases, Wanes
<1> QED
  BY <1>1, <1>2 DEF Faultless, IsLink

LEMMA LeaveStarts == ASSUME SessionInv, SessionInv', StartInv, NEW t \in Tab, LeaveRoom(t) PROVE StartInv'
<1>1. PICK c : c = <<t, current[t]>>
  OBVIOUS
<1>2. c \in Drivers /\ DriverAt(c) = drivers[t][current[t]]
  <2>1. current[t] \in 1 .. Len(drivers[t]) /\ Len(drivers[t]) \in Nat /\ Len(drivers[t]) <= MaxEntries
    BY LenProperties DEF LeaveRoom, SessionInv, Shapes
  <2> QED
    BY <1>1, <2>1, SessionAssumption DEF Drivers, Driver, DriverAt
<1>3. PICK l : l = DriverAt(c).socket
  OBVIOUS
<1>4. PICK said : said = WithCommand(links[l], [type |-> "leave"])
  OBVIOUS
<1>5. PICK all : all = IF l = NoSocket THEN links ELSE [links EXCEPT ![l] = Abandoned(said)]
  OBVIOUS
<1>6. PICK d : d = StoppedFor(DriverAt(c), "left")
  OBVIOUS
<1>7. DriverIs(c, d, all) /\ (l # NoSocket \/ DriverAt(c).status = "reconnecting") /\ UNCHANGED rooms
  BY <1>1, <1>2, <1>3, <1>4, <1>5, <1>6 DEF LeaveRoom
<1>8. ~Stopped(DriverAt(c)) /\ DriverAt(c) \in IsDriver
  BY <1>2, <1>3, <1>7, DriverShape DEF SessionInv, References, Stopped, Stages
<1>9. d \in IsDriver /\ d.socket = NoSocket /\ d.code = DriverAt(c).code /\ d.last = DriverAt(c).last
  <2>1. "left" \in Cause \ {"superseded"}
    BY DEF Cause, Reason
  <2> QED
    BY <1>6, <1>8, <2>1, StoppedForFacts, ClosedHeard
<1>10. l # NoSocket => l \in Used /\ Faultless(links[l])
  <2>1. l # NoSocket => l \in Link /\ links[l] # NoLink
    BY <1>2, <1>3, <1>8 DEF IsDriver, SessionInv, References
  <2> QED
    BY <2>1 DEF Used, SessionInv, Sockets
<1>11. DOMAIN all = Link /\ \A j \in Link : j # l => all[j] = links[j]
  BY <1>5 DEF SessionInv, Shapes
<1>12. l # NoSocket => all[l] = NoLink \/ Eases(links[l], all[l], rooms[links[l].code])
  <2> SUFFICES ASSUME l # NoSocket PROVE all[l] = NoLink \/ Eases(links[l], all[l], rooms[links[l].code])
    OBVIOUS
  <2>1. l \in Link /\ Faultless(links[l])
    BY <1>10 DEF Used
  <2>2. all[l] = Abandoned(said)
    BY <1>5, <2>1 DEF SessionInv, Shapes
  <2>3. PICK m : m = [type |-> "leave"]
    OBVIOUS
  <2>4. m.type \in CommandTypes /\ Timed(m, links[l], rooms[links[l].code])
    BY <2>3 DEF CommandTypes, Timed
  <2>5. Faultless(said) /\ Eases(links[l], said, rooms[links[l].code])
    BY <1>4, <2>1, <2>3, <2>4, WithCommandFacts, EasesCommand
  <2> QED
    BY <2>2, <2>5, EasesAbandoned
<1>13. \A j \in Link :
           \/ all[j] = links[j]
           \/ /\ j = DriverAt(c).socket /\ j \in Used
              /\ all[j] = NoLink \/ Eases(links[j], all[j], rooms[links[j].code])
  <2>1. l = NoSocket => l \notin Link
    BY DEF NoSocket, Link
  <2> QED
    BY <1>3, <1>10, <1>11, <1>12, <2>1
<1> QED
  BY <1>2, <1>7, <1>9, <1>11, <1>13, LetsGoStarts

LEMMA ReceivedHeard ==
    ASSUME NEW d \in IsDriver, NEW frame
    PROVE  Received(d, frame).last \in {d.last, frame.version}
BY DEF Received, Later, Acknowledged, IsDriver

\* What is left on its way when the first frame is taken.
LEMMA EasesTaken ==
    ASSUME NEW k, Faultless(k), k.down # <<>>, NEW n, n = [k EXCEPT !.down = Tail(@)], NEW r
    PROVE  Eases(k, n, r)
<1>1. /\ n.code = k.code /\ n.driver = k.driver /\ n.pid = k.pid /\ n.gen = k.gen /\ n.open = k.open
      /\ n.listed = k.listed /\ n.up = k.up /\ n.heard = k.heard /\ n.cut = k.cut /\ n.down = Tail(k.down)
  BY DEF Faultless, IsLink
<1>2. Range(Tail(k.down)) \subseteq Range(k.down)
  BY ProperTail DEF Faultless, IsLink
<1> QED
  BY <1>1, <1>2 DEF Eases, Wanes

LEMMA EasesOn ==
    ASSUME NEW k, NEW n, NEW h, NEW r, Eases(k, n, r), Eases(n, h, r), n.listed = k.listed,
           n.down = h.down
    PROVE  Eases(k, h, r)
<1>1. Wanes(k, h) /\ (h.heard => k.heard)
  BY DEF Eases, Wanes
<1>2. ASSUME NEW m, Timed(m, n, r) PROVE Timed(m, k, r)
  BY <1>2 DEF Timed, Eases, Wanes
<1> QED
  BY <1>1, <1>2 DEF Eases

\* A driver takes a frame: it is none the room has not had.
LEMMA FrameStarts == ASSUME SessionInv, SessionInv', StartInv, NEW l \in Link, HearsFrame(l) PROVE StartInv'
<1>1. PICK k : k = links[l]
  OBVIOUS
<1>2. PICK frame : frame = Head(k.down)
  OBVIOUS
<1>3. PICK rest : rest = [k EXCEPT !.down = Tail(@)]
  OBVIOUS
<1>4. l \in Used /\ Faultless(k) /\ k.heard /\ k.down # <<>> /\ frame.type # "close" /\ k.code \in Code
  BY <1>1, <1>2, CodedUsed DEF HearsFrame, SessionInv, Sockets, Faultless, IsLink
<1>5. Faultless(rest) /\ frame \in Range(k.down) /\ rest.listed = k.listed
  BY <1>2, <1>3, <1>4, TakenFacts DEF IsLink
<1>6. frame.version \in Int
  BY <1>4, <1>5 DEF Faultless, IsFrame
<1>7. PICK c \in Drivers : c = k.driver /\ DriverAt(c).socket = l /\ DriverAt(c).code = k.code
  BY <1>1, <1>4 DEF SessionInv, References
<1>8. DriverAt(c) \in IsDriver
  BY DriverShape DEF SessionInv
<1>9. PICK h : h = IF AsksResync(DriverAt(c), frame) THEN WithCommand(rest, [type |-> "resync"]) ELSE rest
  OBVIOUS
<1>10. PICK d \in IsDriver : d = Received(DriverAt(c), frame)
  BY <1>6, <1>8, ReceivedFacts
<1>11. d.code = k.code /\ d.last \in {DriverAt(c).last, frame.version} /\ DriverAt(c).last \in Int
  BY <1>6, <1>7, <1>8, <1>10, ReceivedFacts, ReceivedHeard DEF IsDriver
<1>12. /\ drivers' = [drivers EXCEPT ![c[1]][c[2]] = d]
       /\ links' = [links EXCEPT ![l] = h]
       /\ UNCHANGED rooms
  BY <1>1, <1>2, <1>3, <1>7, <1>9, <1>10 DEF HearsFrame
<1>13. /\ \A t \in Tab : Len(drivers'[t]) = Len(drivers[t])
       /\ DriverAt(c)' = d /\ \A x \in Drivers \ {c} : DriverAt(x)' = DriverAt(x)
  BY <1>12, DriverReplaced DEF SessionInv
<1>14. Drivers' = Drivers
  BY <1>13 DEF Drivers, Driver
<1>15. Eases(k, h, rooms[k.code]) /\ h # NoLink
  <2>1. Eases(k, rest, rooms[k.code])
    BY <1>3, <1>4, EasesTaken
  <2>2. PICK m : m = [type |-> "resync"]
    OBVIOUS
  <2>3. m.type \in CommandTypes /\ Timed(m, rest, rooms[k.code])
    BY <2>2 DEF CommandTypes, Timed
  <2>4. PICK g : g = WithCommand(rest, m)
    OBVIOUS
  <2>5. Faultless(g) /\ g.down = rest.down /\ Eases(rest, g, rooms[k.code])
    BY <1>5, <2>3, <2>4, WithCommandFacts, EasesCommand
  <2>6. Eases(k, g, rooms[k.code])
    BY <1>5, <2>1, <2>5, EasesOn
  <2>7. h = g \/ h = rest
    BY <1>9, <2>2, <2>4
  <2> QED
    BY <1>5, <2>1, <2>5, <2>6, <2>7, LinkUsed DEF Faultless
<1>16. links'[l] = h /\ \A j \in Link \ {l} : links'[j] = links[j]
  BY <1>12 DEF SessionInv, Shapes
<1>17. Used' = Used
  BY <1>4, <1>15, <1>16 DEF Used
<1>18. ASSUME rooms[k.code].phase \notin {"unmade", "gone"}
       PROVE  /\ DriverAt(c).last <= rooms[k.code].version /\ Prompt(k, DriverAt(c).last, rooms[k.code])
              /\ rooms[k.code].version \in Nat
  BY <1>1, <1>4, <1>7, <1>18, VersionNumber DEF StartInv, Knowing, Punctual, Exists
<1>19. ASSUME rooms[k.code].phase \notin {"unmade", "gone"}
       PROVE  /\ d.last <= rooms[k.code].version
              /\ Outlived(k, rooms[k.code]) => d.last < rooms[k.code].version
  <2>1. frame.version <= rooms[k.code].version
    BY <1>4, <1>5, <1>18, <1>19 DEF Prompt, Dated
  <2>2. Outlived(k, rooms[k.code]) => frame.version < rooms[k.code].version
    BY <1>4, <1>5, <1>18, <1>19 DEF Prompt, Dated
  <2>3. Outlived(k, rooms[k.code]) => DriverAt(c).last < rooms[k.code].version
    BY <1>4, <1>18, <1>19 DEF Prompt
  <2> QED
    BY <1>11, <1>18, <1>19, <2>1, <2>2, <2>3
<1>20. ASSUME NEW x \in Drivers' PROVE Knowing(x)'
  <2>1. CASE x = c
    BY <1>11, <1>12, <1>13, <1>19, <2>1, KnowingNext
  <2>2. CASE x # c
    <3>1. DriverAt(x)' = DriverAt(x) /\ x \in Drivers
      BY <1>13, <1>14, <2>2
    <3>2. PICK e : e = DriverAt(x)
      OBVIOUS
    <3>3. rooms[e.code].phase \notin {"unmade", "gone"} => e.last <= rooms[e.code].version
      BY <3>1, <3>2 DEF StartInv, Knowing, Exists
    <3> QED
      BY <1>12, <3>1, <3>2, <3>3, KnowingNext
  <2> QED
    BY <2>1, <2>2
<1>21. ASSUME NEW j \in Used' PROVE Punctual(j)'
  <2>1. CASE j = l
    <3>1. h.code = k.code /\ h.driver = c
      BY <1>7, <1>15 DEF Eases, Wanes
    <3>2. SUFFICES ASSUME rooms[k.code].phase \notin {"unmade", "gone"} PROVE Prompt(h, d.last, rooms[k.code])
      BY <1>12, <1>13, <1>16, <2>1, <3>1, PunctualNext
    <3>3. Outlived(h, rooms[k.code]) => Outlived(k, rooms[k.code])
      BY <1>15 DEF Eases, Wanes, Outlived
    <3>4. Prompt(k, DriverAt(c).last, rooms[k.code])
      BY <1>18, <3>2
    <3> QED
      BY <1>15, <1>19, <3>2, <3>3, <3>4, PromptEases
  <2>2. CASE j # l
    <3>1. PICK n : n = links[j]
      OBVIOUS
    <3>2. j \in Used /\ links'[j] = n
      BY <1>16, <1>17, <2>2, <3>1 DEF Used
    <3>3. PICK x \in Drivers : x = n.driver
      BY <3>1, <3>2 DEF SessionInv, References
    <3>4. PICK e : e = DriverAt(x)'
      OBVIOUS
    <3>5. SUFFICES ASSUME rooms[n.code].phase \notin {"unmade", "gone"} PROVE Prompt(n, e.last, rooms[n.code])
      BY <1>12, <3>2, <3>3, <3>4, PunctualNext
    <3>6. Prompt(n, DriverAt(x).last, rooms[n.code])
      BY <3>1, <3>2, <3>3, <3>5 DEF StartInv, Punctual, Exists
    <3>7. n.heard => e.last = DriverAt(x).last
      <4>1. n.heard => DriverAt(x).socket = j
        BY <3>1, <3>2, <3>3 DEF SessionInv, References
      <4> QED
        BY <1>7, <1>13, <2>2, <3>4, <4>1
    <3> QED
      BY <3>6, <3>7 DEF Prompt
  <2> QED
    BY <2>1, <2>2
<1> QED
  BY <1>20, <1>21 DEF StartInv

\* What the host's page showed when its reader pressed start.
LEMMA SeenLobby ==
    ASSUME SessionInv, PageInv, StartInv, NEW x \in Drivers, current[x[1]] = x[2],
           NEW l, l = DriverAt(x).socket, l # NoSocket,
           links[l].open, ~links[l].cut, links[l].pid # Nobody,
           NEW r, r = rooms[links[l].code], r.phase = "lobby", DriverAt(x).last = r.version
    PROVE  Seen(x[1]) = [unsettled |-> TRUE] \/ Seen(x[1]) = LobbyOf(Layout(r), r.config)
<1>1. PICK t \in Tab : t = x[1]
  BY DriverShape DEF SessionInv
<1>2. PICK k : k = links[l]
  OBVIOUS
<1>3. l \in Used /\ k.heard /\ k.driver = x
  <2>1. l \in Link
    BY DriverShape DEF SessionInv, IsDriver
  <2> QED
    BY <1>2, <2>1 DEF SessionInv, References, Used
<1>4. Faultless(k) /\ k.code \in Code /\ Proper(k.down)
  BY <1>2, <1>3, LinkFacts DEF Faultless, IsLink
<1>5. Catches(pages[t], k, r)
  BY <1>1, <1>2, <1>3 DEF PageInv, Following, Follower
<1>6. PICK q : Becomes(pages[t], k.down, q) /\ Agrees(q, r, k.pid, k.gen)
  BY <1>2, <1>5 DEF Catches
<1>7. Dated(k, r)
  BY <1>2, <1>3 DEF StartInv, Punctual, Exists, Prompt
<1>8. drivers[t][current[t]] = DriverAt(x)
  BY <1>1 DEF DriverAt
<1>9. CASE k.down = <<>>
  <2>1. q = pages[t]
    BY <1>6, <1>9, BecomesNothing
  <2>2. ~\E i \in DOMAIN k.down : TRUE
    BY <1>9
  <2>3. Seen(t) = LobbyOf(pages[t], pages[t].config)
    BY <1>2, <1>8, <2>2 DEF Seen
  <2>4. pages[t].people = Layout(r).people /\ pages[t].look = r.look /\ pages[t].config = r.config
    BY <1>6, <2>1 DEF Agrees, Alike
  <2>5. Layout(r).look = r.look
    BY DEF Layout
  <2>6. LobbyOf(pages[t], pages[t].config) = LobbyOf(Layout(r), r.config)
    BY <2>4, <2>5 DEF LobbyOf
  <2> QED
    BY <1>1, <2>3, <2>6
<1>10. CASE k.down # <<>>
  <2>1. k.down[1] \in Range(k.down) /\ Len(k.down) \in Nat \ {0} /\ DOMAIN k.down = 1 .. Len(k.down)
    BY <1>4, <1>10, ProperTail, ProperFacts
  <2>2. k.down[1].type # "close"
    BY <1>2, <1>4, <2>1 DEF Faultless, IsFrame
  <2>3. k.down[1].version <= DriverAt(x).last
    BY <1>7, <2>1, <2>2 DEF Dated
  <2>4. \E i \in DOMAIN k.down : k.down[i].type # "close" /\ k.down[i].version <= DriverAt(x).last
    BY <2>1, <2>2, <2>3
  <2>5. Seen(t) = [unsettled |-> TRUE]
    BY <1>2, <1>8, <2>4 DEF Seen
  <2> QED
    BY <1>1, <2>5
<1> QED
  BY <1>9, <1>10

\* A start that is sent names what the driver has heard last, which no socket
\* that was replaced has of its room.
LEMMA StartTimed ==
    ASSUME SessionInv, PageInv, StartInv, NEW x \in Drivers, current[x[1]] = x[2],
           NEW l, l = DriverAt(x).socket, l # NoSocket, ~links[l].cut,
           NEW r, r = rooms[links[l].code], r.phase \notin {"unmade", "gone"},
           NEW m, m.saw = Seen(x[1]), m.expected = IF DriverAt(x).last = Unseen THEN 0 ELSE DriverAt(x).last
    PROVE  Timed(m, links[l], r)
<1>1. PICK k : k = links[l]
  OBVIOUS
<1>2. l \in Used /\ k.heard /\ k.driver = x /\ k.code = DriverAt(x).code /\ DriverAt(x).last \in Int
  <2>1. l \in Link /\ DriverAt(x).last \in Int
    BY DriverShape DEF SessionInv, IsDriver
  <2> QED
    BY <1>1, <2>1, SMTT(30) DEF SessionInv, References, Used
<1>3. IsRoom(r) /\ IsTable(r) /\ r.version \in Nat
  BY <1>1, <1>2, LinkFacts DEF Exists, IsRoom
<1>4. DriverAt(x).last <= r.version /\ Prompt(k, DriverAt(x).last, r)
  BY <1>1, <1>2 DEF StartInv, Knowing, Punctual, Exists
<1>5. m.expected \in Int /\ m.expected <= r.version
  BY <1>2, <1>3, <1>4
<1>6. ASSUME k.listed, k.pid \in DOMAIN r.people, r.phase = "lobby", m.expected = r.version
      PROVE  m.saw = [unsettled |-> TRUE] \/ m.saw = LobbyOf(Layout(r), r.config)
  <2>1. r.version > 0 /\ k.pid # Nobody
    <3>1. DOMAIN r.people \subseteq 1 .. r.minted /\ r.minted \in Nat
      BY <1>3 DEF IsRoom
    <3>2. DOMAIN r.people # {} => r.version > 0
      BY <1>3 DEF IsTable
    <3>3. r.version > 0
      BY <1>6, <3>2
    <3>4. k.pid \in Nat
      BY <1>6, <3>1
    <3> QED
      BY <3>3, <3>4, NobodyAssumption
  <2>2. DriverAt(x).last = r.version
    BY <1>6, <2>1
  <2>3. k.open
    <3>1. IsLink(k)
      BY <1>1, <1>2, LinkFacts
    <3>2. ~k.open => DriverAt(x).last < r.version
      BY <1>2, <1>4, <1>6 DEF Prompt, Outlived
    <3> QED
      BY <1>3, <2>2, <3>2
  <2> QED
    BY <1>1, <1>6, <2>1, <2>2, <2>3, SeenLobby
<1> QED
  BY <1>1, <1>5, <1>6 DEF Timed

LEMMA ControlStarts ==
    ASSUME SessionInv, SessionInv', PageInv, StartInv, NEW t \in Tab, UsesControl(t)
    PROVE  StartInv'
<1>1. PICK x : x = <<t, current[t]>>
  OBVIOUS
<1>2. x \in Drivers /\ x[1] = t /\ x[2] = current[t] /\ DriverAt(x) = drivers[t][current[t]]
  <2>1. current[t] \in 1 .. Len(drivers[t]) /\ Len(drivers[t]) \in Nat /\ Len(drivers[t]) <= MaxEntries
    BY LenProperties DEF UsesControl, SessionInv, Shapes
  <2> QED
    BY <1>1, <2>1, SessionAssumption DEF Drivers, Driver, DriverAt
<1>3. PICK l : l = DriverAt(x).socket
  OBVIOUS
<1>4. PICK m \in Commands(t) : links' = [links EXCEPT ![l] = WithCommand(@, m)]
  BY <1>2, <1>3 DEF UsesControl
<1>5. l # NoSocket /\ UNCHANGED <<rooms, drivers>>
  BY <1>2, <1>3 DEF UsesControl
<1>6. l \in Used /\ Faultless(links[l])
  <2>1. l \in Link
    BY <1>2, <1>3, <1>5, DriverShape DEF SessionInv, IsDriver
  <2>2. links[l] # NoLink
    BY <1>2, <1>3, <1>5, <2>1 DEF SessionInv, References
  <2> QED
    BY <2>1, <2>2 DEF Used, SessionInv, Sockets
<1>7. PICK r : r = rooms[links[l].code]
  OBVIOUS
<1>8. ASSUME m.type = "start_draft"
      PROVE  m.saw = Seen(t) /\ m.expected = IF DriverAt(x).last = Unseen THEN 0 ELSE DriverAt(x).last
  <2>1. m \in LobbyCommands(t) \/ m.type = "queue_pick"
    BY <1>4, SMTT(30) DEF Commands
  <2> QED
    BY <1>2, <1>8, <2>1, SMTT(30) DEF LobbyCommands
<1>9. ASSUME ~links[l].cut, r.phase \notin {"unmade", "gone"} PROVE Timed(m, links[l], r)
  <2>1. CASE m.type = "start_draft"
    BY <1>2, <1>3, <1>5, <1>7, <1>8, <1>9, <2>1, StartTimed
  <2>2. CASE m.type # "start_draft"
    BY <2>2 DEF Timed
  <2> QED
    BY <2>1, <2>2, SMTT(30)
<1>10. Eases(links[l], WithCommand(links[l], m), r)
  <2>1. CASE links[l].cut
    BY <2>1, EasesSame DEF WithCommand
  <2>2. CASE ~links[l].cut
    BY <1>6, <1>9, <2>2, EasesCommand
  <2> QED
    BY <2>1, <2>2
<1>11. PICK h : h = WithCommand(links[l], m)
  OBVIOUS
<1>12. links' = [links EXCEPT ![l] = h]
  BY <1>4, <1>11
<1>13. \A k \in Used' : k \in Used /\ Eases(links[k], links'[k], rooms[links[k].code])
  BY <1>6, <1>7, <1>10, <1>11, <1>12, OneEases
<1> QED
  BY <1>5, <1>13, QuietStarts

\* Socket k of room r becomes h of room s: only if the room is another is
\* somebody else on it, or is it closed although its identity stays, and then
\* nothing is said on it but goodbye.
Adopts(k, r, h, s) ==
    /\ SameLink(k, h) /\ (h.pid = k.pid \/ s.version > r.version)
    /\ \A f \in Range(h.down) : f \in Range(k.down) \/ f.type = "close" \/ (f.version <= s.version /\ k.open)
    /\ Outlived(h, s) => \/ Outlived(k, r)
                         \/ s.version > r.version /\ \A f \in Range(h.down) : f \in Range(k.down) \/ f.type = "close"

LEMMA AdoptsUnlisted == ASSUME NEW k, ~k.listed, NEW r, NEW s PROVE Adopts(k, r, k, s)
BY DEF Adopts, SameLink, Outlived

LEMMA PromptAdopted ==
    ASSUME NEW k, NEW h, NEW r, NEW s, Adopts(k, r, h, s), s = r \/ s.version > r.version,
           r.version \in Nat, s.version \in Nat, NEW last \in Int, last <= r.version, Prompt(k, last, r),
           \A f \in Range(k.down) : f.type # "close" => f.version \in Int
    PROVE  Prompt(h, last, s)
<1>1. r.version <= s.version
  OBVIOUS
<1>2. Dated(k, r) /\ Timely(k, r) /\ (k.heard /\ Outlived(k, r) => last < r.version)
  BY DEF Prompt
<1>3. Outlived(k, r) => ~k.open
  BY DEF Outlived
<1>4. ASSUME NEW f \in Range(h.down), f.type # "close"
      PROVE  f.version <= s.version /\ (Outlived(h, s) => f.version < s.version)
  <2>1. CASE f \in Range(k.down)
    <3>1. f.version \in Int /\ f.version <= r.version /\ (Outlived(k, r) => f.version < r.version)
      BY <1>2, <1>4, <2>1 DEF Dated
    <3>2. Outlived(h, s) => Outlived(k, r) \/ s.version > r.version
      BY DEF Adopts
    <3> QED
      BY <1>1, <3>1, <3>2
  <2>2. CASE f \notin Range(k.down)
    <3>1. f.version <= s.version /\ k.open /\ ~Outlived(h, s)
      BY <1>3, <1>4, <2>2 DEF Adopts
    <3> QED
      BY <3>1
  <2> QED
    BY <2>1, <2>2
<1>5. Dated(h, s)
  BY <1>4 DEF Dated
<1>6. ASSUME NEW m \in Range(h.up) PROVE Timed(m, h, s)
  <2> SUFFICES ASSUME m.type = "start_draft"
               PROVE  /\ m.expected \in Int /\ m.expected <= s.version
                      /\ (h.listed /\ h.pid \in DOMAIN s.people /\ s.phase = "lobby" /\ m.expected = s.version) =>
                             m.saw = [unsettled |-> TRUE] \/ m.saw = LobbyOf(Layout(s), s.config)
    BY DEF Timed
  <2>1. h.up = k.up /\ h.listed = k.listed /\ (h.pid = k.pid \/ s.version > r.version)
    BY DEF Adopts, SameLink
  <2>2. Timed(m, k, r)
    BY <1>2, <2>1 DEF Timely
  <2>3. m.expected \in Int /\ m.expected <= r.version
    BY <2>2 DEF Timed
  <2>4. m.expected <= s.version
    BY <1>1, <2>3
  <2>5. ASSUME h.listed, h.pid \in DOMAIN s.people, s.phase = "lobby", m.expected = s.version
        PROVE  m.saw = [unsettled |-> TRUE] \/ m.saw = LobbyOf(Layout(s), s.config)
    <3>1. s = r /\ h.pid = k.pid
      BY <2>1, <2>3, <2>5
    <3> QED
      BY <2>1, <2>2, <2>5, <3>1 DEF Timed
  <2> QED
    BY <2>3, <2>4, <2>5
<1>7. Timely(h, s)
  BY <1>6 DEF Timely
<1>8. h.heard /\ Outlived(h, s) => last < s.version
  <2>1. h.heard = k.heard
    BY DEF Adopts, SameLink
  <2>2. Outlived(h, s) => Outlived(k, r) \/ s.version > r.version
    BY DEF Adopts
  <2> QED
    BY <1>1, <1>2, <2>1, <2>2
<1> QED
  BY <1>5, <1>7, <1>8 DEF Prompt

\* A socket rests, and has no more to send than it had.
LEMMA RestsEases ==
    ASSUME NEW h, NEW n, Rests(h, n), Range(n.up) \subseteq Range(h.up), NEW r
    PROVE  Eases(h, n, r)
BY DEF Rests, Eases, Wanes

\* A room does something, and its sockets hear of it.
LEMMA RoomStarts ==
    ASSUME SessionInv, SessionInv', StartInv, UNCHANGED drivers,
           NEW c \in Code, NEW o, Speech(o), rooms' = [rooms EXCEPT ![c] = o.room],
           o.room # Deleted => Exists(c) /\ (o.room = rooms[c] \/ o.room.version > rooms[c].version),
           NEW from,
           \A l \in Used' : /\ l \in Used /\ Rests(Announced(c, o, from)[l], links'[l])
                            /\ Range(links'[l].up) \subseteq Range(links[l].up),
           \A l \in Used : links[l].code = c /\ links[l].listed /\ o.room # Deleted =>
               Adopts(links[l], rooms[c], Hears(o, l, from), o.room)
    PROVE  StartInv'
<1> DEFINE Mine(l) == links[l].code = c /\ links[l].listed
           h(l) == Hears(o, l, from)
<1>1. /\ rooms'[c] = o.room /\ \A d \in Code \ {c} : rooms'[d] = rooms[d]
      /\ Drivers' = Drivers /\ \A x : DriverAt(x)' = DriverAt(x)
  BY DEF SessionInv, Shapes, Drivers, DriverAt
<1>2. o.room # Deleted => /\ rooms[c].version \in Nat /\ o.room.version \in Nat /\ rooms[c].phase \notin {"unmade", "gone"}
                          /\ rooms[c].version <= o.room.version
  <2> SUFFICES ASSUME o.room # Deleted
               PROVE  /\ rooms[c].version \in Nat /\ o.room.version \in Nat /\ rooms[c].phase \notin {"unmade", "gone"}
                      /\ rooms[c].version <= o.room.version
    OBVIOUS
  <2>1. rooms[c].phase \notin {"unmade", "gone"} /\ rooms[c].version \in Nat
    BY VersionNumber DEF Exists
  <2>2. IsRoom(o.room)
    BY DEF Speech
  <2>3. o.room.version \in Nat
    BY <2>2 DEF IsRoom
  <2> QED
    BY <2>1, <2>3
<1>3. ASSUME NEW x \in Drivers' PROVE Knowing(x)'
  <2>1. PICK d \in IsDriver : d = DriverAt(x)'
    BY DriverShapeNext DEF SessionInv
  <2>2. d.last \in Int /\ d.code \in Code /\ d = DriverAt(x) /\ x \in Drivers
    BY <1>1, <2>1 DEF IsDriver
  <2>3. SUFFICES ASSUME rooms'[d.code].phase \notin {"unmade", "gone"} PROVE d.last <= rooms'[d.code].version
    BY <2>1, KnowingNext
  <2>4. CASE d.code = c
    <3>1. o.room # Deleted
      BY <1>1, <2>3, <2>4 DEF Deleted
    <3>2. d.last <= rooms[c].version
      BY <1>2, <2>2, <2>4, <3>1 DEF StartInv, Knowing, Exists
    <3> QED
      BY <1>1, <1>2, <2>2, <2>4, <3>1, <3>2
  <2>5. CASE d.code # c
    BY <1>1, <2>2, <2>3, <2>5 DEF StartInv, Knowing, Exists
  <2> QED
    BY <2>4, <2>5
<1>4. ASSUME NEW l \in Used' PROVE Punctual(l)'
  <2>1. PICK k, n : k = links[l] /\ n = links'[l]
    OBVIOUS
  <2>2. l \in Used /\ l \in Link /\ IsLink(k) /\ k.driver \in Drivers /\ k.code = DriverAt(k.driver).code /\ k.code \in Code
    BY <2>1 DEF SessionInv, Sockets, Faultless, IsLink, References, Used
  <2>3. PICK g : g = IF Mine(l) THEN h(l) ELSE k
    OBVIOUS
  <2>4. Rests(g, n) /\ SameLink(k, g) /\ Range(n.up) \subseteq Range(g.up)
    <3>1. Announced(c, o, from)[l] = g
      BY <2>1, <2>2, <2>3 DEF Announced
    <3>2. SameLink(k, g)
      BY <2>1, <2>2, <2>3, HearsFacts DEF SameLink
    <3>3. Rests(g, n) /\ Range(n.up) \subseteq Range(k.up)
      BY <2>1, <3>1
    <3> QED
      BY <3>2, <3>3 DEF SameLink
  <2>5. n.code = k.code /\ n.driver = k.driver
    BY <2>4 DEF Rests, SameLink
  <2>6. PICK d \in IsDriver : d = DriverAt(n.driver)' /\ d = DriverAt(k.driver)
    BY <1>1, <2>2, <2>5, DriverShapeNext DEF SessionInv
  <2>7. SUFFICES ASSUME rooms'[k.code].phase \notin {"unmade", "gone"} PROVE Prompt(n, d.last, rooms'[k.code])
    BY <2>1, <2>5, <2>6, PunctualNext
  <2>8. PICK r, s : r = rooms[k.code] /\ s = rooms'[k.code]
    OBVIOUS
  <2>9. Prompt(g, d.last, s)
    <3>1. CASE k.code = c
      <4>1. o.room # Deleted /\ s = o.room /\ r = rooms[c]
        BY <1>1, <2>7, <2>8, <3>1 DEF Deleted
      <4>2. Prompt(k, d.last, r) /\ d.last <= r.version
        BY <1>2, <2>1, <2>2, <2>6, <3>1, <4>1 DEF StartInv, Punctual, Knowing, Exists
      <4>3. Adopts(k, r, g, s)
        <5>1. CASE Mine(l)
          BY <2>1, <2>2, <2>3, <4>1, <5>1
        <5>2. CASE ~Mine(l)
          BY <2>1, <2>3, <3>1, <5>2, AdoptsUnlisted
        <5> QED
          BY <5>1, <5>2
      <4>4. \A f \in Range(k.down) : f.type # "close" => f.version \in Int
        BY <2>1, <2>2 DEF SessionInv, Sockets, Faultless, IsFrame
      <4>5. d.last \in Int
        BY DEF IsDriver
      <4>6. r.version \in Nat /\ s.version \in Nat /\ (s = r \/ s.version > r.version)
        BY <1>2, <4>1
      <4> QED
        BY <4>2, <4>3, <4>4, <4>5, <4>6, PromptAdopted
    <3>2. CASE k.code # c
      <4>1. g = k /\ s = r
        BY <1>1, <2>1, <2>2, <2>3, <2>8, <3>2
      <4> QED
        BY <2>1, <2>2, <2>6, <2>7, <2>8, <4>1 DEF StartInv, Punctual, Exists
    <3> QED
      BY <3>1, <3>2
  <2>10. Eases(g, n, s)
    BY <2>4, RestsEases
  <2>11. n.heard /\ Outlived(n, s) => d.last < s.version
    BY <2>4, <2>9 DEF Rests, Outlived, Prompt
  <2>12. s.phase \notin {"unmade", "gone"}
    BY <2>7, <2>8
  <2> QED
    BY <2>8, <2>9, <2>10, <2>11, <2>12, PromptEases
<1> QED
  BY <1>3, <1>4 DEF StartInv

\* Whoever an outcome closes while the room goes on is not there any more: the
\* sender p, or whom it dismisses.
Excuses(o, p) ==
    o.room # Deleted => /\ o.reason # "none" /\ o.dismissed = Nobody => p \notin DOMAIN o.room.people
                        /\ o.dismissed # Nobody => o.dismissed \notin DOMAIN o.room.people

LEMMA SpeechAdopted ==
    ASSUME NEW l \in Link, IsLink(links[l]), NEW o, Speech(o), o.self = Nobody, o.room # Deleted, NEW r, Stands(r, o),
           Utters(o.room, o.reply), Utters(o.room, o.tell), Utters(o.room, o.others),
           NEW from, l = from => Excuses(o, links[l].pid), l # from => Excuses(o, Nobody)
    PROVE  Adopts(links[l], r, Hears(o, l, from), o.room)
<1>1. PICK k : k = links[l]
  OBVIOUS
<1>2. PICK h : h = Hears(o, l, from)
  OBVIOUS
<1>3. PICK s : s = o.room /\ s # Deleted
  OBVIOUS
<1>4. SameLink(k, h) /\ h.pid = k.pid /\ (h.open <=> k.open /\ ~Dismisses(o, h, l, from))
  BY <1>1, <1>2, HearsFacts
<1>5. ASSUME NEW f \in Range(h.down)
      PROVE  f \in Range(k.down) \/ f.type = "close" \/ (f.version <= s.version /\ k.open)
  <2>1. f \in Range(k.down) \/ f.type = "close" \/ (Uttered(s, f) /\ k.open)
    BY <1>1, <1>2, <1>3, <1>5, HearsFrames
  <2> QED
    BY <1>3, <2>1 DEF Uttered
<1>6. ASSUME Outlived(h, s) PROVE Outlived(k, r)
  <2>1. h.listed /\ ~h.open /\ k.pid \in DOMAIN s.people
    BY <1>4, <1>6 DEF Outlived
  <2>2. ~Dismisses(o, h, l, from)
    BY <1>3, <1>4, <2>1, <1>1 DEF Dismisses, Excuses
  <2>3. k.listed /\ ~k.open /\ k.pid \in DOMAIN r.people
    BY <1>3, <1>4, <2>1, <2>2 DEF SameLink, Stands
  <2> QED
    BY <2>3 DEF Outlived
<1> QED
  BY <1>1, <1>2, <1>3, <1>4, <1>5, <1>6 DEF Adopts

\* Nobody is dismissed.
LEMMA NobodyExcused == ASSUME NEW o, o.reason = "none", o.dismissed = Nobody, NEW p PROVE Excuses(o, p)
BY DEF Excuses

LEMMA DeletionExcuses == ASSUME NEW frames, NEW p PROVE Excuses(Deletion(frames), p)
BY DEF Deletion, Outcome, Excuses

LEMMA LeaveExcuses == ASSUME NEW r, IsRoom(r), NEW p \in DOMAIN r.people PROVE Excuses(Leave(r, p), p)
<1>1. PICK people : people = [q \in DOMAIN r.people \ {p} |-> r.people[q]]
  OBVIOUS
<1>2. PICK s : s = [WithStory(r) EXCEPT !.people = people]
  OBVIOUS
<1>3. CASE DOMAIN people = {}
  BY <1>1, <1>3, DeletionExcuses DEF Leave
<1>4. CASE DOMAIN people # {}
  <2>1. PICK b : b = <<PeopleChanged(s), FeedAppended(s)>>
    OBVIOUS
  <2>2. Leave(r, p) = [Commit(s, b) EXCEPT !.dismissed = p, !.below = r.people[p].gen + 1, !.reason = "leave"]
    BY <1>1, <1>2, <1>4, <2>1 DEF Leave
  <2>3. s.people = people /\ p \notin DOMAIN s.people
    BY <1>1, <1>2 DEF WithStory, NewVersion, IsRoom
  <2>4. Leave(r, p).room = s /\ Leave(r, p).dismissed = p
    BY <2>2 DEF Commit, Outcome
  <2>5. p # Nobody
    BY NobodyAssumption DEF IsRoom
  <2> QED
    BY <2>3, <2>4, <2>5 DEF Excuses
<1> QED
  BY <1>3, <1>4

LEMMA CommandExcuses ==
    ASSUME NEW r, IsRoom(r), NEW p, NEW m, m.type \in CommandTypes, NEW o \in HandleCommand(r, p, m)
    PROVE  Excuses(o, p)
<1>1. CASE p \notin DOMAIN r.people
  BY <1>1 DEF HandleCommand, Outcome, Excuses
<1>2. CASE p \in DOMAIN r.people
  <2>1. \/ o = Resync(r, p) \/ o \in QueuePick(r, p, m.turn) \/ o = Refused(r) \/ o = StartDraft(r, p, m.expected)
        \/ o = UpdateConfig(r, p, m.bots) \/ o = MoveParticipant(r, p) \/ o \in RandomizeNow(r, p) \/ o = Leave(r, p)
    BY <1>2 DEF HandleCommand, CommandTypes
  <2>2. CASE o = Leave(r, p)
    BY <1>2, <2>2, LeaveExcuses
  <2>3. CASE o = Resync(r, p)
    BY <2>3, NobodyExcused DEF Resync, Outcome
  <2>4. CASE o \in QueuePick(r, p, m.turn)
    BY <2>4, NobodyExcused DEF QueuePick, Refused, Outcome
  <2>5. CASE o = Refused(r)
    BY <2>5, NobodyExcused DEF Refused, Outcome
  <2>6. CASE o = StartDraft(r, p, m.expected)
    BY <2>6, NobodyExcused DEF StartDraft, Commit, Refused, Outcome
  <2>7. CASE o = UpdateConfig(r, p, m.bots)
    BY <2>7, NobodyExcused DEF UpdateConfig, Commit, Refused, Outcome
  <2>8. CASE o = MoveParticipant(r, p)
    BY <2>8, NobodyExcused DEF MoveParticipant, Commit, Refused, Outcome
  <2>9. CASE o \in RandomizeNow(r, p)
    BY <2>9, NobodyExcused DEF RandomizeNow, Commit, Refused, Outcome
  <2> QED
    BY <2>1, <2>2, <2>3, <2>4, <2>5, <2>6, <2>7, <2>8, <2>9
<1> QED
  BY <1>1, <1>2

LEMMA SilentExcuses ==
    ASSUME NEW r, NEW p
    PROVE  /\ Excuses(Outcome(r), p)
           /\ \A q : \A o \in Absent(r, q) : Excuses(o, p)
           /\ \A live : Excuses(Reconciled(r, live), p)
           /\ \A o \in DeadlineAlarm(r) : Excuses(o, p)
<1>1. Excuses(Outcome(r), p)
  BY NobodyExcused DEF Outcome
<1>2. ASSUME NEW q, NEW o \in Absent(r, q) PROVE Excuses(o, p)
  BY <1>2, NobodyExcused DEF Absent, Outcome
<1>3. ASSUME NEW live PROVE Excuses(Reconciled(r, live), p)
  BY NobodyExcused DEF Reconciled, Outcome
<1>4. ASSUME NEW phase PROVE Excuses(Advanced(r, phase), p)
  BY NobodyExcused DEF Advanced, Outcome
<1>5. ASSUME NEW o \in DeadlineAlarm(r) PROVE Excuses(o, p)
  BY <1>4, <1>5, DeletionExcuses DEF DeadlineAlarm
<1> QED
  BY <1>1, <1>2, <1>3, <1>5

\* A room speaks: only if it goes on is there anything to show.
LEMMA SpeaksStart ==
    ASSUME SessionInv, SessionInv', StartInv, UNCHANGED drivers,
           NEW c \in Code, NEW o, Spoken(rooms[c], o), rooms' = [rooms EXCEPT ![c] = o.room],
           o.room # Deleted => Exists(c), NEW who, Faithful(rooms[c], o, who), NEW from,
           from \in Used => Excuses(o, links[from].pid), Excuses(o, Nobody),
           \A l \in Used' : /\ l \in Used /\ Rests(Announced(c, o, from)[l], links'[l])
                            /\ Range(links'[l].up) \subseteq Range(links[l].up)
    PROVE  StartInv'
<1>1. Speech(o) /\ o.self = Nobody
  BY SpokenSpeech DEF Spoken
<1>2. /\ Utters(o.room, o.reply) /\ Utters(o.room, o.tell) /\ Utters(o.room, o.others)
      /\ (o.room # Deleted => Stands(rooms[c], o))
  BY DEF Faithful
<1>3. ASSUME NEW l \in Used, o.room # Deleted PROVE Adopts(links[l], rooms[c], Hears(o, l, from), o.room)
  <2>1. l \in Link /\ IsLink(links[l])
    BY DEF Used, SessionInv, Sockets, Faultless
  <2> QED
    BY <1>1, <1>2, <1>3, <2>1, SpeechAdopted
<1>4. o.room # Deleted => Exists(c) /\ (o.room = rooms[c] \/ o.room.version > rooms[c].version)
  BY <1>2 DEF Stands
<1> QED
  BY <1>1, <1>3, <1>4, RoomStarts

\* A hello is let in: its socket stays open, those of its identity are closed.
LEMMA NewcomerAdopts ==
    ASSUME NEW l \in Link, IsLink(links[l]), links[l].open,
           NEW r, NEW o, Speech(o), o.self \in DOMAIN o.room.people, Greets(r, o)
    PROVE  Adopts(links[l], r, Hears(o, l, l), o.room)
<1>1. PICK k : k = links[l]
  OBVIOUS
<1>2. PICK h : h = Hears(o, l, l)
  OBVIOUS
<1>3. PICK s : s = o.room /\ IsRoom(s) /\ s # Deleted /\ s.version > r.version
  BY RoomExists DEF Greets
<1>4. o.self # Nobody /\ o.below = s.people[o.self].gen /\ o.below \in Nat /\ o.dismissed = o.self
  BY <1>3, NobodyAssumption DEF Greets, IsRoom, Person
<1>5. SameLink(k, h) /\ h.gen = o.below /\ (h.open <=> k.open /\ ~Dismisses(o, h, l, l))
  BY <1>1, <1>2, <1>3, <1>4, HearsFacts
<1>6. h.open
  BY <1>1, <1>3, <1>4, <1>5 DEF Dismisses
<1>7. ASSUME NEW f \in Range(h.down)
      PROVE  f \in Range(k.down) \/ f.type = "close" \/ (f.version <= s.version /\ k.open)
  <2>1. Utters(s, o.reply) /\ Utters(s, o.tell) /\ Utters(s, o.others)
    BY <1>3, UttersNothing DEF Greets
  <2>2. f \in Range(k.down) \/ f.type = "close" \/ (Uttered(s, f) /\ k.open)
    BY <1>1, <1>2, <1>3, <1>7, <2>1, HearsFrames
  <2> QED
    BY <1>3, <2>2 DEF Uttered
<1> QED
  BY <1>1, <1>2, <1>3, <1>5, <1>6, <1>7 DEF Adopts, Outlived

LEMMA OthersAdopt ==
    ASSUME NEW l \in Link, IsLink(links[l]), NEW from, l # from,
           NEW r, NEW o, Speech(o), o.self \in DOMAIN o.room.people, Greets(r, o),
           links[l].pid = o.self => o.self \in DOMAIN r.people
    PROVE  Adopts(links[l], r, Hears(o, l, from), o.room)
<1>1. PICK k : k = links[l]
  OBVIOUS
<1>2. PICK h : h = Hears(o, l, from)
  OBVIOUS
<1>3. PICK s : s = o.room /\ IsRoom(s) /\ s # Deleted /\ s.version > r.version
  BY RoomExists DEF Greets
<1>4. SameLink(k, h) /\ h.pid = k.pid /\ (h.open <=> k.open /\ ~Dismisses(o, h, l, from))
  BY <1>1, <1>2, HearsFacts
<1>5. ASSUME NEW f \in Range(h.down)
      PROVE  f \in Range(k.down) \/ f.type = "close" \/ (f.version <= s.version /\ k.open)
  <2>1. Utters(s, o.reply) /\ Utters(s, o.tell) /\ Utters(s, o.others)
    BY <1>3, UttersNothing DEF Greets
  <2>2. f \in Range(k.down) \/ f.type = "close" \/ (Uttered(s, f) /\ k.open)
    BY <1>1, <1>2, <1>3, <1>5, <2>1, HearsFrames
  <2> QED
    BY <1>3, <2>2 DEF Uttered
<1>6. ASSUME Outlived(h, s), k.open
      PROVE  \A f \in Range(h.down) : f \in Range(k.down) \/ f.type = "close"
  <2>1. Dismisses(o, h, l, from)
    BY <1>4, <1>6 DEF Outlived
  <2>2. h.down = k.down \/ \E code, reason : h.down = k.down \o <<CloseFrame(code, reason)>>
    <3>1. HeardAs(o, k, h, l, from)
      BY <1>1, <1>2, HearsHow
    <3> QED
      BY <2>1, <3>1 DEF HeardAs
  <2>3. ASSUME NEW code, NEW reason, h.down = k.down \o <<CloseFrame(code, reason)>>
        PROVE  \A f \in Range(h.down) : f \in Range(k.down) \/ f.type = "close"
    <3>0. PICK g : g = CloseFrame(code, reason)
      OBVIOUS
    <3>1. g = CloseFrame(code, reason) /\ g.type = "close"
      BY <3>0 DEF CloseFrame
    <3>2. Proper(k.down) /\ Proper(<<g>>) /\ Range(<<g>>) = {g}
      BY <1>1, ProperFew DEF IsLink
    <3>3. Range(h.down) = Range(k.down) \cup {g}
      BY <2>3, <3>1, <3>2, ProperConcat
    <3> QED
      BY <3>1, <3>3
  <2> QED
    BY <2>2, <2>3
<1>7. ASSUME Outlived(h, s), ~k.open PROVE Outlived(k, r)
  <2>1. k.pid \in DOMAIN s.people /\ k.listed
    BY <1>4, <1>7 DEF Outlived, SameLink
  <2>2. k.pid \in DOMAIN r.people
    BY <1>1, <1>3, <2>1 DEF Greets
  <2> QED
    BY <1>7, <2>1, <2>2 DEF Outlived
<1> QED
  BY <1>1, <1>2, <1>3, <1>4, <1>5, <1>6, <1>7 DEF Adopts

\* What the socket that is read has still to send is less than it had.
LEMMA ReadLess ==
    ASSUME SessionInv, NEW c \in Code, NEW o, Speech(o), NEW l \in Used, links[l].up # <<>>, NEW from,
           links' = [Announced(c, o, from) EXCEPT ![l].up = Tail(@)], NEW j \in Used
    PROVE  /\ links'[j].up = IF j = l THEN Tail(links[j].up) ELSE links[j].up
           /\ Range(links'[j].up) \subseteq Range(links[j].up)
<1>1. DOMAIN Announced(c, o, from) = Link /\ j \in Link /\ l \in Link
  BY DEF Announced, Used
<1>2. PICK g : g = Announced(c, o, from)[j]
  OBVIOUS
<1>3. IsLink(links[j])
  BY DEF Used, SessionInv, Sockets, Faultless
<1>4. IsLink(g) /\ g.up = links[j].up
  BY <1>1, <1>2, <1>3, HearsFacts DEF Announced, SameLink
<1>5. links'[j] = IF j = l THEN [g EXCEPT !.up = Tail(@)] ELSE g
  BY <1>1, <1>2
<1>6. links'[j].up = IF j = l THEN Tail(links[j].up) ELSE links[j].up
  <2>1. PICK t : t = Tail(g.up)
    OBVIOUS
  <2>2. CASE j = l
    <3>1. links'[j] = [g EXCEPT !.up = t]
      BY <1>5, <2>1, <2>2
    <3>2. "up" \in DOMAIN g
      BY <1>4 DEF IsLink
    <3> QED
      BY <1>4, <2>1, <2>2, <3>1, <3>2
  <2>3. CASE j # l
    BY <1>4, <1>5, <2>3
  <2> QED
    BY <2>2, <2>3
<1>7. j = l => Range(Tail(links[j].up)) \subseteq Range(links[j].up)
  BY <1>3, ProperTail DEF IsLink
<1> QED
  BY <1>6, <1>7

LEMMA NobodyLeaves == ASSUME NEW o, Speech(o), NEW p, Excuses(o, p) \/ o.dismissed = Nobody PROVE Excuses(o, Nobody)
<1>1. o.room # Deleted => Nobody \notin DOMAIN o.room.people
  BY NobodyAssumption DEF Speech, IsRoom
<1> QED
  BY <1>1 DEF Excuses

\* What a room makes of the message it reads.
LEMMA ReadOutcome ==
    ASSUME SessionInv, PageInv, NEW l \in Used, RoomReads(l)
    PROVE  \E c, o :
               /\ c \in Code /\ c = links[l].code /\ links[l].up # <<>> /\ links[l].listed
               /\ rooms' = [rooms EXCEPT ![c] = o.room]
               /\ links' = [Announced(c, o, l) EXCEPT ![l].up = Tail(@)]
               /\ (o.room # Deleted => Exists(c))
               /\ \/ Spoken(rooms[c], o) /\ Excuses(o, links[l].pid) /\ \E who : Faithful(rooms[c], o, who)
                  \/ links[l].open /\ Welcomed(rooms[c], links[l].up[1], o) /\ Greets(rooms[c], o)
<1> DEFINE k == links[l]
           m == k.up[1]
           outcomes(c) == IF ~Exists(c) THEN {[Outcome(rooms[c]) EXCEPT !.reason = "room_closed"]}
                          ELSE IF k.pid # Nobody THEN HandleCommand(rooms[c], k.pid, m)
                          ELSE IF ~k.open THEN {Outcome(rooms[c])}
                          ELSE IF m.type # "hello" THEN {TurnedAway(rooms[c], "hello_required")}
                          ELSE {Hello(rooms[c], m)}
<1>1. l \in Link /\ Faultless(k) /\ k.code \in Code /\ k.listed /\ k.up # <<>> /\ IsLink(k)
  BY LinkFacts DEF RoomReads
<1>2. Head(k.up) = m /\ Len(k.up) \in Nat \ {0}
  BY <1>1, ProperTail DEF Faultless, IsLink
<1>3. PICK c \in Code : c = k.code
  BY <1>1
<1>4. PICK o \in outcomes(c) :
          /\ rooms' = [rooms EXCEPT ![c] = o.room]
          /\ links' = [Announced(c, o, l) EXCEPT ![l].up = Tail(@)]
  BY <1>2, <1>3 DEF RoomReads
<1>5. Exists(c) => IsRoom(rooms[c]) /\ IsTable(rooms[c])
  BY <1>1, <1>3, LinkFacts
<1> SUFFICES /\ (o.room # Deleted => Exists(c))
             /\ \/ Spoken(rooms[c], o) /\ Excuses(o, k.pid) /\ \E who : Faithful(rooms[c], o, who)
                \/ k.open /\ Welcomed(rooms[c], m, o) /\ Greets(rooms[c], o)
  <2> HIDE DEF outcomes
  <2> QED
    BY <1>1, <1>3, <1>4
<1>6. CASE ~Exists(c)
  <2>1. rooms[c] = Deleted
    BY <1>1, <1>3, <1>6, LinkFacts
  <2>2. o = [Outcome(Deleted) EXCEPT !.reason = "room_closed"]
    BY <1>4, <1>6, <2>1
  <2>3. /\ Spoken(rooms[c], o) /\ o.room = Deleted
        /\ o.reply = <<>> /\ o.tell = <<>> /\ o.others = <<>>
    BY <2>1, <2>2, ToldEmpty DEF Spoken, Outcome
  <2>4. Faithful(rooms[c], o, Nobody) /\ Excuses(o, k.pid)
    BY <2>3, UttersNothing DEF Faithful, Excuses
  <2> QED
    BY <2>3, <2>4
<1>7. CASE Exists(c) /\ k.pid # Nobody
  <2>1. o \in HandleCommand(rooms[c], k.pid, m)
    BY <1>4, <1>7
  <2>2. m.type \in CommandTypes
    BY <1>1, <1>2, <1>7 DEF Faultless, Says
  <2>3. Spoken(rooms[c], o) /\ Faithful(rooms[c], o, k.pid)
    BY <1>5, <1>7, <2>1, <2>2, CommandSpoken, CommandFaithful
  <2>4. Excuses(o, k.pid)
    BY <1>5, <1>7, <2>1, <2>2, CommandExcuses
  <2> QED
    BY <1>7, <2>3, <2>4
<1>8. CASE Exists(c) /\ k.pid = Nobody /\ ~k.open
  <2>1. o = Outcome(rooms[c])
    BY <1>4, <1>8
  <2> QED
    BY <1>5, <1>8, <2>1, SilenceSpoken, SilentFaithful, SilentExcuses
<1>9. CASE Exists(c) /\ k.pid = Nobody /\ k.open
  <2>1. Unread(k)
    BY <1>1, <1>9 DEF Unread
  <2>2. IsHello(m) /\ m.type = "hello"
    BY <1>1, <2>1 DEF Faultless, Says, IsHello
  <2>3. m.claim => ~rooms[c].claimSpent
    BY <1>1, <1>3, <1>9, <2>1 DEF SessionInv, Claims, Spent
  <2>4. o = Hello(rooms[c], m)
    BY <1>4, <1>9, <2>2
  <2>5. \/ Spoken(rooms[c], o) /\ o.reason # "none" /\ o.dismissed = Nobody /\ Faithful(rooms[c], o, Nobody)
        \/ Welcomed(rooms[c], m, o) /\ Greets(rooms[c], o)
    BY <1>5, <1>9, <2>2, <2>3, <2>4, HelloGreets
  <2>6. Spoken(rooms[c], o) /\ o.dismissed = Nobody => Excuses(o, k.pid)
    BY <1>9, SpokenSpeech, NobodyLeaves
  <2> QED
    BY <1>9, <2>5, <2>6
<1> QED
  BY <1>6, <1>7, <1>8, <1>9

\* A room reads a message.
LEMMA ReadsStart ==
    ASSUME SessionInv, SessionInv', PageInv, StartInv, NEW l \in Link, RoomReads(l) PROVE StartInv'
<1>1. l \in Used
  BY CodedUsed DEF RoomReads
<1>2. PICK c, o :
          /\ c \in Code /\ c = links[l].code /\ links[l].up # <<>> /\ links[l].listed
          /\ rooms' = [rooms EXCEPT ![c] = o.room]
          /\ links' = [Announced(c, o, l) EXCEPT ![l].up = Tail(@)]
          /\ (o.room # Deleted => Exists(c))
          /\ \/ Spoken(rooms[c], o) /\ Excuses(o, links[l].pid) /\ \E who : Faithful(rooms[c], o, who)
             \/ links[l].open /\ Welcomed(rooms[c], links[l].up[1], o) /\ Greets(rooms[c], o)
  BY <1>1, ReadOutcome
<1>3. UNCHANGED drivers
  BY DEF RoomReads
<1>4. Speech(o)
  BY <1>2, SpokenSpeech, WelcomedSpeech
<1>5. \A j \in Used' : /\ j \in Used /\ Rests(Announced(c, o, l)[j], links'[j])
                       /\ Range(links'[j].up) \subseteq Range(links[j].up)
  <2>1. \A j \in Used' : j \in Used /\ Rests(Announced(c, o, l)[j], links'[j])
    BY <1>1, <1>2, <1>4, ReadRests
  <2>2. \A j \in Used : Range(links'[j].up) \subseteq Range(links[j].up)
    BY <1>1, <1>2, <1>4, ReadLess, SMTT(30)
  <2> QED
    BY <2>1, <2>2
<1>6. CASE Spoken(rooms[c], o) /\ Excuses(o, links[l].pid) /\ \E who : Faithful(rooms[c], o, who)
  <2>1. PICK who : Faithful(rooms[c], o, who)
    BY <1>6
  <2>2. Excuses(o, Nobody)
    BY <1>4, <1>6, NobodyLeaves, SMTT(30)
  <2> QED
    BY <1>2, <1>3, <1>5, <1>6, <2>1, <2>2, SpeaksStart
<1>7. CASE links[l].open /\ Welcomed(rooms[c], links[l].up[1], o) /\ Greets(rooms[c], o)
  <2>0. PICK m : Welcomed(rooms[c], m, o)
    BY <1>7
  <2>1. o.room # Deleted /\ Exists(c) /\ o.room.version > rooms[c].version /\ o.self \in DOMAIN o.room.people
    <3>1. o.room # Deleted /\ o.self \in DOMAIN o.room.people
      BY <2>0, WelcomedSpeech DEF Welcomed
    <3> QED
      BY <1>2, <1>7, <3>1 DEF Greets
  <2>2. o.self \in Nat \ {0}
    BY <1>7, <2>1 DEF Welcomed, IsRoom
  <2>3. ASSUME NEW j \in Used, links[j].code = c, links[j].listed
        PROVE  Adopts(links[j], rooms[c], Hears(o, j, l), o.room)
    <3>1. j \in Link /\ IsLink(links[j])
      BY LinkFacts
    <3>2. CASE j = l
      BY <1>4, <1>7, <2>1, <3>1, <3>2, NewcomerAdopts
    <3>3. CASE j # l
      <4>1. links[j].pid = o.self => o.self \in DOMAIN rooms[c].people
        BY <1>1, <1>2, <1>7, <2>1, <2>2, <2>3, NewConnection
      <4> QED
        BY <1>4, <1>7, <2>1, <3>1, <3>3, <4>1, OthersAdopt
    <3> QED
      BY <3>2, <3>3
  <2> QED
    BY <1>2, <1>3, <1>4, <1>5, <2>1, <2>3, RoomStarts
<1> QED
  BY <1>2, <1>6, <1>7

\* A room hears that a socket is closed.
LEMMA CloseStarts ==
    ASSUME SessionInv, SessionInv', PageInv, StartInv, NEW l \in Link, RoomHearsClose(l) PROVE StartInv'
<1> DEFINE unlisted(k) == Settled([k EXCEPT !.listed = FALSE])
<1>1. l \in Used /\ IsLink(links[l]) /\ links[l].listed /\ links[l].cut
  BY CodedUsed, LinkFacts DEF RoomHearsClose
<1>2. PICK c \in Code : c = links[l].code
  BY <1>1, LinkFacts
<1>3. PICK o \in IF SpeaksFor(links[l]) THEN Absent(rooms[c], links[l].pid) ELSE {Outcome(rooms[c])} :
          rooms' = [rooms EXCEPT ![c] = o.room] /\ links' = [Announced(c, o, 0) EXCEPT ![l] = unlisted(@)]
  BY <1>2 DEF RoomHearsClose
<1>4. UNCHANGED drivers
  BY DEF RoomHearsClose
<1>5. Spoken(rooms[c], o) /\ Faithful(rooms[c], o, Nobody) /\ (o.room # Deleted => Exists(c))
  <2>1. CASE Exists(c)
    <3>1. IsRoom(rooms[c]) /\ IsTable(rooms[c])
      BY <1>1, <1>2, <2>1, LinkFacts
    <3>2. CASE SpeaksFor(links[l])
      BY <1>2, <1>3, <2>1, <3>1, <3>2, AbsentSpoken, AbsentFaithful DEF SpeaksFor
    <3>3. CASE ~SpeaksFor(links[l])
      BY <1>3, <2>1, <3>1, <3>3, SilenceSpoken, SilentFaithful
    <3> QED
      BY <3>2, <3>3
  <2>2. CASE ~Exists(c)
    <3>1. rooms[c] = Deleted
      BY <1>1, <1>2, <2>2, LinkFacts
    <3>2. o = Outcome(Deleted)
      BY <1>2, <1>3, <2>2, <3>1 DEF SpeaksFor
    <3>3. o.room = Deleted /\ o.reply = <<>> /\ o.tell = <<>> /\ o.others = <<>> /\ Spoken(rooms[c], o)
      BY <3>1, <3>2, ToldEmpty DEF Spoken, Outcome
    <3> QED
      BY <3>3, UttersNothing DEF Faithful
  <2> QED
    BY <2>1, <2>2
<1>6. Speech(o) /\ Excuses(o, Nobody)
  BY <1>3, <1>5, SpokenSpeech, SilentExcuses
<1>7. DOMAIN Announced(c, o, 0) = Link
  BY DEF Announced
<1>8. ASSUME NEW j \in Link, links[j] = NoLink PROVE Announced(c, o, 0)[j] = NoLink
  <2>1. links[j].code # c
    BY <1>8, SessionAssumption DEF NoLink
  <2> QED
    BY <1>8, <2>1 DEF Announced
<1>9. links'[l] = unlisted(Announced(c, o, 0)[l]) /\ \A j \in Link \ {l} : links'[j] = Announced(c, o, 0)[j]
  <2> HIDE DEF unlisted
  <2> QED
    BY <1>3, <1>7
<1>10. ASSUME NEW j \in Used'
       PROVE  /\ j \in Used /\ Rests(Announced(c, o, 0)[j], links'[j])
              /\ Range(links'[j].up) \subseteq Range(links[j].up)
  <2>1. j \in Link /\ links'[j] # NoLink
    BY <1>10 DEF Used
  <2>2. j \in Used
    BY <1>1, <1>8, <1>9, <2>1 DEF Used
  <2>3. PICK g, n : g = Announced(c, o, 0)[j] /\ n = links'[j]
    OBVIOUS
  <2>4. IsLink(g) /\ SameLink(links[j], g)
    <3>1. IsLink(links[j])
      BY <2>2, LinkFacts
    <3> QED
      BY <1>6, <2>1, <2>3, <3>1, HearsFacts DEF Announced, SameLink
  <2>5. CASE j = l
    <3>1. n = [g EXCEPT !.listed = FALSE]
      BY <1>9, <2>1, <2>3, <2>5, SettledFacts
    <3>2. g.cut
      BY <1>1, <2>4, <2>5 DEF SameLink
    <3>3. n.up = g.up /\ Rests(g, n)
      BY <2>4, <3>1, <3>2 DEF Rests, IsLink
    <3> QED
      BY <2>2, <2>3, <2>4, <3>3 DEF SameLink
  <2>6. CASE j # l
    <3>1. n = g
      BY <1>9, <2>1, <2>3, <2>6
    <3> QED
      BY <2>2, <2>3, <2>4, <3>1 DEF Rests, SameLink
  <2> QED
    BY <2>5, <2>6
<1>11. 0 \notin Used
  BY SessionAssumption DEF Used, Link
<1> HIDE DEF unlisted
<1> QED
  BY <1>3, <1>4, <1>5, <1>6, <1>10, <1>11, SpeaksStart

\* A room's alarm fires.
LEMMA AlarmStarts ==
    ASSUME SessionInv, SessionInv', PageInv, StartInv, NEW c \in Code, AlarmFires(c) PROVE StartInv'
<1>1. Exists(c) /\ IsRoom(rooms[c]) /\ IsTable(rooms[c])
  BY RoomShape DEF AlarmFires, SessionInv, PageInv, LinksInv, Tables
<1>2. PICK o : Spoken(rooms[c], o) /\ Faithful(rooms[c], o, Nobody) /\ Takes(c, o, 0) /\ Excuses(o, Nobody)
  <2>1. PICK o \in IF rooms[c].phase # "lobby" THEN DeadlineAlarm(rooms[c])
                   ELSE IF Connected(rooms[c]) = {} THEN {Deletion(<<>>)}
                   ELSE {Reconciled(rooms[c], live) : live \in
                            {s \in Live(c) : ~(Connected(rooms[c]) \subseteq s)}} : Takes(c, o, 0)
    BY DEF AlarmFires
  <2>2. Spoken(rooms[c], o)
    BY <1>1, <2>1, AlarmSpoken, SweptSpoken, ReconciledSpoken
  <2>3. Faithful(rooms[c], o, Nobody)
    BY <1>1, <2>1, DeadlineFaithful, DeletionFaithful, ReconciledFaithful
  <2>4. Excuses(o, Nobody)
    BY <2>1, SilentExcuses, DeletionExcuses
  <2> QED
    BY <2>1, <2>2, <2>3, <2>4
<1>3. links' = Announced(c, o, 0) /\ rooms' = [rooms EXCEPT ![c] = o.room]
  BY <1>2 DEF Takes
<1>4. UNCHANGED drivers
  BY DEF AlarmFires
<1>5. Speech(o)
  BY <1>2, SpokenSpeech
<1>6. ASSUME NEW j \in Used'
      PROVE  /\ j \in Used /\ Rests(Announced(c, o, 0)[j], links'[j])
             /\ Range(links'[j].up) \subseteq Range(links[j].up)
  <2>1. j \in Link /\ links'[j] = Announced(c, o, 0)[j] /\ links'[j] # NoLink
    BY <1>3, <1>6 DEF Used
  <2>2. j \in Used
    <3>1. links[j] = NoLink => links[j].code # c
      BY SessionAssumption DEF NoLink
    <3> QED
      BY <2>1, <3>1 DEF Announced, Used
  <2>3. IsLink(links[j])
    BY <2>2, LinkFacts
  <2>4. SameLink(links[j], Announced(c, o, 0)[j])
    BY <1>5, <2>1, <2>3, HearsFacts DEF Announced, SameLink
  <2> QED
    BY <2>1, <2>2, <2>4 DEF Rests, SameLink
<1>7. 0 \notin Used
  BY SessionAssumption DEF Used, Link
<1> QED
  BY <1>1, <1>2, <1>3, <1>4, <1>6, <1>7, SpeaksStart

LEMMA InitStarts == ASSUME Init PROVE StartInv
<1>1. Used = {} /\ Drivers = {}
  <2>1. \A x \in Driver : x[1] \in Tab /\ x[2] \in 1 .. MaxEntries /\ Len(drivers[x[1]]) = 0
    BY ProperEmpty DEF Driver, Init
  <2> QED
    BY <2>1 DEF Used, Drivers, Init
<1> QED
  BY <1>1 DEF StartInv

LEMMA StepStarts == ASSUME SessionInv, SessionInv', PageInv, StartInv, [Next]_vars PROVE StartInv'
<1>1. ASSUME NEW q \in Request,
             \/ SubmitCreate(q) \/ RouterCreates(q) \/ RouterCollides(q) \/ CreateFails(q)
             \/ Answered(q) \/ AnsweredNo(q)
      PROVE  StartInv'
  BY <1>1, RequestStarts, CreateStarts, AnsweredStarts
<1>2. ASSUME NEW t \in Tab, SubmitJoin(t) \/ LeaveRoom(t) \/ UsesControl(t)
      PROVE  StartInv'
  BY <1>2, JoinStarts, LeaveStarts, ControlStarts
<1>3. ASSUME NEW c \in Drivers, Opens(c) \/ FailsToOpen(c) \/ TriesAgain(c)
      PROVE  StartInv'
  BY <1>3, OpenStarts, FailStarts, TryStarts
<1>4. ASSUME NEW l \in Link, HearsFrame(l) \/ HearsClose(l) \/ RoomReads(l) \/ RoomHearsClose(l) \/ IsCut(l)
      PROVE  StartInv'
  BY <1>4, FrameStarts, HearsCloseStarts, ReadsStart, CloseStarts, CutStarts
<1>5. ASSUME NEW c \in Code, AlarmFires(c) PROVE StartInv'
  BY <1>5, AlarmStarts
<1> QED
  BY <1>1, <1>2, <1>3, <1>4, <1>5, StutterStarts DEF Next

\* Only a start makes a draft of a lobby, at the version it names.
LEMMA CommandStarts ==
    ASSUME NEW r, IsRoom(r), r.phase = "lobby", NEW p, NEW m, m.type \in CommandTypes,
           NEW o \in HandleCommand(r, p, m), o.room.phase = "picking"
    PROVE  m.type = "start_draft" /\ p \in DOMAIN r.people /\ m.expected = r.version
<1>1. r.phase # "picking" /\ r.phase # Deleted.phase
  BY DEF Deleted
<1>2. Outcome(r).room.phase # "picking" /\ Refused(r).room.phase # "picking"
  BY <1>1 DEF Refused, Outcome
<1>3. p \in DOMAIN r.people
  <2> SUFFICES ASSUME p \notin DOMAIN r.people PROVE FALSE
    OBVIOUS
  <2>1. o = [Outcome(r) EXCEPT !.reason = "removed"]
    BY DEF HandleCommand
  <2> QED
    BY <1>1, <2>1 DEF Outcome
<1>4. ASSUME m.type # "start_draft" PROVE FALSE
  <2>1. \/ o = Resync(r, p) \/ o = Refused(r)
        \/ o = UpdateConfig(r, p, m.bots) \/ o = MoveParticipant(r, p) \/ o \in RandomizeNow(r, p) \/ o = Leave(r, p)
    BY <1>1, <1>3, <1>4 DEF HandleCommand, CommandTypes
  <2>2. CASE o = Resync(r, p)
    BY <1>1, <2>2 DEF Resync, Outcome
  <2>3. ASSUME NEW s, NEW b, s.phase = r.phase, o = Commit(s, b) PROVE FALSE
    BY <1>1, <2>3 DEF Commit, Outcome
  <2>4. CASE o = UpdateConfig(r, p, m.bots)
    <3>1. PICK s : s = [NewVersion(r) EXCEPT !.config.bots = m.bots]
      OBVIOUS
    <3>2. s.phase = r.phase
      BY <3>1 DEF NewVersion, IsRoom
    <3> QED
      BY <1>2, <2>3, <2>4, <3>1, <3>2 DEF UpdateConfig
  <2>5. CASE o = MoveParticipant(r, p)
    <3>1. PICK s : s = [WithStory(r) EXCEPT !.look = ~@, !.config.shuffle = FALSE]
      OBVIOUS
    <3>2. s.phase = r.phase
      BY <3>1 DEF WithStory, NewVersion, IsRoom
    <3> QED
      BY <1>2, <2>3, <2>5, <3>1, <3>2 DEF MoveParticipant
  <2>6. CASE o \in RandomizeNow(r, p)
    <3>1. PICK look \in BOOLEAN : o = LET s == [WithStory(r) EXCEPT !.look = look, !.config.shuffle = FALSE]
                                      IN  IF r.people[p].host
                                          THEN Commit(s, << Frame(s, "seat_layout_changed", Layout(s)),
                                                            ConfigChanged(s), FeedAppended(s) >>)
                                          ELSE Refused(r)
      BY <2>6 DEF RandomizeNow
    <3>2. PICK s : s = [WithStory(r) EXCEPT !.look = look, !.config.shuffle = FALSE]
      OBVIOUS
    <3>3. s.phase = r.phase
      BY <3>2 DEF WithStory, NewVersion, IsRoom
    <3> QED
      BY <1>2, <2>3, <3>1, <3>2, <3>3
  <2>7. CASE o = Leave(r, p)
    <3>1. PICK people : people = [q \in DOMAIN r.people \ {p} |-> r.people[q]]
      OBVIOUS
    <3>2. PICK s : s = [WithStory(r) EXCEPT !.people = people]
      OBVIOUS
    <3>3. s.phase = r.phase
      BY <3>2 DEF WithStory, NewVersion, IsRoom
    <3>4. o.room = Deleted \/ o.room = s
      BY <2>7, <3>1, <3>2 DEF Leave, Deletion, Commit, Outcome
    <3> QED
      BY <1>1, <3>3, <3>4 DEF Deleted
  <2> QED
    BY <1>2, <2>1, <2>2, <2>4, <2>5, <2>6, <2>7
<1>5. ASSUME m.type = "start_draft" PROVE m.expected = r.version
  <2>1. o = StartDraft(r, p, m.expected)
    BY <1>3, <1>5 DEF HandleCommand
  <2>2. o = Refused(r) \/ MayStart(r, m.expected)
    BY <2>1 DEF StartDraft
  <2> QED
    BY <1>2, <2>2 DEF MayStart
<1> QED
  BY <1>3, <1>4, <1>5

\* Neither a hello nor a close nor the sweep of a lobby makes a draft of it.
LEMMA OthersStartNothing ==
    ASSUME NEW r, IsRoom(r), r.phase = "lobby"
    PROVE  /\ \A m : Hello(r, m).room.phase = "lobby"
           /\ \A p \in DOMAIN r.people : \A o \in Absent(r, p) : o.room.phase = "lobby"
           /\ \A live : Reconciled(r, live).room.phase = "lobby"
<1>1. ASSUME NEW m PROVE Hello(r, m).room.phase = "lobby"
  <2>1. ASSUME NEW why PROVE TurnedAway(r, why).room.phase = "lobby"
    BY DEF TurnedAway, Outcome
  <2>2. ASSUME NEW s, s.phase = "lobby", NEW p, NEW minted PROVE Welcome(s, p, minted).room.phase = "lobby"
    BY <2>2 DEF Welcome, Outcome
  <2>3. ASSUME NEW p, NEW self, NEW minted, NEW claim
        PROVE  WithNewcomer(r, p, self, minted, claim).phase = "lobby"
    BY DEF WithNewcomer, WithStory, NewVersion, IsRoom
  <2>4. \/ \E why : Hello(r, m) = TurnedAway(r, why)
        \/ \E p, self, minted, claim, fresh : Hello(r, m) = Welcome(WithNewcomer(r, p, self, minted, claim), p, fresh)
    <3> DEFINE back == m.credential \in DOMAIN r.people
               p == IF back THEN m.credential ELSE r.minted + 1
               self == IF back
                       THEN [r.people[p] EXCEPT !.connected = TRUE, !.host = @ \/ m.claim, !.gen = @ + 1]
                       ELSE [connected |-> TRUE, host |-> m.claim, gen |-> 1]
               minted == IF back THEN r.minted ELSE r.minted + 1
    <3>1. \/ \E why : Hello(r, m) = TurnedAway(r, why)
          \/ Hello(r, m) = Welcome(WithNewcomer(r, p, self, minted, m.claim), p, ~back)
      BY DEF Hello, WithNewcomer, WithStory, NewVersion, IsRoom
    <3> HIDE DEF back, p, self, minted
    <3> QED
      BY <3>1
  <2> QED
    BY <2>1, <2>2, <2>3, <2>4
<1>2. ASSUME NEW p \in DOMAIN r.people, NEW o \in Absent(r, p) PROVE o.room.phase = "lobby"
  <2>1. PICK s : s = [WithStory(r) EXCEPT !.people[p].connected = FALSE]
    OBVIOUS
  <2>2. s.phase = "lobby"
    BY <2>1 DEF WithStory, NewVersion, IsRoom
  <2>3. ConfirmationAfter(s) = {s}
    BY <2>2 DEF ConfirmationAfter
  <2>4. PICK u \in ConfirmationAfter(s) : o = [Outcome(u) EXCEPT !.tell = <<PeopleChanged(u), FeedAppended(u)>>]
    BY <1>2, <2>1 DEF Absent
  <2>5. o.room = s
    BY <2>3, <2>4 DEF Outcome
  <2> QED
    BY <2>2, <2>5
<1>3. ASSUME NEW live PROVE Reconciled(r, live).room.phase = "lobby"
  <2>1. PICK people : people = [p \in DOMAIN r.people |-> [r.people[p] EXCEPT !.connected = @ /\ p \in live]]
    OBVIOUS
  <2>2. PICK s : s = [NewVersion(r) EXCEPT !.people = people]
    OBVIOUS
  <2>3. s.phase = "lobby"
    BY <2>2 DEF NewVersion, IsRoom
  <2>4. Reconciled(r, live).room = s
    BY <2>1, <2>2 DEF Reconciled, Outcome
  <2> QED
    BY <2>3, <2>4
<1> QED
  BY <1>1, <1>2, <1>3

\* A lobby becomes a draft only where a room reads the start of one of its
\* participants.
LEMMA LobbyStarts ==
    ASSUME SessionInv, PageInv, [Next]_vars, NEW c \in Code, rooms[c].phase = "lobby", rooms'[c].phase = "picking"
    PROVE  \E j \in Used : /\ RoomReads(j) /\ links[j].code = c /\ links[j].listed /\ links[j].up[1].type = "start_draft"
                           /\ links[j].pid \in DOMAIN rooms[c].people /\ links[j].up[1].expected = rooms[c].version
<1>1. Exists(c) /\ IsRoom(rooms[c]) /\ DOMAIN rooms = Code
  BY RoomShape DEF Exists, SessionInv, Shapes
<1>2. ASSUME NEW q \in Request,
             \/ SubmitCreate(q) \/ RouterCreates(q) \/ RouterCollides(q) \/ CreateFails(q)
             \/ Answered(q) \/ AnsweredNo(q)
      PROVE  FALSE
  <2>1. CASE RouterCreates(q)
    <3>1. PICK d \in Code, options \in Options : rooms[d] = Unmade /\ rooms' = [rooms EXCEPT ![d] = NewRoom(options)]
      BY <2>1 DEF RouterCreates, MayInitialize
    <3>2. d # c
      BY <3>1 DEF Unmade
    <3> QED
      BY <3>1, <3>2
  <2>2. CASE ~RouterCreates(q)
    <3>1. UNCHANGED rooms
      BY <1>2, <2>2 DEF SubmitCreate, RouterCollides, CreateFails, Answered, AnsweredNo
    <3> QED
      BY <3>1
  <2> QED
    BY <2>1, <2>2
<1>3. ASSUME NEW t \in Tab, SubmitJoin(t) \/ LeaveRoom(t) \/ UsesControl(t) PROVE FALSE
  <2>1. UNCHANGED rooms
    BY <1>3 DEF SubmitJoin, LeaveRoom, UsesControl
  <2> QED
    BY <2>1
<1>4. ASSUME NEW x \in Drivers, Opens(x) \/ FailsToOpen(x) \/ TriesAgain(x) PROVE FALSE
  <2>1. UNCHANGED rooms
    BY <1>4, SMTT(30) DEF Opens, FailsToOpen, TriesAgain
  <2> QED
    BY <2>1
<1>5. ASSUME NEW l \in Link, HearsFrame(l) \/ HearsClose(l) \/ IsCut(l) PROVE FALSE
  <2>1. UNCHANGED rooms
    BY <1>5 DEF HearsFrame, HearsClose, IsCut
  <2> QED
    BY <2>1
<1>6. ASSUME NEW l \in Link, RoomHearsClose(l) PROVE FALSE
  <2>1. PICK d, o : /\ d = links[l].code /\ rooms' = [rooms EXCEPT ![d] = o.room]
                    /\ o \in IF SpeaksFor(links[l]) THEN Absent(rooms[d], links[l].pid) ELSE {Outcome(rooms[d])}
    BY <1>6 DEF RoomHearsClose
  <2>2. d = c /\ o.room.phase = "picking"
    BY <1>1, <2>1
  <2>3. CASE SpeaksFor(links[l])
    BY <1>1, <2>1, <2>2, <2>3, OthersStartNothing DEF SpeaksFor
  <2>4. CASE ~SpeaksFor(links[l])
    BY <2>1, <2>2, <2>4 DEF Outcome
  <2> QED
    BY <2>3, <2>4
<1>7. ASSUME NEW d \in Code, AlarmFires(d) PROVE FALSE
  <2>1. PICK o \in IF rooms[d].phase # "lobby" THEN DeadlineAlarm(rooms[d])
                   ELSE IF Connected(rooms[d]) = {} THEN {Deletion(<<>>)}
                   ELSE {Reconciled(rooms[d], live) : live \in
                            {s \in Live(d) : ~(Connected(rooms[d]) \subseteq s)}} : Takes(d, o, 0)
    BY <1>7 DEF AlarmFires
  <2>2. rooms' = [rooms EXCEPT ![d] = o.room]
    BY <2>1 DEF Takes
  <2>3. d = c /\ o.room.phase = "picking"
    BY <1>1, <2>2
  <2>4. Deletion(<<>>).room.phase # "picking"
    BY DEF Deletion, Outcome, Deleted
  <2> QED
    BY <1>1, <2>1, <2>3, <2>4, OthersStartNothing
<1>8. ASSUME NEW l \in Link, RoomReads(l)
      PROVE  /\ l \in Used /\ links[l].code = c /\ links[l].listed /\ links[l].up[1].type = "start_draft"
             /\ links[l].pid \in DOMAIN rooms[c].people /\ links[l].up[1].expected = rooms[c].version
  <2>1. l \in Used
    BY <1>8, CodedUsed DEF RoomReads
  <2>2. PICK k, d, m : k = links[l] /\ d = k.code /\ m = k.up[1]
    OBVIOUS
  <2>3. Faultless(k) /\ k.listed /\ k.up # <<>> /\ Head(k.up) = m /\ Len(k.up) \in Nat \ {0}
    <3>1. Faultless(k) /\ k.up # <<>> /\ k.listed
      BY <1>8, <2>1, <2>2, LinkFacts DEF RoomReads
    <3> QED
      BY <2>2, <3>1, ProperTail DEF Faultless, IsLink
  <2>4. PICK o \in IF ~Exists(d) THEN {[Outcome(rooms[d]) EXCEPT !.reason = "room_closed"]}
                   ELSE IF k.pid # Nobody THEN HandleCommand(rooms[d], k.pid, m)
                   ELSE IF ~k.open THEN {Outcome(rooms[d])}
                   ELSE IF m.type # "hello" THEN {TurnedAway(rooms[d], "hello_required")}
                   ELSE {Hello(rooms[d], m)} : rooms' = [rooms EXCEPT ![d] = o.room]
    <3>1. \E o \in IF ~Exists(links[l].code) THEN {[Outcome(rooms[links[l].code]) EXCEPT !.reason = "room_closed"]}
                   ELSE IF links[l].pid # Nobody THEN HandleCommand(rooms[links[l].code], links[l].pid, Head(links[l].up))
                   ELSE IF ~links[l].open THEN {Outcome(rooms[links[l].code])}
                   ELSE IF Head(links[l].up).type # "hello" THEN {TurnedAway(rooms[links[l].code], "hello_required")}
                   ELSE {Hello(rooms[links[l].code], Head(links[l].up))} :
                      rooms' = [rooms EXCEPT ![links[l].code] = o.room]
      BY <1>8, Zenon DEF RoomReads
    <3>2. links[l] = k /\ k.code = d /\ Head(k.up) = m
      BY <2>2, <2>3
    <3> QED
      BY <3>1, <3>2
  <2>5. d = c /\ o.room.phase = "picking"
    BY <1>1, <2>4
  <2>6. Outcome(rooms[c]).room.phase # "picking" /\ TurnedAway(rooms[c], "hello_required").room.phase # "picking"
    BY DEF Outcome, TurnedAway
  <2>7. k.pid # Nobody /\ o \in HandleCommand(rooms[c], k.pid, m)
    BY <1>1, <2>4, <2>5, <2>6, OthersStartNothing
  <2>8. m.type \in CommandTypes
    BY <2>2, <2>3, <2>7 DEF Faultless, Says
  <2>9. m.type = "start_draft" /\ k.pid \in DOMAIN rooms[c].people /\ m.expected = rooms[c].version
    BY <1>1, <2>5, <2>7, <2>8, CommandStarts
  <2> QED
    BY <2>1, <2>2, <2>3, <2>5, <2>9
<1>9. ~UNCHANGED vars
  <2>1. rooms' # rooms
    OBVIOUS
  <2> QED
    BY <2>1 DEF vars
<1>10. Next
  BY <1>9
<1>11. \E l \in Link : RoomReads(l)
  BY <1>2, <1>3, <1>4, <1>5, <1>6, <1>7, <1>10 DEF Next
<1> QED
  BY <1>8, <1>11

\* What a room reads as a start, at the version it has, was sent by a page
\* that showed it, or that had yet to fold a frame of that version.
LEMMA StepAsShown ==
    ASSUME SessionInv, PageInv, StartInv, [Next]_vars,
           NEW l \in Link, links[l].code # "none", links[l].up # <<>>,
           Head(links[l].up).type = "start_draft", links'[l].up = Tail(links[l].up),
           NEW r, r = rooms[links[l].code], r.phase = "lobby", rooms'[links[l].code].phase = "picking"
    PROVE  Head(links[l].up).saw = [unsettled |-> TRUE] \/ Head(links[l].up).saw = LobbyOf(Layout(r), r.config)
<1>1. l \in Used
  BY CodedUsed
<1>2. PICK k, m, c : k = links[l] /\ m = Head(k.up) /\ c = k.code
  OBVIOUS
<1>3. c \in Code /\ IsLink(k) /\ Proper(k.up)
  BY <1>1, <1>2, LinkFacts DEF IsLink
<1>4. Len(k.up) \in Nat \ {0} /\ Len(Tail(k.up)) = Len(k.up) - 1 /\ m = k.up[1] /\ m \in Range(k.up)
  BY <1>2, <1>3, ProperTail, ProperFacts
<1>5. PICK j \in Used : /\ RoomReads(j) /\ links[j].code = c /\ links[j].listed /\ links[j].up[1].type = "start_draft"
                        /\ links[j].pid \in DOMAIN r.people /\ links[j].up[1].expected = r.version
  BY <1>2, <1>3, LobbyStarts
<1>6. j = l
  <2> SUFFICES ASSUME j # l PROVE FALSE
    OBVIOUS
  <2>1. PICK d, o :
            /\ d \in Code /\ links[j].up # <<>>
            /\ links' = [Announced(d, o, j) EXCEPT ![j].up = Tail(@)]
            /\ (Spoken(rooms[d], o) \/ Welcomed(rooms[d], links[j].up[1], o))
    BY <1>5, ReadOutcome
  <2>2. Speech(o)
    BY <2>1, SpokenSpeech, WelcomedSpeech
  <2>3. links'[l].up = links[l].up
    BY <1>1, <2>1, <2>2, ReadLess
  <2>4. Tail(k.up) = k.up
    BY <1>2, <2>3
  <2>5. PICK n : n = Len(k.up)
    OBVIOUS
  <2>6. n = n - 1 /\ n \in Nat
    BY <1>4, <2>4, <2>5
  <2> QED
    BY <2>6
<1>7. Timed(m, k, r)
  <2>1. Punctual(l) /\ Exists(c)
    BY <1>1, <1>2 DEF StartInv, Exists
  <2> QED
    BY <1>2, <1>4, <2>1 DEF Punctual, Prompt, Timely
<1> QED
  BY <1>2, <1>4, <1>5, <1>6, <1>7 DEF Timed

\* No start names a version its room has not had; and while the room has the
\* version it names, its sender saw the room as it is.
THEOREM StartsKeepTime == Spec /\ []OneConnection => []StartInv
<1>1. Init => StartInv
  BY InitStarts
<1>2. SessionInv /\ SessionInv' /\ PageInv /\ StartInv /\ [Next]_vars => StartInv'
  BY StepStarts
<1> QED
  BY <1>1, <1>2, SessionAlways, PagesAlwaysFollow, PTL DEF Spec

\* StartsAsShown: whenever a room starts its draft (room.ts:852), the page of
\* the host who pressed start had folded every frame of the version it named
\* and showed the very people, seats and options the draft starts with, or it
\* had still to fold one; whatever was lost, repeated or overtaken on the way,
\* and however many tabs and rooms there are.
THEOREM RoomsStartAsShown == Spec /\ []OneConnection => StartsAsShown
<1>1. SessionInv /\ PageInv /\ StartInv /\ [Next]_vars =>
          [\A l \in Link :
              (/\ links[l].code # "none" /\ links[l].up # <<>>
               /\ Head(links[l].up).type = "start_draft" /\ links'[l].up = Tail(links[l].up)
               /\ rooms[links[l].code].phase = "lobby"
               /\ rooms'[links[l].code].phase = "picking")
              => \/ Head(links[l].up).saw = [unsettled |-> TRUE]
                 \/ Head(links[l].up).saw =
                        LobbyOf(Layout(rooms[links[l].code]), rooms[links[l].code].config)]_vars
  BY StepAsShown
<1> QED
  BY <1>1, SessionAlways, PagesAlwaysFollow, StartsKeepTime, PTL DEF Spec, StartsAsShown

=============================================================================
