---------------------------- MODULE Views_proofs ----------------------------
(***************************************************************************)
(* What Views promises, proved for every set of projects, rows, files and  *)
(* databases, and for every budget.                                        *)
(***************************************************************************)
EXTENDS Views, FiniteSetTheorems, SequenceTheorems, WellFoundedInduction, TLAPS

-----------------------------------------------------------------------------
(* The URL and the history.                                                *)

AllWorktrees == (UNION {WorktreesOf[q] : q \in Projects}) \cup {None}
AllChats     == UNION {ChatsOf[k] : k \in Route!Scopes}

Urls == [scope : Route!Scopes, chat : AllChats \cup {None}]

States ==
  [project : Projects, worktree : [Projects -> AllWorktrees],
   open : [Route!Scopes -> SUBSET AllChats], active : [Route!Scopes -> AllChats \cup {None}],
   entries : Seq(Urls), at : Int, own : Urls \cup {None},
   mirrored : Route!Scopes \cup {Route!NoScope}, validated : Route!Scopes]

\* A selection, a history and a place in it; what the sync takes for its own
\* writing is the entry it is at.
Sound(s) ==
  /\ s \in States /\ s.at \in DOMAIN s.entries
  /\ s.own \in {None, Route!Here(s)}

Named(s) == Route!Here(s).scope = Route!Current(s) /\ Route!Here(s).chat \in {Route!ActiveChat(s), None}
Exact(s) == Route!Here(s) = Route!BuildUrl(s)

RouteInv == Sound(ui) /\ Named(ui) /\ DOMAIN known \subseteq Projects

-----------------------------------------------------------------------------

\* A scope is one of the scopes, and each is made of its parts.
LEMMA ScopesAreRecords ==
  /\ \A p \in Projects, w \in AllWorktrees : Route!ScopeOf(p, w) \in Route!Scopes
  /\ \A k \in Route!Scopes : k.project \in Projects /\ k.worktree \in AllWorktrees
                       /\ k = Route!ScopeOf(k.project, k.worktree)
BY DEF Route!ScopeOf, Route!Scopes, AllWorktrees

\* With a project selected there is a scope, and a URL of it.
LEMMA HasScope ==
  ASSUME NEW s \in States
  PROVE  /\ Route!Current(s) = Route!ScopeOf(s.project, s.worktree[s.project])
         /\ Route!Current(s) \in Route!Scopes /\ Route!Current(s) # Route!NoScope
         /\ Route!ActiveChat(s) = s.active[Route!Current(s)]
         /\ Route!BuildUrl(s) \in Urls
<1>1. s.project \in Projects /\ s.worktree[s.project] \in AllWorktrees
  BY DEF States
<1>2. Route!Current(s) = Route!ScopeOf(s.project, s.worktree[s.project]) /\ Route!Current(s) \in Route!Scopes
  BY RouteOK, <1>1, ScopesAreRecords DEF Route!Current
<1>3. Route!Current(s) # Route!NoScope
  BY RouteOK, <1>1, <1>2 DEF Route!ScopeOf, Route!NoScope
<1>4. Route!ActiveChat(s) = s.active[Route!Current(s)] /\ Route!ActiveChat(s) \in AllChats \cup {None}
  BY <1>2, <1>3 DEF Route!ActiveChat, States
<1>. QED BY <1>2, <1>3, <1>4 DEF Route!BuildUrl, Route!Url, Urls

\* Writing the URL leaves the selection alone, and the address bar exact.
LEMMA MirrorIsExact ==
  ASSUME NEW s, Sound(s)
  PROVE  LET m == Route!Mirror(s)
         IN  /\ Sound(m) /\ Exact(m)
             /\ m.project = s.project /\ m.worktree = s.worktree
             /\ m.open = s.open /\ m.active = s.active
<1>. DEFINE url == Route!BuildUrl(s)
            m == Route!Mirror(s)
<1>1. s \in States /\ url \in Urls /\ Route!Current(s) \in Route!Scopes
  BY HasScope DEF Sound
<1>2. CASE url = Route!Here(s)
  <2>1. m = s
    BY <1>2 DEF Route!Mirror
  <2>. QED BY <2>1, <1>2 DEF Exact
<1>3. CASE url # Route!Here(s) /\ Route!Current(s) # s.mirrored
  <2>. DEFINE es == Append(SubSeq(s.entries, 1, s.at), url)
  <2>1. m = [s EXCEPT !.entries = es, !.at = @ + 1, !.own = url, !.mirrored = Route!Current(s)]
    BY <1>3 DEF Route!Mirror
  <2>2. s.entries \in Seq(Urls) /\ s.at \in 1..Len(s.entries)
    BY DEF Sound, States
  <2>3. SubSeq(s.entries, 1, s.at) \in Seq(Urls) /\ Len(SubSeq(s.entries, 1, s.at)) = s.at
    BY <2>2
  <2>4. es \in Seq(Urls) /\ Len(es) = s.at + 1 /\ es[s.at + 1] = url
    BY <2>2, <2>3, <1>1
  <2>. HIDE DEF es
  <2>5. m \in States /\ m.at \in DOMAIN m.entries
    <3>. DEFINE n == s.at + 1
                k == Route!Current(s)
    <3>1. n \in Int /\ k \in Route!Scopes /\ url \in Urls /\ es \in Seq(Urls)
      BY <1>1, <2>4 DEF States
    <3>4. m = [s EXCEPT !.entries = es, !.at = n, !.own = url, !.mirrored = k]
      BY <2>1
    <3>. HIDE DEF url, m, n, k
    <3>2. m \in States
      BY <1>1, <3>1, <3>4 DEF States
    <3>3. m.entries = es /\ m.at = s.at + 1
      BY <2>1, <1>1 DEF States
    <3>. QED BY <2>2, <2>4, <3>2, <3>3
  <2>6. Route!Here(m) = url /\ m.own = url
    BY <2>1, <2>4, <1>1 DEF Route!Here, States
  <2>7. m.project = s.project /\ m.worktree = s.worktree /\ m.open = s.open /\ m.active = s.active
    BY <2>1, <1>1 DEF States
  <2>8. Route!BuildUrl(m) = url
    BY <2>7 DEF Route!BuildUrl, Route!Current, Route!ActiveChat
  <2>. QED BY <2>5, <2>6, <2>7, <2>8 DEF Sound, Exact
<1>4. CASE url # Route!Here(s) /\ Route!Current(s) = s.mirrored
  <2>. DEFINE es == [s.entries EXCEPT ![s.at] = url]
  <2>1. m = [s EXCEPT !.entries = es, !.at = @, !.own = url, !.mirrored = Route!Current(s)]
    BY <1>4 DEF Route!Mirror
  <2>2. s.entries \in Seq(Urls) /\ s.at \in 1..Len(s.entries)
    BY DEF Sound, States
  <2>4. es \in Seq(Urls) /\ Len(es) = Len(s.entries) /\ es[s.at] = url
    BY <2>2, <1>1
  <2>. HIDE DEF es
  <2>5. m \in States /\ m.at \in DOMAIN m.entries
    <3>1. s.at \in Int /\ Route!Current(s) \in Route!Scopes /\ url \in Urls
      BY <1>1 DEF States
    <3>. HIDE DEF url, m
    <3>2. m \in States
      BY <2>1, <2>4, <1>1, <3>1 DEF States
    <3>3. m.entries = es /\ m.at = s.at
      BY <2>1, <1>1 DEF States
    <3>. QED BY <2>2, <2>4, <3>2, <3>3
  <2>6. Route!Here(m) = url /\ m.own = url
    BY <2>1, <2>4, <1>1 DEF Route!Here, States
  <2>7. m.project = s.project /\ m.worktree = s.worktree /\ m.open = s.open /\ m.active = s.active
    BY <2>1, <1>1 DEF States
  <2>8. Route!BuildUrl(m) = url
    BY <2>7 DEF Route!BuildUrl, Route!Current, Route!ActiveChat
  <2>. QED BY <2>5, <2>6, <2>7, <2>8 DEF Sound, Exact
<1>. QED BY <1>2, <1>3, <1>4

\* Selecting a project: unchanged, or written.
LEMMA SetProjectIsSound ==
  ASSUME NEW s, Sound(s), NEW p \in Projects
  PROVE  LET n == Route!SetProject(s, p)
         IN  /\ Sound(n) /\ (n = s \/ Exact(n))
             /\ n.project = p /\ n.worktree = s.worktree /\ n.active = s.active
<1>1. CASE s.project = p
  BY <1>1 DEF Route!SetProject
<1>2. CASE s.project # p
  <2>. DEFINE t == [s EXCEPT !.project = p]
  <2>1. Sound(t) /\ t.project = p /\ t.worktree = s.worktree /\ t.active = s.active
    BY DEF Sound, States, Route!Here
  <2>2. Route!SetProject(s, p) = Route!Mirror(t)
    BY <1>2 DEF Route!SetProject
  <2>. HIDE DEF t
  <2>. QED BY <2>1, <2>2, MirrorIsExact
<1>. QED BY <1>1, <1>2

LEMMA SetWorktreeIsSound ==
  ASSUME NEW s, Sound(s), NEW p \in Projects, NEW w \in AllWorktrees
  PROVE  LET n == Route!SetWorktree(s, p, w)
         IN  /\ Sound(n) /\ ((n = s /\ s.worktree[p] = w) \/ Exact(n))
             /\ n.project = s.project /\ n.worktree[p] = w /\ n.active = s.active
<1>1. CASE s.worktree[p] = w
  BY <1>1 DEF Route!SetWorktree
<1>2. CASE s.worktree[p] # w
  <2>. DEFINE t == [s EXCEPT !.worktree[p] = w]
  <2>1. Sound(t) /\ t.project = s.project /\ t.worktree[p] = w /\ t.active = s.active
    BY DEF Sound, States, Route!Here
  <2>2. Route!SetWorktree(s, p, w) = Route!Mirror(t)
    BY <1>2 DEF Route!SetWorktree
  <2>. HIDE DEF t
  <2>. QED BY <2>1, <2>2, MirrorIsExact
<1>. QED BY <1>1, <1>2

\* Selecting a worktree shows its scope.
LEMMA SelectWorktreeIsSound ==
  ASSUME NEW s, Sound(s), NEW p \in Projects, NEW w \in AllWorktrees
  PROVE  LET n == Route!SelectWorktree(s, p, w)
         IN  Sound(n) /\ (n = s \/ Exact(n)) /\ Route!Current(n) = Route!ScopeOf(p, w)
<1>. DEFINE one == Route!SetProject(s, p)
            two == Route!SetWorktree(one, p, w)
<1>1. Sound(one) /\ (one = s \/ Exact(one)) /\ one.project = p
  BY SetProjectIsSound
<1>. HIDE DEF one
<1>2. /\ Sound(two) /\ (two = one \/ Exact(two))
      /\ two.project = one.project /\ two.worktree[p] = w
  BY <1>1, SetWorktreeIsSound
<1>3. Route!SelectWorktree(s, p, w) = two
  BY DEF Route!SelectWorktree, one
<1>. HIDE DEF two
<1>4. Route!Current(two) = Route!ScopeOf(p, w)
  BY <1>1, <1>2, HasScope DEF Sound
<1>. QED BY <1>1, <1>2, <1>3, <1>4

\* Opening a chat's tab in the scope shown.
LEMMA EnsureChatTabIsSound ==
  ASSUME NEW s, Sound(s), NEW c \in AllChats
  PROVE  LET n == Route!EnsureChatTab(s, c)
         IN  /\ Sound(n) /\ Exact(n)
             /\ Route!Current(n) = Route!Current(s) /\ Route!ActiveChat(n) = c
<1>. DEFINE k == Route!Current(s)
            t == [s EXCEPT !.open[k] = @ \cup {c}]
            u == [t EXCEPT !.active[k] = c]
<1>1. s \in States /\ k \in Route!Scopes /\ k # Route!NoScope
  BY HasScope DEF Sound
<1>2. /\ Sound(t) /\ t.project = s.project /\ t.worktree = s.worktree
  BY <1>1 DEF Sound, States, Route!Here
<1>3. Route!Current(t) = k
  BY <1>2 DEF Route!Current
<1>4. Route!EnsureChatTab(s, c) = Route!Mirror(u)
  BY <1>1, <1>3 DEF Route!EnsureChatTab, Route!SetActive
<1>. HIDE DEF t
<1>5. /\ Sound(u) /\ u.project = s.project /\ u.worktree = s.worktree /\ u.active[k] = c
  BY <1>1, <1>2 DEF Sound, States, Route!Here
<1>. HIDE DEF u
<1>6. LET m == Route!Mirror(u)
      IN  /\ Sound(m) /\ Exact(m) /\ m.project = s.project /\ m.worktree = s.worktree
          /\ m.active[k] = c
  BY <1>5, MirrorIsExact
<1>7. Route!Current(Route!Mirror(u)) = k
  BY <1>6 DEF Route!Current
<1>8. Route!ActiveChat(Route!Mirror(u)) = c
  BY <1>1, <1>6, <1>7 DEF Route!ActiveChat
<1>. QED BY <1>4, <1>6, <1>7, <1>8

\* What has just been written names the view.
LEMMA ExactIsNamed ==
  ASSUME NEW s, Exact(s)
  PROVE  Named(s)
BY DEF Exact, Named, Route!BuildUrl, Route!Url

-----------------------------------------------------------------------------
(* Back and Forward.                                                       *)

\* The scope that is gone to stands in the address bar.
LEMMA ValidateIsSound ==
  ASSUME NEW s, Sound(s), s.own = None, DOMAIN known \subseteq Projects,
         NEW pair \in Route!Validate(s, Route!Here(s).scope)
  PROVE  /\ Sound(pair[1]) /\ pair[2] \in Route!Scopes
         /\ Route!Here(pair[1]).scope = pair[2]
<1>. DEFINE target == Route!Here(s).scope
            seen == [s EXCEPT !.validated = target]
<1>1. /\ s \in States /\ s.entries \in Seq(Urls) /\ s.at \in 1..Len(s.entries)
      /\ Route!Here(s) \in Urls /\ target \in Route!Scopes
  <2>1. s \in States /\ s.entries \in Seq(Urls) /\ s.at \in 1..Len(s.entries)
    BY DEF Sound, States
  <2>2. Route!Here(s) \in Urls
    BY <2>1 DEF Route!Here
  <2>. QED BY <2>1, <2>2 DEF Urls
<1>2. /\ target.project \in Projects
      /\ target.project # None
  BY RouteOK, <1>1, ScopesAreRecords
<1>3. /\ Sound(seen) /\ Route!Here(seen) = Route!Here(s) /\ seen.own = None
      /\ seen.entries = s.entries /\ seen.at = s.at
  BY <1>1 DEF Sound, States, Route!Here
<1>. HIDE DEF seen
<1>4. ASSUME NEW p \in Projects
      PROVE  LET url == Route!Url(Route!ScopeOf(p, None), None)
                 n   == Route!Replace(seen, url)
             IN  Sound(n) /\ Route!Here(n).scope = Route!ScopeOf(p, None) /\ Route!ScopeOf(p, None) \in Route!Scopes
  <2>. DEFINE url == Route!Url(Route!ScopeOf(p, None), None)
              es == [seen.entries EXCEPT ![seen.at] = url]
              n == Route!Replace(seen, url)
  <2>1. Route!ScopeOf(p, None) \in Route!Scopes /\ url \in Urls /\ url.scope = Route!ScopeOf(p, None)
    BY ScopesAreRecords DEF AllWorktrees, Route!Url, Urls
  <2>2. es \in Seq(Urls) /\ Len(es) = Len(s.entries) /\ es[s.at] = url
    BY <1>1, <1>3, <2>1
  <2>3. n = [seen EXCEPT !.entries = es]
    BY DEF Route!Replace
  <2>. HIDE DEF es, url, n
  <2>4. /\ n \in States /\ n.at = s.at /\ n.own = None /\ n.entries = es
    BY <1>3, <2>2, <2>3 DEF Sound, States
  <2>5. n.at \in DOMAIN n.entries /\ Route!Here(n) = url
    BY <2>2, <2>4, <1>1 DEF Route!Here
  <2>. QED BY <2>1, <2>4, <2>5 DEF Sound, url, n
<1>5. CASE target = s.validated
  <2>1. pair = <<s, target>>
    BY <1>5 DEF Route!Validate
  <2>. QED BY <2>1, <1>1
<1>6. CASE /\ target # s.validated
           /\ DOMAIN known # {} /\ target.project \notin DOMAIN known
  <2>1. PICK p \in Route!Fallback(s) :
          pair = <<Route!Replace(seen, Route!Url(Route!ScopeOf(p, None), None)), Route!ScopeOf(p, None)>>
    BY <1>2, <1>6 DEF Route!Validate, seen
  <2>2. p \in Projects
    BY <1>6 DEF Route!Fallback
  <2>. QED BY <1>4, <2>1, <2>2
<1>7. CASE /\ target # s.validated
           /\ ~(DOMAIN known # {} /\ target.project \notin DOMAIN known)
  <2>1. \/ pair = <<Route!Replace(seen, Route!Url(Route!ScopeOf(target.project, None), None)),
                    Route!ScopeOf(target.project, None)>>
        \/ pair = <<seen, target>>
    BY <1>2, <1>7 DEF Route!Validate, seen
  <2>. QED BY <1>1, <1>2, <1>3, <1>4, <2>1
<1>. QED BY <1>5, <1>6, <1>7

\* The selection a URL asks for is the one shown, and unless it was there
\* already the URL has been written.
LEMMA SelectTargetIsSound ==
  ASSUME NEW s, Sound(s), NEW to \in Route!Scopes
  PROVE  LET n == Route!SelectTarget(s, to)
         IN  Sound(n) /\ (n = s \/ Exact(n)) /\ Route!Current(n) = to
<1>1. to.project \in Projects /\ to.worktree \in AllWorktrees
      /\ to = Route!ScopeOf(to.project, to.worktree) /\ to.project # None
  BY RouteOK, ScopesAreRecords
<1>. DEFINE one == Route!SelectProject(s, to.project)
<1>2. Sound(one) /\ (one = s \/ Exact(one))
  BY <1>1, SetProjectIsSound DEF Route!SelectProject
<1>3. Route!SelectTarget(s, to) = IF to = Route!Current(one) THEN one
                            ELSE Route!SelectWorktree(one, to.project, to.worktree)
  BY <1>1 DEF Route!SelectTarget
<1>. HIDE DEF one
<1>4. CASE to = Route!Current(one)
  BY <1>2, <1>3, <1>4
<1>5. CASE to # Route!Current(one)
  <2>1. LET n == Route!SelectWorktree(one, to.project, to.worktree)
        IN  Sound(n) /\ (n = one \/ Exact(n)) /\ Route!Current(n) = to
    BY <1>1, <1>2, SelectWorktreeIsSound
  <2>. QED BY <1>2, <1>3, <1>5, <2>1
<1>. QED BY <1>4, <1>5

\* The state in which a step in the history finds the store, and the same
\* with the mark of the sync's own writing taken back.
LEMMA AfterTheStep ==
  ASSUME RouteInv, NEW step \in {-1, 1}, ui.at + step \in DOMAIN ui.entries
  PROVE  LET s == [ui EXCEPT !.at = @ + step]
             t == [s EXCEPT !.own = None]
         IN  /\ Sound(t) /\ t.own = None /\ Route!Here(t) = Route!Here(s) /\ Route!Here(s) \in Urls
             /\ Route!Here(s) = ui.entries[ui.at + step]
             /\ s.own = ui.own /\ t.project = ui.project
             /\ t.worktree = ui.worktree /\ t.active = ui.active
<1>. DEFINE s == [ui EXCEPT !.at = @ + step]
            t == [s EXCEPT !.own = None]
<1>1. /\ s \in States /\ s.at \in DOMAIN s.entries /\ s.own = ui.own
      /\ s.at = ui.at + step /\ s.entries = ui.entries
      /\ s.project = ui.project /\ s.worktree = ui.worktree /\ s.active = ui.active
  <2>1. ui \in States
    BY DEF RouteInv, Sound
  <2>2. ui.at + step \in Int
    BY <2>1 DEF States
  <2>3. /\ s.at = ui.at + step /\ s.entries = ui.entries /\ s.own = ui.own
        /\ s.project = ui.project /\ s.worktree = ui.worktree /\ s.active = ui.active
    BY <2>1 DEF States
  <2>4. s \in States
    BY <2>1, <2>2 DEF States
  <2> QED BY <2>3, <2>4
<1>2. s.entries \in Seq(Urls) /\ s.at \in 1..Len(s.entries)
  BY <1>1 DEF States
<1>3. Route!Here(s) \in Urls /\ Route!Here(s) = ui.entries[ui.at + step]
  BY <1>1, <1>2 DEF Route!Here
<1>. HIDE DEF s
<1>4. /\ t \in States /\ t.own = None /\ t.entries = s.entries /\ t.at = s.at
      /\ t.project = s.project /\ t.worktree = s.worktree /\ t.active = s.active
  BY <1>1 DEF States
<1>5. Sound(t) /\ Route!Here(t) = Route!Here(s)
  BY <1>1, <1>4 DEF Sound, Route!Here
<1>. HIDE DEF t
<1>. QED BY <1>1, <1>3, <1>4, <1>5 DEF s, t

\* A scope that exists is gone to as it is.
LEMMA ValidateKeepsWhatExists ==
  ASSUME NEW s, NEW target, target.project \in DOMAIN known,
         target.worktree \in known[target.project] \cup {None},
         NEW pair \in Route!Validate(s, target)
  PROVE  pair[2] = target
BY DEF Route!Validate

\* The view after a step in the history is named by the entry reached.
LEMMA ApplyUrlIsSound ==
  ASSUME RouteInv, NEW step \in {-1, 1}, ui.at + step \in DOMAIN ui.entries,
         NEW r \in Route!ApplyUrl([ui EXCEPT !.at = @ + step])
  PROVE  /\ Sound(r) /\ Named(r)
         /\ LET target == ui.entries[ui.at + step].scope
            IN  /\ target.project \in DOMAIN known
                /\ target.worktree \in known[target.project] \cup {None}
                => Route!Current(r) = target
<1>. DEFINE s == [ui EXCEPT !.at = @ + step]
            t == [s EXCEPT !.own = None]
            target == ui.entries[ui.at + step].scope
            Exists == /\ target.project \in DOMAIN known
                      /\ target.worktree \in known[target.project] \cup {None}
<1>2. /\ Sound(t) /\ t.own = None /\ Route!Here(t) = Route!Here(s) /\ Route!Here(s) \in Urls
      /\ Route!Here(s).scope = target
      /\ s.own = ui.own /\ t.project = ui.project
      /\ t.worktree = ui.worktree /\ t.active = ui.active
  BY AfterTheStep
<1>. HIDE DEF s, t
<1>3. CASE Route!Here(s) = s.own
  <2>1. r = t
    BY <1>3 DEF Route!ApplyUrl, s, t
  <2>2. s.own = Route!Here(ui)
    <3>1. None \notin Urls
      BY RouteOK DEF Urls, AllChats
    <3>2. ui.own \in {None, Route!Here(ui)}
      BY DEF RouteInv, Sound
    <3>. QED BY <1>2, <1>3, <3>1, <3>2
  <2>3. Route!Current(t) = Route!Current(ui) /\ Route!ActiveChat(t) = Route!ActiveChat(ui)
    BY <1>2 DEF Route!Current, Route!ActiveChat
  <2>4. Named(t) /\ Route!Current(t) = target
    BY <1>2, <1>3, <2>2, <2>3 DEF RouteInv, Named
  <2>5. Sound(r) /\ Named(r) /\ Route!Current(r) = target
    BY <1>2, <2>1, <2>4
  <2>. HIDE DEF Exists
  <2>. QED BY <2>5
<1>4. CASE Route!Here(s) # s.own
  <2>. HIDE DEF target
  <2>1. PICK pair \in Route!Validate(t, target) :
          r = LET atScope == Route!SelectTarget(pair[1], pair[2])
                  c    == Route!Here(atScope).chat
              IN  IF c = None \/ c = Route!ActiveChat(atScope) THEN atScope
                  ELSE Route!EnsureChatTab(atScope, c)
    BY <1>2, <1>4 DEF Route!ApplyUrl, s, t
  <2>2. /\ Sound(pair[1]) /\ pair[2] \in Route!Scopes /\ Route!Here(pair[1]).scope = pair[2]
        /\ (Exists => pair[2] = target)
    <3>1. Exists => pair[2] = target
      BY <2>1, ValidateKeepsWhatExists
    <3>2. pair \in Route!Validate(t, Route!Here(t).scope)
      BY <1>2, <2>1
    <3>. QED BY <1>2, <3>1, <3>2, ValidateIsSound DEF RouteInv
  <2>. DEFINE n == Route!SelectTarget(pair[1], pair[2])
  <2>3. Sound(n) /\ (n = pair[1] \/ Exact(n)) /\ Route!Current(n) = pair[2]
    BY <2>2, SelectTargetIsSound
  <2>. HIDE DEF n, Exists
  <2>4. Route!Here(n) \in Urls
    <3>1. n.entries \in Seq(Urls) /\ n.at \in DOMAIN n.entries
      BY <2>3 DEF Sound, States
    <3>. QED BY <3>1 DEF Route!Here
  <2>5. CASE Exact(n) /\ r = n
    BY <2>2, <2>3, <2>5, ExactIsNamed DEF Exists, target
  <2>6. CASE n = pair[1] /\ r = n /\ Route!Here(n).chat \in {None, Route!ActiveChat(n)}
    BY <2>2, <2>3, <2>6 DEF Named, Exists, target
  <2>7. CASE Route!Here(n).chat # None /\ r = Route!EnsureChatTab(n, Route!Here(n).chat)
    <3>1. Route!Here(n).chat \in AllChats
      BY <2>4, <2>7 DEF Urls
    <3>2. Sound(r) /\ Exact(r) /\ Route!Current(r) = Route!Current(n)
      BY <2>3, <2>7, <3>1, EnsureChatTabIsSound
    <3>. QED BY <2>2, <2>3, <3>2, ExactIsNamed DEF Exists, target
  <2>. QED BY <2>1, <2>3, <2>5, <2>6, <2>7 DEF n
<1>. QED BY <1>3, <1>4

-----------------------------------------------------------------------------

LEMMA RouteInit ==
  ASSUME Route!Init
  PROVE  RouteInv
<1>1. PICK p \in Projects :
        ui = [project |-> p, worktree |-> [q \in Projects |-> None],
              open |-> [k \in Route!Scopes |-> {}], active |-> [k \in Route!Scopes |-> None],
              entries |-> <<Route!Url(Route!ScopeOf(p, None), None)>>, at |-> 1, own |-> None,
              mirrored |-> Route!NoScope, validated |-> Route!ScopeOf(p, None)]
  <2>1. PICK scope \in {Route!ScopeOf(p, None) : p \in Projects} :
          ui = [project |-> scope.project, worktree |-> [q \in Projects |-> None],
                open |-> [k \in Route!Scopes |-> {}], active |-> [k \in Route!Scopes |-> None],
                entries |-> <<Route!Url(scope, None)>>, at |-> 1, own |-> None,
                mirrored |-> Route!NoScope, validated |-> scope]
    BY Zenon DEF Route!Init
  <2>2. PICK p \in Projects : scope = Route!ScopeOf(p, None)
    OBVIOUS
  <2>3. scope.project = p
    BY <2>2 DEF Route!ScopeOf
  <2>. QED BY <2>1, <2>2, <2>3, Zenon
<1>2. Route!ScopeOf(p, None) \in Route!Scopes /\ None \in AllWorktrees
  BY ScopesAreRecords DEF AllWorktrees
<1>3. <<Route!Url(Route!ScopeOf(p, None), None)>> \in Seq(Urls)
  BY <1>2 DEF Route!Url, Urls
<1>4. ui \in States /\ ui.at \in DOMAIN ui.entries /\ ui.own = None
  BY <1>1, <1>2, <1>3 DEF States
<1>5. Route!Here(ui) = Route!Url(Route!ScopeOf(p, None), None) /\ Route!Current(ui) = Route!ScopeOf(p, None)
  BY <1>1, <1>4, HasScope DEF Route!Here
<1>6. Named(ui)
  BY <1>5 DEF Named, Route!Url
<1>. QED BY RouteOK, <1>4, <1>6 DEF RouteInv, Sound, Route!Init

LEMMA RouteStep == ASSUME RouteInv, Route!Next PROVE RouteInv'
<1>. USE RouteOK
<1>1. ASSUME NEW p \in Projects, Route!ClickProject(p) PROVE RouteInv'
  <2>1. Sound(ui') /\ (ui' = ui \/ Exact(ui')) /\ known' = known
    BY <1>1, SetProjectIsSound DEF Route!ClickProject, Route!SelectProject, RouteInv
  <2>. QED BY <2>1, ExactIsNamed DEF RouteInv
<1>2. ASSUME NEW p \in Projects, Route!ProjectGoes(p) PROVE RouteInv'
  <2>1. ui' = ui /\ DOMAIN known' \subseteq DOMAIN known
    BY <1>2 DEF Route!ProjectGoes
  <2>. QED BY <2>1 DEF RouteInv
<1>3. ASSUME NEW p \in Projects, NEW w \in WorktreesOf[p] \cup {None}, Route!ClickWorktree(p, w) PROVE RouteInv'
  <2>1. w \in AllWorktrees
    BY DEF AllWorktrees
  <2>2. Sound(ui') /\ (ui' = ui \/ Exact(ui')) /\ known' = known
    BY <1>3, <2>1, SelectWorktreeIsSound DEF Route!ClickWorktree, RouteInv
  <2>. QED BY <2>2, ExactIsNamed DEF RouteInv
<1>4. ASSUME NEW p \in Projects, NEW w \in WorktreesOf[p] \cup {None}, Route!WorktreeGoes(p, w) PROVE RouteInv'
  <2>1. ui' = ui /\ DOMAIN known' = DOMAIN known
    BY <1>4 DEF Route!WorktreeGoes
  <2>. QED BY <2>1 DEF RouteInv
<1>5. ASSUME NEW k \in Route!Scopes, NEW c \in ChatsOf[k], Route!OpenChat(c) PROVE RouteInv'
  <2>1. c \in AllChats
    BY DEF AllChats
  <2>2. Sound(ui') /\ Exact(ui') /\ known' = known
    BY <1>5, <2>1, EnsureChatTabIsSound DEF Route!OpenChat, RouteInv
  <2>. QED BY <2>2, ExactIsNamed DEF RouteInv
<1>6. ASSUME NEW k \in Route!Scopes, NEW c \in ChatsOf[k], Route!CloseChat(c) PROVE RouteInv'
  <2>. DEFINE h == Route!Current(ui)
              rest == ui.open[h] \ {c}
  <2>1. ui \in States /\ h \in Route!Scopes
    BY HasScope DEF RouteInv, Sound
  <2>2. PICK next \in AllChats \cup {None} :
          ui' = Route!Mirror([ui EXCEPT !.open[h] = rest, !.active[h] = next])
    <3>1. PICK next \in (IF c # ui.active[h] THEN {ui.active[h]}
                         ELSE IF rest = {} THEN {None} ELSE rest) :
            ui' = Route!Mirror([ui EXCEPT !.open[h] = rest, !.active[h] = next])
      BY <1>6 DEF Route!CloseChat
    <3>2. ui.active[h] \in AllChats \cup {None} /\ rest \subseteq AllChats
      BY <2>1 DEF States
    <3>. QED BY <3>1, <3>2
  <2>. DEFINE t == [ui EXCEPT !.open[h] = rest, !.active[h] = next]
  <2>3. Sound(t)
    BY <2>1, <2>2 DEF RouteInv, Sound, States, Route!Here
  <2>. HIDE DEF t
  <2>4. Sound(ui') /\ Exact(ui') /\ known' = known
    BY <1>6, <2>2, <2>3, MirrorIsExact DEF Route!CloseChat, t
  <2>. QED BY <2>4, ExactIsNamed DEF RouteInv
<1>7. ASSUME NEW k \in Route!Scopes, NEW c \in ChatsOf[k], Route!GoToChat(k, c) PROVE RouteInv'
  <2>. DEFINE one == Route!SelectWorktree(ui, k.project, k.worktree)
              two == Route!EnsureChatTab(one, c)
              url == Route!Url(k, c)
  <2>1. c \in AllChats /\ k.project \in Projects /\ k.worktree \in AllWorktrees
        /\ k = Route!ScopeOf(k.project, k.worktree)
    BY ScopesAreRecords DEF AllChats
  <2>2. Sound(one) /\ Route!Current(one) = k
    BY <2>1, SelectWorktreeIsSound DEF RouteInv
  <2>3. ui' = Route!Replace(two, url) /\ known' = known
    BY <1>7 DEF Route!GoToChat
  <2>. HIDE DEF one
  <2>4. Sound(two) /\ Exact(two) /\ Route!Current(two) = k /\ Route!ActiveChat(two) = c
    BY <2>1, <2>2, EnsureChatTabIsSound
  <2>. HIDE DEF two
  <2>5. Route!Here(two) = url
    BY <2>4 DEF Exact, Route!BuildUrl
  <2>6. two.entries \in Seq(Urls) /\ two.at \in DOMAIN two.entries /\ two \in States
    BY <2>4 DEF Sound, States
  <2>7. [two.entries EXCEPT ![two.at] = url] = two.entries
    BY <2>5, <2>6 DEF Route!Here
  <2>8. Route!Replace(two, url) = two
    BY <2>6, <2>7 DEF Route!Replace, States
  <2>. QED BY <2>3, <2>4, <2>8, ExactIsNamed DEF RouteInv
<1>8. ASSUME NEW step \in {-1, 1}, Route!Pop(step) PROVE RouteInv'
  <2>1. Sound(ui') /\ Named(ui') /\ known' = known
    BY <1>8, ApplyUrlIsSound DEF Route!Pop
  <2>. QED BY <2>1 DEF RouteInv
<1>. QED BY <1>1, <1>2, <1>3, <1>4, <1>5, <1>6, <1>7, <1>8 DEF Route!Next

-----------------------------------------------------------------------------
(* Requests and answers in order.                                          *)

\* What LatestAnswer lets a step do, or nothing.
Moves(asked, held, asked2, held2) ==
  \/ asked2 \in Int /\ asked2 > asked /\ held2 = held
  \/ held2 \in Int /\ held2 > held /\ held2 <= asked2 /\ asked2 = asked
  \/ asked2 = asked /\ held2 = held

InOrder(asked, held) == asked \in Int /\ held \in Int /\ held <= asked

\* The clock is the budget of requests, spent.
Clock == "asks" \in DOMAIN left /\ left.asks \in Int

TimeGoesOn == "asks" \in DOMAIN left' /\ left'.asks \in Int /\ left'.asks <= left.asks

LEMMA Spending ==
  ASSUME Clock, NEW what, left' = [left EXCEPT ![what] = @ - 1]
  PROVE  TimeGoesOn /\ (what = "asks" => left'.asks = left.asks - 1)
BY DEF Clock, TimeGoesOn

LEMMA NothingSpent == ASSUME Clock, left' = left PROVE TimeGoesOn
BY DEF Clock, TimeGoesOn

-----------------------------------------------------------------------------
(* The dialogs.                                                            *)

DialogAsked == Dialog!OfResource(view.asked)
DialogShown == Dialog!OfResource(view.shown)

DialogFields == {"dialog", "asked", "shown"}

\* The newest request was made before now, and a resource shows no answer
\* that is newer than it.
DialogInv ==
  /\ Clock
  /\ DialogFields \subseteq DOMAIN view
  /\ view.asked \in Int /\ view.asked < -left.asks
  /\ view.dialog \in Dialog!Resources => view.shown \in Int /\ view.shown <= view.asked

\* A step asks nothing, takes an answer, or asks.
DialogStays ==
  /\ TimeGoesOn /\ DialogFields \subseteq DOMAIN view'
  /\ view'.dialog = view.dialog /\ view'.asked = view.asked /\ view'.shown = view.shown
DialogTakes ==
  /\ TimeGoesOn /\ DialogFields \subseteq DOMAIN view'
  /\ view'.dialog = view.dialog /\ view'.asked = view.asked
  /\ view.dialog \in Dialog!Resources => view'.shown = view.asked
DialogAsks ==
  /\ "asks" \in DOMAIN left' /\ left'.asks = left.asks - 1
  /\ DialogFields \subseteq DOMAIN view'
  /\ view'.dialog = view.dialog /\ view'.asked = -left.asks /\ view'.shown = view.shown

\* A list is asked for with what the dialog asks from then on.
LEMMA DialogLists ==
  ASSUME DialogInv, NEW v, NEW after, DialogFields \subseteq DOMAIN v,
         v.dialog = view.dialog, v.shown = view.shown, Dialog!Lists(v, after)
  PROVE  DialogAsks
<1>1. left' = [left EXCEPT !["asks"] = @ - 1]
  BY DEF Dialog!Lists, Dialog!Asks, Dialog!Spend
<1>2. view' = [v EXCEPT !.loading = TRUE, !.asked = -left.asks, !.err = FALSE]
  BY DEF Dialog!Lists, Dialog!Now
<1>3. TimeGoesOn /\ left'.asks = left.asks - 1
  BY <1>1, Spending DEF DialogInv
<1> QED BY <1>2, <1>3 DEF DialogAsks, DialogFields, TimeGoesOn

LEMMA DialogKinds ==
  ASSUME DialogInv, Dialog!Next
  PROVE  DialogStays \/ DialogTakes \/ DialogAsks
<1> USE DEF DialogFields
<1>1. DialogFields \subseteq DOMAIN view
  BY DEF DialogInv
<1>2. left' = left => TimeGoesOn
  BY NothingSpent DEF DialogInv
<1>3. \A what : Dialog!Spend(what) => TimeGoesOn /\ (what = "asks" => left'.asks = left.asks - 1)
  BY Spending DEF DialogInv, Dialog!Spend
<1>4. CASE Dialog!Refetch
  BY <1>1, <1>4, DialogLists DEF Dialog!Refetch
<1>5. CASE Dialog!Type
  BY <1>1, <1>2, <1>5 DEF Dialog!Type, DialogStays
<1>6. CASE Dialog!SearchTimer
  <2> DEFINE v == [view EXCEPT !.timer = FALSE]
  <2>1. Dialog!Lists(v, None)
    BY <1>6 DEF Dialog!SearchTimer
  <2>2. DialogFields \subseteq DOMAIN v /\ v.dialog = view.dialog /\ v.shown = view.shown
    BY <1>1
  <2> HIDE DEF v
  <2> QED BY <2>1, <2>2, DialogLists
<1>7. ASSUME NEW row, Dialog!Acts(view, row) PROVE DialogStays
  <2>1. TimeGoesOn
    BY <1>3, <1>7 DEF Dialog!Acts, Dialog!Asks
  <2> QED BY <1>1, <1>7, <2>1 DEF Dialog!Acts, DialogStays
<1>8. ASSUME NEW row, Dialog!Press(row) PROVE DialogStays
  BY <1>1, <1>2, <1>7, <1>8 DEF Dialog!Press, DialogStays
<1>9. CASE Dialog!Confirm
  BY <1>7, <1>9 DEF Dialog!Confirm
<1>10. CASE Dialog!Decline \/ Dialog!Close
  BY <1>1, <1>2, <1>10 DEF Dialog!Decline, Dialog!Close, DialogStays
<1>11. ASSUME NEW r \in calls, Dialog!ListDone(r) PROVE DialogStays \/ DialogTakes
  <2> DEFINE w == IF view.dialog \in Dialog!Histories THEN Dialog!HistoryTaken(view, r)
                                                      ELSE Dialog!ResourceTaken(view, r)
  <2>1. view' = Dialog!Unmarked(w, r) /\ left' = left
    BY <1>11 DEF Dialog!ListDone
  <2>2. /\ DialogFields \subseteq DOMAIN w /\ w.dialog = view.dialog /\ w.asked = view.asked
        /\ w.shown = view.shown \/ (view.dialog \in Dialog!Resources => w.shown = view.asked)
    BY <1>1 DEF Dialog!HistoryTaken, Dialog!ResourceTaken, Dialog!Resources, Dialog!Histories
  <2> HIDE DEF w
  <2>3. /\ DialogFields \subseteq DOMAIN view'
        /\ view'.dialog = w.dialog /\ view'.asked = w.asked /\ view'.shown = w.shown
    BY <2>1, <2>2 DEF Dialog!Unmarked
  <2> QED BY <1>2, <2>1, <2>2, <2>3 DEF DialogStays, DialogTakes
<1>12. ASSUME NEW r \in calls,
              Dialog!ActFailed(r) \/ Dialog!FocusDone(r) \/ Dialog!Switched(r)
       PROVE  DialogStays
  BY <1>1, <1>2, <1>12 DEF Dialog!ActFailed, Dialog!FocusDone, Dialog!Switched, DialogStays
<1>13. ASSUME NEW r \in calls, Dialog!ActThenList(r) PROVE DialogAsks
  <2>1. TimeGoesOn /\ left'.asks = left.asks - 1
    BY <1>3, <1>13 DEF Dialog!ActThenList, Dialog!TakesAsking, Dialog!TakesAskingEach
  <2> QED BY <1>1, <1>13, <2>1 DEF Dialog!ActThenList, DialogAsks, TimeGoesOn, Dialog!Now
<1>14. ASSUME NEW r \in calls, Dialog!WorkThenFocus(r) PROVE DialogStays
  <2>1. TimeGoesOn
    BY <1>3, <1>14 DEF Dialog!WorkThenFocus, Dialog!TakesAsking, Dialog!TakesAskingEach
  <2> QED BY <1>1, <1>14, <2>1 DEF Dialog!WorkThenFocus, DialogStays
<1>15. ASSUME NEW r \in calls, Dialog!ServeList(r) \/ Dialog!ServeAct(r) \/ Dialog!ServeFocus(r)
       PROVE  DialogStays
  BY <1>1, <1>2, <1>15 DEF Dialog!ServeList, Dialog!ServeAct, Dialog!ServeFocus, DialogStays
<1>16. ASSUME NEW r \in calls, Dialog!Fails(r) PROVE DialogStays
  BY <1>1, <1>3, <1>16 DEF Dialog!Fails, DialogStays
<1> QED
  BY <1>4, <1>5, <1>6, <1>8, <1>9, <1>10, <1>11, <1>12, <1>13, <1>14, <1>15, <1>16
  DEF Dialog!Next

LEMMA DialogInit ==
  ASSUME Dialog!Init
  PROVE  DialogInv /\ InOrder(DialogAsked, DialogShown)
<1>1. PICK dialog \in Dialog!Resources \cup Dialog!Histories \cup {"switch"}, b \in Budgets.dialog :
        /\ left = [b EXCEPT !.asks = @ - 1]
        /\ view = [dialog |-> dialog, open |-> TRUE, rows |-> {}, loading |-> TRUE,
                   asked |-> -b.asks, shown |-> -b.asks - 1, err |-> FALSE,
                   typed |-> FALSE, timer |-> dialog \in Dialog!Histories,
                   confirming |-> None, busy |-> None, known |-> {}]
  BY Zenon DEF Dialog!Init
<1>2. b.asks \in Int /\ "asks" \in DOMAIN b
  BY BudgetsOK
<1>3. DialogInv
  BY <1>1, <1>2 DEF DialogInv, DialogFields, Clock
<1>4. InOrder(DialogAsked, DialogShown)
  BY <1>1, <1>2 DEF InOrder, DialogAsked, DialogShown, Dialog!OfResource
<1> QED BY <1>3, <1>4

LEMMA DialogStep ==
  ASSUME DialogInv, Dialog!Next
  PROVE  DialogInv' /\ Moves(DialogAsked, DialogShown, DialogAsked', DialogShown')
<1> USE DEF DialogInv, Clock, TimeGoesOn, Moves, DialogAsked, DialogShown, Dialog!OfResource
<1>1. CASE DialogStays
  BY <1>1 DEF DialogStays
<1>2. CASE DialogTakes
  BY <1>2 DEF DialogTakes
<1>3. CASE DialogAsks
  BY <1>3 DEF DialogAsks
<1> QED BY <1>1, <1>2, <1>3, DialogKinds

-----------------------------------------------------------------------------
(* The tree of files.                                                      *)

TreeAsked == view.nodes[Top].asked
TreeShown == view.nodes[Top].shown

HasTop(v) ==
  "nodes" \in DOMAIN v /\ Top \in DOMAIN v.nodes /\ {"asked", "shown"} \subseteq DOMAIN v.nodes[Top]

\* The top stays on the screen; its newest request was made before now, and
\* it shows no answer that is newer.
TreeInv ==
  /\ Clock /\ HasTop(view)
  /\ InOrder(TreeAsked, TreeShown) /\ TreeAsked < -left.asks

\* A step leaves the top alone, takes its answer, or asks for it again.
TopStays == TimeGoesOn /\ HasTop(view') /\ view'.nodes[Top] = view.nodes[Top]
TopTakes ==
  /\ TimeGoesOn /\ HasTop(view')
  /\ view'.nodes[Top].asked = TreeAsked /\ view'.nodes[Top].shown = TreeAsked
TopAsks ==
  /\ "asks" \in DOMAIN left' /\ left'.asks = left.asks - 1 /\ HasTop(view')
  /\ view'.nodes[Top].asked = -left.asks /\ view'.nodes[Top].shown = TreeShown

LEMMA TreeReloads ==
  ASSUME HasTop(view)
  PROVE  /\ HasTop(Tree!Reloading(view))
         /\ Tree!Reloading(view).nodes[Top].asked = -left.asks
         /\ Tree!Reloading(view).nodes[Top].shown = TreeShown
BY DEF Tree!Reloading, Tree!Open, Tree!Now, HasTop, TreeShown

LEMMA TreeKinds ==
  ASSUME TreeInv, Tree!Next
  PROVE  TopStays \/ TopTakes \/ TopAsks
<1>1. HasTop(view)
  BY DEF TreeInv
<1>2. left' = left => TimeGoesOn
  BY NothingSpent DEF TreeInv
<1>3. \A what : Tree!Spend(what) => TimeGoesOn /\ (what = "asks" => left'.asks = left.asks - 1)
  BY Spending DEF TreeInv, Tree!Spend
<1>4. ASSUME TimeGoesOn, "nodes" \in DOMAIN view', view'.nodes = view.nodes PROVE TopStays
  BY <1>1, <1>4 DEF TopStays, HasTop
<1>5. CASE Tree!RefreshTree
  <2>1. TimeGoesOn /\ left'.asks = left.asks - 1 /\ view' = Tree!Reloading(view)
    BY <1>3, <1>5 DEF Tree!RefreshTree, Tree!AsksEach
  <2> QED BY <1>1, <2>1, TreeReloads DEF TopAsks, TimeGoesOn
<1>6. CASE Tree!CloseMenu \/ Tree!AskDelete \/ Tree!Keep
  <2>1. TimeGoesOn
    BY <1>2, <1>6 DEF Tree!CloseMenu, Tree!AskDelete, Tree!Keep
  <2> QED BY <1>1, <1>4, <1>6, <2>1 DEF Tree!CloseMenu, Tree!AskDelete, Tree!Keep, HasTop
<1>7. CASE Tree!Delete
  <2>1. TimeGoesOn
    BY <1>3, <1>7 DEF Tree!Delete, Tree!Asks
  <2> QED BY <1>1, <1>4, <1>7, <2>1 DEF Tree!Delete, HasTop
<1>8. ASSUME NEW f, Tree!OpenFolder(f) PROVE TopStays
  <2>1. TimeGoesOn
    BY <1>3, <1>8 DEF Tree!OpenFolder, Tree!Asks
  <2>2. f # Top /\ Top \in Tree!Open(view)
    BY <1>1, <1>8 DEF Tree!OpenFolder, Tree!Open, HasTop
  <2>3. HasTop(view') /\ view'.nodes[Top] = view.nodes[Top]
    BY <1>1, <1>8, <2>2 DEF Tree!OpenFolder, HasTop
  <2> QED BY <2>1, <2>3 DEF TopStays
<1>9. ASSUME NEW f, Tree!ShutFolder(f) PROVE TopStays
  <2>1. TimeGoesOn
    BY <1>2, <1>9 DEF Tree!ShutFolder
  <2>2. f # Top /\ Top \in Tree!Open(view)
    BY <1>1, <1>9 DEF Tree!ShutFolder, Tree!Open, HasTop
  <2>3. "nodes" \in DOMAIN view' /\ view'.nodes = [x \in Tree!Open(view) \ {f} |-> view.nodes[x]]
    BY <1>1, <1>9 DEF Tree!ShutFolder, Tree!Restrict, HasTop
  <2> QED BY <1>1, <2>1, <2>2, <2>3 DEF TopStays, HasTop
<1>10. ASSUME NEW f, Tree!FolderMenu(f) \/ Tree!FileMenu(f) \/ Tree!SelectFile(f) PROVE TopStays
  <2>1. TimeGoesOn
    BY <1>3, <1>10 DEF Tree!FolderMenu, Tree!FileMenu, Tree!MenuOf, Tree!SelectFile
  <2> QED
    BY <1>1, <1>4, <1>10, <2>1
    DEF Tree!FolderMenu, Tree!FileMenu, Tree!MenuOf, Tree!SelectFile, HasTop
<1>11. ASSUME NEW r \in calls, Tree!TreeDone(r) PROVE TopStays \/ TopTakes
  <2>1. TimeGoesOn /\ view' = Tree!Taken(view, r)
    BY <1>2, <1>11 DEF Tree!TreeDone
  <2>2. CASE view' = view
    BY <1>1, <2>1, <2>2 DEF TopStays
  <2>3. CASE r.arg = Top /\ r.n = TreeAsked
    <3>1. /\ HasTop(view') /\ view'.nodes[Top].asked = TreeAsked
          /\ view'.nodes[Top].shown = r.n
      BY <1>1, <2>1, <2>3 DEF Tree!Taken, Tree!Open, HasTop, TreeAsked
    <3> QED BY <2>1, <2>3, <3>1 DEF TopTakes
  <2>4. CASE r.arg # Top
    <3>1. HasTop(view') /\ view'.nodes[Top] = view.nodes[Top]
      BY <1>1, <2>1, <2>4 DEF Tree!Taken, Tree!Open, HasTop
    <3> QED BY <2>1, <3>1 DEF TopStays
  <2> QED BY <1>1, <2>1, <2>2, <2>3, <2>4 DEF Tree!Taken, Tree!Open, HasTop, TreeAsked
<1>12. ASSUME NEW r \in calls, Tree!Deleted(r) PROVE TopAsks
  <2>1. TimeGoesOn /\ left'.asks = left.asks - 1
    BY <1>3, <1>12 DEF Tree!Deleted, Tree!TakesAskingEach
  <2> DEFINE v == Tree!Reloading(view)
  <2>2. view' = [v EXCEPT !.deleting = @ \ {r.arg}]
    BY <1>12 DEF Tree!Deleted
  <2>3. HasTop(v) /\ v.nodes[Top].asked = -left.asks /\ v.nodes[Top].shown = TreeShown
    BY <1>1, TreeReloads
  <2> HIDE DEF v
  <2> QED BY <2>1, <2>2, <2>3 DEF TopAsks, TimeGoesOn, HasTop
<1>13. ASSUME NEW r \in calls, Tree!DeleteFailed(r) PROVE TopStays
  <2>1. TimeGoesOn
    BY <1>2, <1>13 DEF Tree!DeleteFailed
  <2> QED BY <1>1, <1>4, <1>13, <2>1 DEF Tree!DeleteFailed, HasTop
<1>14. ASSUME NEW r \in calls, Tree!ServeTree(r) \/ Tree!ServeDelete(r) PROVE TopStays
  <2>1. TimeGoesOn /\ view' = view
    BY <1>2, <1>14 DEF Tree!ServeTree, Tree!ServeDelete
  <2> QED BY <1>1, <1>4, <2>1 DEF HasTop
<1>15. ASSUME NEW r \in calls, Tree!Fails(r) PROVE TopStays
  <2>1. TimeGoesOn /\ view' = view
    BY <1>3, <1>15 DEF Tree!Fails
  <2> QED BY <1>1, <1>4, <2>1 DEF HasTop
<1> QED
  BY <1>5, <1>6, <1>7, <1>8, <1>9, <1>10, <1>11, <1>12, <1>13, <1>14, <1>15 DEF Tree!Next

LEMMA TreeInit ==
  ASSUME Tree!Init
  PROVE  TreeInv
<1>1. PICK deletes \in BOOLEAN, b \in Budgets.tree :
        /\ left = [b EXCEPT !.asks = @ - 1]
        /\ view = [deletes |-> deletes, nodes |-> [f \in {Top} |-> Tree!NodeOf(-b.asks)],
                   menu |-> None, confirming |-> None, deleting |-> {}, selected |-> None]
  BY Zenon DEF Tree!Init
<1>2. b.asks \in Int /\ "asks" \in DOMAIN b
  BY BudgetsOK
<1> QED
  BY <1>1, <1>2 DEF TreeInv, Tree!NodeOf, HasTop, InOrder, TreeAsked, TreeShown, Clock

LEMMA TreeStep ==
  ASSUME TreeInv, Tree!Next
  PROVE  TreeInv' /\ Moves(TreeAsked, TreeShown, TreeAsked', TreeShown')
<1>1. HasTop(view') <=> HasTop(view)'
  BY DEF HasTop
<1> USE DEF TreeInv, Clock, TimeGoesOn, Moves, InOrder, TreeAsked, TreeShown
<1>2. CASE TopStays
  BY <1>1, <1>2 DEF TopStays
<1>3. CASE TopTakes
  BY <1>1, <1>3 DEF TopTakes
<1>4. CASE TopAsks
  BY <1>1, <1>4 DEF TopAsks
<1> QED BY <1>2, <1>3, <1>4, TreeKinds

-----------------------------------------------------------------------------
(* The database.                                                           *)

\* What the invariant reads of the store, and what decides where requests go.
DbFields == {"token", "taken", "loading", "formBusy", "active", "conns", "form", "selected"}

Fields == {"n", "kind", "arg", "reply"}

FormKinds == {"test", "get", "put", "databases", "tables"}
PaneKinds == {"tables", "data", "sql"}

\* A request carries what asked for it; the form asks only for what it waits
\* for, and a prefetch of columns is not newer than the newest.
DbRequest(q, token) ==
  /\ Fields \subseteq DOMAIN q /\ {"at", "chain"} \subseteq DOMAIN q.arg
  /\ {"form", "then"} \subseteq DOMAIN q.arg.chain
  /\ q.arg.chain.form => q.kind \in FormKinds
  /\ q.kind = "columns" => q.arg.chain.then \in Int /\ q.arg.chain.then <= token

DbInv ==
  /\ \A r \in calls : DbRequest(r, view.token)
  /\ DbFields \subseteq DOMAIN view
  /\ InOrder(view.token, view.taken)
  /\ Db!BusyHasAReason

DbMoves == Moves(view.token, view.taken, view'.token, view'.taken)

\* What is shown and asked stays as it is, and so do the marks.
Alike(v, w) ==
  /\ DbFields \subseteq DOMAIN w /\ w.token = v.token /\ w.taken = v.taken
  /\ w.loading = v.loading /\ w.formBusy = v.formBusy

LEMMA DbConnected ==
  ASSUME NEW v, NEW conn, DbFields \subseteq DOMAIN v
  PROVE  Alike(v, Db!Connected(v, conn))
BY DEF Db!Connected, Db!Unconnected, Alike, DbFields

\* A request made now.
LEMMA DbAskedAlone ==
  ASSUME NEW kind, NEW at, NEW token, kind # "columns"
  PROVE  LET q == Db!Ask(kind, at, Db!Alone) IN DbRequest(q, token) /\ q.kind = kind
BY DEF Db!Ask, Db!Alone, Db!Chain, Db!Request, Fields, DbRequest

\* The requests there were are still no newer than the newest.
LEMMA DbRequestsKept ==
  ASSUME DbInv, NEW token \in Int, view.token <= token
  PROVE  \A r \in calls : DbRequest(r, token)
BY DEF DbInv, DbRequest, InOrder

\* A step that makes sound requests, and after which what waits still waits
\* for something, moves the prefetch on or leaves it.
LEMMA DbGoesOn ==
  ASSUME DbInv, DbFields \subseteq DOMAIN view', InOrder(view'.token, view'.taken),
         view.token <= view'.token, DbMoves,
         \A q \in calls' : q \in calls \/ DbRequest(q, view'.token),
         view'.formBusy => \E r \in calls' : r.arg.chain.form,
         view'.loading => \E r \in calls' : r.kind \in PaneKinds
  PROVE  DbInv' /\ DbMoves
<1>1. \A r \in calls' : DbRequest(r, view'.token)
  BY DbRequestsKept DEF InOrder
<1>2. DbMoves
  OBVIOUS
<1>3. DbInv'
  BY <1>1 DEF DbInv, Db!BusyHasAReason, PaneKinds, DbRequest, InOrder
<1> QED BY <1>2, <1>3

\* One that leaves the order alone; the requests it takes are none that
\* anything still waits for.
LEMMA DbQuiet ==
  ASSUME DbInv, DbFields \subseteq DOMAIN view',
         view'.token = view.token, view'.taken = view.taken,
         \A q \in calls' : q \in calls \/ DbRequest(q, view.token),
         view'.formBusy => view.formBusy \/ \E r \in calls' : r.arg.chain.form,
         view'.loading => view.loading \/ \E r \in calls' : r.kind \in PaneKinds,
         view'.formBusy => \A q \in calls : q \in calls' \/ ~q.arg.chain.form
                                             \/ \E r \in calls' : r.arg.chain.form,
         view'.loading => \A q \in calls : q \in calls' \/ q.kind \notin PaneKinds
                                            \/ \E r \in calls' : r.kind \in PaneKinds
  PROVE  DbInv' /\ DbMoves
<1>1. InOrder(view'.token, view'.taken) /\ view.token <= view'.token /\ DbMoves
  BY DEF DbInv, InOrder, DbMoves, Moves
<1>2. view'.formBusy => \E r \in calls' : r.arg.chain.form
  BY DEF DbInv, Db!BusyHasAReason
<1>3. view'.loading => \E r \in calls' : r.kind \in PaneKinds
  BY DEF DbInv, Db!BusyHasAReason, PaneKinds
<1> QED BY <1>1, <1>2, <1>3, DbGoesOn

\* The same for a step that takes nothing.
LEMMA DbAdds ==
  ASSUME DbInv, DbFields \subseteq DOMAIN view', calls \subseteq calls',
         view'.token = view.token, view'.taken = view.taken,
         \A q \in calls' : q \in calls \/ DbRequest(q, view.token),
         view'.formBusy => view.formBusy \/ \E r \in calls' : r.arg.chain.form,
         view'.loading => view.loading \/ \E r \in calls' : r.kind \in PaneKinds
  PROVE  DbInv' /\ DbMoves
BY DbQuiet

LEMMA DbReplied ==
  ASSUME DbInv, view' = view, NEW r, NEW reply, Db!Answers(r, reply)
  PROVE  DbInv' /\ DbMoves
<1> DEFINE q == [r EXCEPT !.reply = reply]
<1>1. r \in calls /\ calls' = (calls \ {r}) \cup {q}
  BY DEF Db!Answers
<1>2. DbRequest(q, view.token) /\ q.kind = r.kind /\ q.arg = r.arg
  BY <1>1 DEF DbInv, DbRequest, Fields
<1> HIDE DEF q
<1>3. DbFields \subseteq DOMAIN view
  BY DEF DbInv
<1> QED BY <1>1, <1>2, <1>3, DbQuiet

LEMMA DbInit ==
  ASSUME Db!Init
  PROVE  DbInv
<1>1. calls = {} /\ (view = Db!UpTo(SavedConns[1]) \/ \E conns : view = Db!Closed(conns))
  BY DEF Db!Init
<1>2. ASSUME NEW conns
      PROVE  /\ DbFields \subseteq DOMAIN Db!Closed(conns)
             /\ Db!Closed(conns).token = 0 /\ Db!Closed(conns).taken = 0
             /\ ~Db!Closed(conns).loading /\ ~Db!Closed(conns).formBusy
  BY DEF Db!Closed, DbFields
<1>3. /\ DbFields \subseteq DOMAIN Db!UpTo(SavedConns[1])
      /\ Db!UpTo(SavedConns[1]).token = 1 /\ Db!UpTo(SavedConns[1]).taken = 1
      /\ ~Db!UpTo(SavedConns[1]).loading /\ ~Db!UpTo(SavedConns[1]).formBusy
  BY DEF Db!UpTo, Db!Closed, DbFields
<1> QED BY <1>1, <1>2, <1>3 DEF DbInv, InOrder, Db!BusyHasAReason

\* A step that takes r and asks `reqs` instead.
LEMMA DbTakes ==
  ASSUME DbInv, NEW r \in calls, NEW reqs, calls' = (calls \ {r}) \cup reqs,
         \A q \in reqs : DbRequest(q, view.token),
         DbFields \subseteq DOMAIN view',
         view'.token = view.token, view'.taken = view.taken,
         view'.formBusy => \/ view.formBusy /\ ~r.arg.chain.form
                           \/ \E q \in reqs : q.arg.chain.form,
         view'.loading => \/ view.loading /\ r.kind \notin PaneKinds
                          \/ \E q \in reqs : q.kind \in PaneKinds
  PROVE  DbInv' /\ DbMoves
<1>1. \A q \in calls' : q \in calls \/ DbRequest(q, view.token)
  OBVIOUS
<1>2. reqs \subseteq calls' /\ \A q \in calls : q \in calls' \/ q = r
  OBVIOUS
<1> QED BY <1>1, <1>2, DbQuiet

LEMMA DbTakesAlone ==
  ASSUME DbInv, NEW r \in calls, calls' = calls \ {r}, DbFields \subseteq DOMAIN view',
         view'.token = view.token, view'.taken = view.taken,
         view'.formBusy => view.formBusy /\ ~r.arg.chain.form,
         view'.loading => view.loading /\ r.kind \notin PaneKinds
  PROVE  DbInv' /\ DbMoves
<1> DEFINE reqs == {}
<1>1. calls' = (calls \ {r}) \cup reqs /\ \A q \in reqs : DbRequest(q, view.token)
  OBVIOUS
<1> HIDE DEF reqs
<1> QED BY <1>1, DbTakes

\* What a continuation that takes r and asks does to the requests.
LEMMA DbTaken ==
  ASSUME NEW r, NEW kind, NEW reqs, Db!TakesMaking(r, kind, reqs)
  PROVE  r.kind = kind /\ r \in calls /\ calls' = (calls \ {r}) \cup reqs
BY DEF Db!TakesMaking

\* It may do as it likes when nothing is busy for r.
LEMMA DbTakesFreely ==
  ASSUME DbInv, NEW r, NEW kind, NEW reqs, Db!TakesMaking(r, kind, reqs),
         \A q \in reqs : DbRequest(q, view.token), Alike(view, view'),
         kind \notin PaneKinds, kind \notin FormKinds
  PROVE  DbInv' /\ DbMoves
<1>1. r \in calls /\ r.kind = kind /\ calls' = (calls \ {r}) \cup reqs
  BY DbTaken
<1>2. ~r.arg.chain.form
  BY <1>1 DEF DbInv, DbRequest
<1> QED BY <1>1, <1>2, DbTakes DEF Alike

\* The pane reads a table when it has one to read from.
LEMMA DbReads ==
  ASSUME DbInv, NEW v, NEW t, t # None, Db!activeConn(v), Alike(view, v), Db!Reads(v, t)
  PROVE  DbInv' /\ DbMoves
<1> DEFINE q == Db!Ask("data", Db!Here(v), Db!Chain(FALSE, t))
<1>1. calls' = calls \cup {q} /\ view' = [v EXCEPT !.loading = TRUE]
  <2>1. Db!DataOf(v, t) = {q}
    BY DEF Db!DataOf, Db!activeConn
  <2> QED BY <2>1 DEF Db!Reads, Db!Makes
<1>2. DbRequest(q, view.token) /\ q.kind = "data"
  BY DEF Db!Ask, Db!Chain, Db!Request, Fields, DbRequest
<1>3. /\ DbFields \subseteq DOMAIN view' /\ view'.token = view.token /\ view'.taken = view.taken
      /\ view'.formBusy = view.formBusy
  BY <1>1 DEF Alike, DbFields
<1> HIDE DEF q
<1> QED BY <1>1, <1>2, <1>3, DbAdds DEF PaneKinds

\* Another database shows that it waits for its tables.
LEMMA DbSelects ==
  ASSUME DbInv, NEW db, NEW at, NEW chain, view' = Db!Selected(view, db),
         Db!Makes({Db!Ask("tables", at, chain)}),
         {"form", "then"} \subseteq DOMAIN chain, ~chain.form
  PROVE  DbInv' /\ DbMoves
<1> DEFINE q == Db!Ask("tables", at, chain)
<1>1. calls' = calls \cup {q}
  BY DEF Db!Makes
<1>2. DbRequest(q, view.token) /\ q.kind = "tables"
  BY DEF DbRequest, Db!Ask, Db!Request, Fields
<1>3. /\ DbFields \subseteq DOMAIN view' /\ view'.token = view.token /\ view'.taken = view.taken
      /\ view'.formBusy = view.formBusy
  BY DEF DbInv, Db!Selected, DbFields
<1> HIDE DEF q
<1> QED BY <1>1, <1>2, <1>3, DbAdds DEF PaneKinds

LEMMA DbStep ==
  ASSUME DbInv, Db!Next
  PROVE  DbInv' /\ DbMoves
<1> DEFINE Goal == DbInv' /\ DbMoves
<1>1. DbFields \subseteq DOMAIN view /\ \A r \in calls : DbRequest(r, view.token)
  BY DEF DbInv
<1>2. ASSUME calls' = calls, Alike(view, view') PROVE Goal
  BY <1>2, DbAdds DEF Alike
<1>3. ASSUME Alike(view, view'), NEW q, calls' = calls \cup {q}, DbRequest(q, view.token) PROVE Goal
  BY <1>3, DbAdds DEF Alike
<1>4. Alike(view, view)
  BY <1>1 DEF Alike
<1>5. CASE Db!initDb
  <2> DEFINE q == Db!Ask("init", None, Db!Alone)
  <2>1. calls' = calls \cup {q} /\ Alike(view, view')
    BY <1>1, <1>5 DEF Db!initDb, Db!Makes, Alike, DbFields
  <2>2. DbRequest(q, view.token)
    BY DbAskedAlone
  <2> QED BY <1>3, <2>1, <2>2
<1>6. CASE Db!disconnectDb
  <2>1. Alike(view, view') /\ calls' = calls
    BY <1>1, <1>6 DEF Db!disconnectDb, Db!Unconnected, Alike, DbFields
  <2> QED BY <1>2, <2>1
<1>7. CASE Db!applyDbFilter \/ Db!nextDbPage \/ Db!prevDbPage
  <2>1. Db!Pager /\ \E x : Db!Reads([view EXCEPT !.offset = x], view.selected)
    BY <1>7 DEF Db!applyDbFilter, Db!nextDbPage, Db!prevDbPage
  <2>2. PICK x : Db!Reads([view EXCEPT !.offset = x], view.selected)
    BY <2>1
  <2> DEFINE v == [view EXCEPT !.offset = x]
  <2>3. Alike(view, v) /\ v.active = view.active /\ v.conns = view.conns
    BY <1>1 DEF Alike, DbFields
  <2> HIDE DEF v
  <2>4. Db!activeConn(v)
    BY <2>1, <2>3 DEF Db!Pager, Db!activeConn
  <2>5. Db!Reads(v, view.selected) /\ view.selected # None
    BY <2>1, <2>2 DEF v, Db!Pager
  <2> QED BY <2>3, <2>4, <2>5, DbReads
<1>8. CASE Db!runDbSql
  <2> DEFINE q == Db!Ask("sql", Db!Here(view), Db!Alone)
  <2>1. /\ calls' = calls \cup {q} /\ DbFields \subseteq DOMAIN view'
        /\ view'.token = view.token /\ view'.taken = view.taken /\ view'.formBusy = view.formBusy
    BY <1>1, <1>8 DEF Db!runDbSql, Db!Makes, DbFields
  <2>2. DbRequest(q, view.token) /\ q.kind = "sql"
    BY DbAskedAlone
  <2> HIDE DEF q
  <2> QED BY <2>1, <2>2, DbAdds DEF PaneKinds
<1>9. CASE Db!closeForm
  <2>1. Alike(view, view') /\ calls' = calls
    BY <1>1, <1>9 DEF Db!closeForm, Alike, DbFields
  <2> QED BY <1>2, <2>1
<1>10. ASSUME NEW q, calls' = calls \cup {q}, DbRequest(q, view.token), q.arg.chain.form,
              view' = [view EXCEPT !.formBusy = TRUE]
       PROVE  Goal
  <2>1. /\ DbFields \subseteq DOMAIN view' /\ view'.token = view.token
        /\ view'.taken = view.taken /\ view'.loading = view.loading
    BY <1>1, <1>10 DEF DbFields
  <2> QED BY <1>10, <2>1, DbAdds
<1>11. CASE Db!testForm
  <2> DEFINE q == Db!Ask("test", None, Db!Chain(TRUE, None))
  <2>1. calls' = calls \cup {q} /\ view' = [view EXCEPT !.formBusy = TRUE]
    BY <1>11 DEF Db!testForm, Db!Makes
  <2>2. DbRequest(q, view.token) /\ q.arg.chain.form
    BY DEF Db!Ask, Db!Chain, Db!Request, Fields, DbRequest, FormKinds
  <2> QED BY <1>10, <2>1, <2>2
<1>12. ASSUME NEW next, NEW kept, NEW form, form \in BOOLEAN, Db!saveDbConnections(next, kept, form)
       PROVE  \E q : calls' = calls \cup {q} /\ DbRequest(q, view.token) /\ q.arg.chain.form = form
  <2> DEFINE q == Db!Ask("get", next, Db!Chain(form, kept))
  <2>1. calls' = calls \cup {q}
    BY <1>12 DEF Db!saveDbConnections, Db!Makes
  <2>2. DbRequest(q, view.token) /\ q.arg.chain.form = form
    BY DEF Db!Ask, Db!Chain, Db!Request, Fields, DbRequest, FormKinds
  <2> QED BY <2>1, <2>2
<1>13. CASE Db!saveForm
  <2>1. \E next, kept : Db!saveDbConnections(next, kept, TRUE)
    BY <1>13 DEF Db!saveForm
  <2>2. view' = [view EXCEPT !.formBusy = TRUE]
    BY <1>13 DEF Db!saveForm
  <2>3. PICK q : calls' = calls \cup {q} /\ DbRequest(q, view.token) /\ q.arg.chain.form = TRUE
    BY <1>12, <2>1
  <2> QED BY <1>10, <2>2, <2>3
<1>14. CASE Db!removeConnection
  <2>1. Alike(view, view')
    BY <1>1, <1>14 DEF Db!removeConnection, Alike, DbFields
  <2>2. calls' = calls \/ \E next : Db!saveDbConnections(next, None, FALSE)
    BY <1>14 DEF Db!removeConnection
  <2>3. calls' = calls \/ \E q : calls' = calls \cup {q} /\ DbRequest(q, view.token)
    BY <1>12, <2>2
  <2> QED BY <1>2, <1>3, <2>1, <2>3
<1>15. CASE Db!saveSettings
  <2> DEFINE at == [view.settings EXCEPT !.theme = 1 - @]
             q == Db!Ask("save", at, Db!Alone)
  <2>1. calls' = calls \cup {q}
    BY <1>15 DEF Db!saveSettings, Db!Makes
  <2>2. Alike(view, view')
    BY <1>1, <1>15 DEF Db!saveSettings, Alike, DbFields
  <2> HIDE DEF at
  <2>3. DbRequest(q, view.token)
    BY DbAskedAlone
  <2> QED BY <1>3, <2>1, <2>2, <2>3
<1>16. ASSUME NEW c, Db!connectDb(c) PROVE Goal
  <2>1. Alike(view, view')
    BY <1>1, <1>16, DbConnected DEF Db!connectDb
  <2> DEFINE q == Db!Ask("databases", c, Db!Alone)
  <2>2. calls' = calls \/ calls' = calls \cup {q}
    BY <1>16 DEF Db!connectDb, Db!Makes, Db!Databases
  <2>3. DbRequest(q, view.token)
    BY DbAskedAlone
  <2> QED BY <1>2, <1>3, <2>1, <2>2, <2>3
<1>17. ASSUME NEW c, Db!openForm(c) \/ Db!AskRemove(c) PROVE Goal
  <2>1. Alike(view, view') /\ calls' = calls
    BY <1>1, <1>17 DEF Db!openForm, Db!AskRemove, Alike, DbFields
  <2> QED BY <1>2, <2>1
<1>18. ASSUME NEW db, Db!selectDb(db) PROVE Goal
  <2>1. CASE db = view.db
    <3>1. Alike(view, view') /\ calls' = calls
      BY <1>1, <1>18, <2>1 DEF Db!selectDb, Alike, DbFields
    <3> QED BY <1>2, <3>1
  <2>2. CASE db # view.db
    <3>1. view' = Db!Selected(view, db) /\ Db!Makes({Db!Ask("tables", Db!Here(view'), Db!Alone)})
      BY <1>18, <2>2 DEF Db!selectDb
    <3>2. {"form", "then"} \subseteq DOMAIN Db!Alone /\ ~Db!Alone.form
      BY DEF Db!Alone, Db!Chain
    <3> QED BY <3>1, <3>2, DbSelects
  <2> QED BY <2>1, <2>2
<1>19. ASSUME NEW db, Db!toggleDbExpanded(db) PROVE Goal
  <2> DEFINE q == Db!Ask("tree", Db!Place(view.active, db), Db!Alone)
  <2>1. Alike(view, view') /\ (calls' = calls \/ calls' = calls \cup {q})
    BY <1>1, <1>19 DEF Db!toggleDbExpanded, Db!Makes, Alike, DbFields
  <2>2. DbRequest(q, view.token)
    BY DbAskedAlone
  <2> QED BY <1>2, <1>3, <2>1, <2>2
<1>20. ASSUME NEW db, NEW t \in Tables, Db!openTable(db, t) PROVE Goal
  <2>1. CASE db = view.db
    <3> DEFINE v == [view EXCEPT !.offset = 0]
    <3>1. Db!Reads(v, t) /\ Db!activeConn(view)
      BY <1>20, <2>1 DEF Db!openTable, Db!InTree
    <3>2. Alike(view, v) /\ v.active = view.active /\ v.conns = view.conns
      BY <1>1 DEF Alike, DbFields
    <3> HIDE DEF v
    <3>3. Db!activeConn(v) /\ t # None
      BY <3>1, <3>2, TablesOK DEF Db!activeConn
    <3> QED BY <3>1, <3>2, <3>3, DbReads
  <2>2. CASE db # view.db
    <3>1. /\ view' = Db!Selected(view, db)
          /\ Db!Makes({Db!Ask("tables", Db!Here(view'), Db!Chain(FALSE, t))})
      BY <1>20, <2>2 DEF Db!openTable
    <3>2. {"form", "then"} \subseteq DOMAIN Db!Chain(FALSE, t) /\ ~Db!Chain(FALSE, t).form
      BY DEF Db!Chain
    <3> QED BY <3>1, <3>2, DbSelects
  <2> QED BY <2>1, <2>2
<1>21. ASSUME NEW r \in calls, Db!InitDone(r) PROVE Goal
  <2>1. r.kind \in {"init", "seed"}
    BY <1>21 DEF Db!InitDone
  <2>2. r.kind \notin PaneKinds /\ r.kind \notin FormKinds
    BY <2>1 DEF PaneKinds, FormKinds
  <2>3. CASE r.reply = Failed
    <3> DEFINE reqs == {}
    <3>1. Db!TakesMaking(r, r.kind, reqs) /\ Alike(view, view') /\ \A q \in reqs : DbRequest(q, view.token)
      BY <1>4, <1>21, <2>3 DEF Db!InitDone
    <3> HIDE DEF reqs
    <3> QED BY <2>2, <3>1, DbTakesFreely
  <2>4. CASE r.reply # Failed /\ r.reply.conns = <<>>
    <3> DEFINE q == Db!Ask("seed", [r.reply EXCEPT !.conns = <<NewIds[1]>>], Db!Alone)
    <3>1. Db!TakesMaking(r, "init", {q}) /\ Alike(view, view')
      BY <1>4, <1>21, <2>4 DEF Db!InitDone
    <3>2. DbRequest(q, view.token)
      BY DbAskedAlone
    <3> HIDE DEF q
    <3>3. "init" \notin PaneKinds /\ "init" \notin FormKinds /\ \A p \in {q} : DbRequest(p, view.token)
      BY <3>2 DEF PaneKinds, FormKinds
    <3> QED BY <3>1, <3>3, DbTakesFreely
  <2>5. CASE r.reply # Failed /\ r.reply.conns # <<>>
    <3> DEFINE all    == r.reply.conns
               target == IF server.remembered \in Db!ToSet(all) THEN server.remembered ELSE Head(all)
               v      == [view EXCEPT !.conns = all]
               q      == Db!Ask("databases", target, Db!Alone)
    <3>1. Db!TakesMaking(r, r.kind, {q}) /\ view' = Db!Connected(v, target)
      <4>1. Db!InitDone(r)
        BY <1>21
      <4> QED BY <2>5, <4>1 DEF Db!InitDone, Db!Databases
    <3>2. Alike(view, v)
      BY <1>1 DEF Alike, DbFields
    <3> HIDE DEF v, target
    <3>3. Alike(view, view')
      BY <3>1, <3>2, DbConnected DEF Alike
    <3>4. DbRequest(q, view.token)
      BY DbAskedAlone
    <3> HIDE DEF q
    <3>5. \A p \in {q} : DbRequest(p, view.token)
      BY <3>4
    <3> QED BY <2>2, <3>1, <3>3, <3>5, DbTakesFreely
  <2> QED BY <2>3, <2>4, <2>5
<1>22. ASSUME NEW r \in calls, Db!TreeDone(r) \/ Db!SaveDone(r) PROVE Goal
  <2> DEFINE reqs == {}
  <2>1. Alike(view, view')
    BY <1>1, <1>22 DEF Db!TreeDone, Db!SaveDone, Alike, DbFields
  <2>2. Db!TakesMaking(r, "tree", reqs) \/ Db!TakesMaking(r, "save", reqs)
    BY <1>22 DEF Db!TreeDone, Db!SaveDone
  <2>3. \A q \in reqs : DbRequest(q, view.token)
    OBVIOUS
  <2> HIDE DEF reqs
  <2>4. {"tree", "save"} \cap PaneKinds = {} /\ {"tree", "save"} \cap FormKinds = {}
    BY DEF PaneKinds, FormKinds
  <2> QED BY <2>1, <2>2, <2>3, <2>4, DbTakesFreely
<1>23. ASSUME NEW r \in calls, Db!ColumnsDone(r) PROVE Goal
  <2> DEFINE reqs == {}
  <2>1. Db!TakesMaking(r, "columns", reqs) /\ view' = Db!Prefetched(view, r)
        /\ \A q \in reqs : DbRequest(q, view.token)
    BY <1>23 DEF Db!ColumnsDone
  <2>2. calls' = calls \ {r} /\ r.kind = "columns"
    BY <2>1 DEF Db!TakesMaking
  <2> HIDE DEF reqs
  <2>3. CASE r.arg.chain.then # view.token
    <3>1. Alike(view, view') /\ "columns" \notin PaneKinds /\ "columns" \notin FormKinds
      BY <1>4, <2>1, <2>3 DEF Db!Prefetched, PaneKinds, FormKinds
    <3> QED BY <2>1, <3>1, DbTakesFreely
  <2>4. CASE r.arg.chain.then = view.token
    <3>1. /\ DbFields \subseteq DOMAIN view' /\ view'.token = view.token /\ view'.taken = view.token
          /\ view'.loading = view.loading /\ view'.formBusy = view.formBusy
      BY <1>1, <2>1, <2>4 DEF Db!Prefetched, DbFields
    <3>2. view.token \in Int /\ view.taken \in Int /\ view.taken <= view.token
      BY DEF DbInv, InOrder
    <3>3. InOrder(view'.token, view'.taken) /\ view.token <= view'.token /\ DbMoves
      BY <3>1, <3>2 DEF InOrder, DbMoves, Moves
    <3>4. ~r.arg.chain.form /\ r.kind \notin PaneKinds
      BY <1>1, <2>2 DEF DbRequest, FormKinds, PaneKinds
    <3>5. /\ view.formBusy => \E q \in calls : q.arg.chain.form
          /\ view.loading => \E q \in calls : q.kind \in PaneKinds
      BY DEF DbInv, Db!BusyHasAReason, PaneKinds
    <3>6. /\ view'.formBusy => \E q \in calls' : q.arg.chain.form
          /\ view'.loading => \E q \in calls' : q.kind \in PaneKinds
          /\ \A q \in calls' : q \in calls
      BY <2>2, <3>1, <3>4, <3>5
    <3> QED BY <3>1, <3>3, <3>6, DbGoesOn
  <2> QED BY <2>3, <2>4
<1>24. ASSUME NEW r \in calls, Db!DatabasesDone(r) PROVE Goal
  <2> DEFINE chain == r.arg.chain
             v == IF r.reply = Failed \/ ~Db!activeConn(view) THEN view
                  ELSE [view EXCEPT !.databases = r.arg.at, !.expanded = {view.db}]
             q == Db!Ask("tables", Db!Here(v), chain)
             reqs == IF Db!activeConn(v) THEN {q} ELSE {}
             w == [v EXCEPT !.loading = @ \/ reqs # {}]
  <2>1. Db!TakesMaking(r, "databases", reqs) /\ view' = Db!FormEnds(w, chain, reqs)
    BY <1>24 DEF Db!DatabasesDone
  <2>2. r.kind = "databases" /\ calls' = (calls \ {r}) \cup reqs
    BY <2>1, DbTaken
  <2>3. DbRequest(r, view.token)
    BY <1>1
  <2>4. DbRequest(q, view.token) /\ q.kind = "tables" /\ q.arg.chain = chain
    BY <2>3 DEF DbRequest, Db!Ask, Db!Request, Fields, FormKinds
  <2>5. Alike(view, v)
    BY <1>1 DEF Alike, DbFields
  <2> HIDE DEF v, q
  <2>6. \A p \in reqs : p = q
    OBVIOUS
  <2>7. /\ DbFields \subseteq DOMAIN w /\ w.token = view.token /\ w.taken = view.taken
        /\ w.formBusy = view.formBusy
    BY <2>5 DEF Alike, DbFields
  <2>8. w.loading => view.loading \/ reqs # {}
    <3>1. "loading" \in DOMAIN v /\ v.loading = view.loading
      BY <2>5 DEF Alike, DbFields
    <3>2. w.loading = (v.loading \/ reqs # {})
      BY <3>1, Zenon
    <3> QED BY <3>1, <3>2
  <2> HIDE DEF w, reqs
  <2>9. /\ DbFields \subseteq DOMAIN view' /\ view'.token = view.token /\ view'.taken = view.taken
        /\ view'.loading = w.loading
        /\ view'.formBusy = IF chain.form /\ reqs = {} THEN FALSE ELSE view.formBusy
    BY <2>1, <2>7 DEF Db!FormEnds, DbFields
  <2>10. \A p \in reqs : DbRequest(p, view.token)
    BY <2>4, <2>6
  <2>11. view'.formBusy => \/ view.formBusy /\ ~r.arg.chain.form
                           \/ \E p \in reqs : p.arg.chain.form
    BY <2>4, <2>6, <2>9
  <2>12. view'.loading => \/ view.loading /\ r.kind \notin PaneKinds
                          \/ \E p \in reqs : p.kind \in PaneKinds
    BY <2>2, <2>4, <2>6, <2>8, <2>9 DEF PaneKinds
  <2> QED BY <2>2, <2>9, <2>10, <2>11, <2>12, DbTakes
<1>25. ASSUME NEW r \in calls, Db!DataDone(r) \/ Db!SqlDone(r) PROVE Goal
  <2>1. /\ DbFields \subseteq DOMAIN view' /\ view'.token = view.token /\ view'.taken = view.taken
        /\ view'.formBusy = view.formBusy /\ view'.loading = FALSE
    BY <1>1, <1>25 DEF Db!DataDone, Db!SqlDone, DbFields
  <2>2. r.kind \in {"data", "sql"} /\ calls' = calls \ {r}
    BY <1>25 DEF Db!DataDone, Db!SqlDone, Db!TakesMaking
  <2>3. ~r.arg.chain.form
    BY <1>1, <2>2 DEF DbRequest, FormKinds
  <2> QED BY <2>1, <2>2, <2>3, DbTakesAlone
<1>26. ASSUME NEW r \in calls, Db!TestDone(r) PROVE Goal
  <2>1. /\ DbFields \subseteq DOMAIN view' /\ view'.token = view.token /\ view'.taken = view.taken
        /\ view'.formBusy = FALSE /\ view'.loading = view.loading
    BY <1>1, <1>26 DEF Db!TestDone, DbFields
  <2>2. r.kind = "test" /\ calls' = calls \ {r}
    BY <1>26 DEF Db!TestDone, Db!TakesMaking
  <2>3. r.kind \notin PaneKinds
    BY <2>2 DEF PaneKinds
  <2> QED BY <2>1, <2>2, <2>3, DbTakesAlone
<1>27. ASSUME NEW r \in calls, Db!TablesDone(r) PROVE Goal
  <2> DEFINE chain == r.arg.chain
             v == Db!loadDbTables(view, r)
             data == Db!DataOf(v, chain.then)
             q == Db!Ask("columns", r.arg.at, Db!Chain(FALSE, v.token))
             prefetch == IF r.reply = Failed THEN {} ELSE {q}
             w == [v EXCEPT !.loading = @ \/ data # {},
                            !.offset = IF data = {} THEN @ ELSE 0]
  <2>1. Db!TakesMaking(r, "tables", prefetch \cup data) /\ view' = Db!FormEnds(w, chain, {})
    BY <1>27 DEF Db!TablesDone
  <2>2. r.kind = "tables" /\ calls' = (calls \ {r}) \cup (prefetch \cup data)
    BY <2>1, DbTaken
  <2>3. /\ view.token \in Int /\ view.taken \in Int /\ view.taken <= view.token
    BY DEF DbInv, InOrder
  <2>4. /\ DbFields \subseteq DOMAIN v /\ v.taken = view.taken /\ v.formBusy = view.formBusy
        /\ v.loading = FALSE
        /\ v.token = IF r.reply = Failed THEN view.token ELSE view.token + 1
    BY <1>1 DEF Db!loadDbTables, DbFields
  <2> HIDE DEF v
  <2>5. \A p \in data : DbRequest(p, v.token) /\ p.kind = "data"
    BY DEF Db!DataOf, Db!Ask, Db!Chain, Db!Request, Fields, DbRequest
  <2>6. \A p \in prefetch : DbRequest(p, v.token)
    BY <2>3, <2>4 DEF Db!Ask, Db!Chain, Db!Request, Fields, DbRequest
  <2> HIDE DEF data, q, prefetch
  <2>7. /\ DbFields \subseteq DOMAIN w /\ w.token = v.token /\ w.taken = v.taken
        /\ w.formBusy = v.formBusy
    BY <2>4 DEF DbFields
  <2>8. w.loading => data # {}
    <3>1. "loading" \in DOMAIN v
      BY <2>4 DEF DbFields
    <3>2. w.loading = (v.loading \/ data # {})
      BY <3>1, Zenon
    <3> QED BY <2>4, <3>2
  <2> HIDE DEF w
  <2>9. /\ DbFields \subseteq DOMAIN view' /\ view'.token = v.token /\ view'.taken = v.taken
        /\ view'.loading = w.loading
        /\ view'.formBusy = IF chain.form THEN FALSE ELSE v.formBusy
    BY <2>1, <2>7 DEF Db!FormEnds, DbFields
  <2>10. InOrder(view'.token, view'.taken) /\ view.token <= view'.token /\ DbMoves
    BY <2>3, <2>4, <2>9 DEF InOrder, DbMoves, Moves
  <2>11. \A p \in calls' : p \in calls \/ DbRequest(p, view'.token)
    BY <2>2, <2>5, <2>6, <2>9
  <2>12. view'.formBusy => \E p \in calls' : p.arg.chain.form
    <3>1. view.formBusy => \E p \in calls : p.arg.chain.form
      BY DEF DbInv, Db!BusyHasAReason
    <3> QED BY <2>2, <2>4, <2>9, <3>1
  <2>13. view'.loading => \E p \in calls' : p.kind \in PaneKinds
    BY <2>2, <2>5, <2>8, <2>9 DEF PaneKinds
  <2> QED BY <2>9, <2>10, <2>11, <2>12, <2>13, DbGoesOn
<1>28. ASSUME NEW r \in calls, Db!GetDone(r) PROVE Goal
  <2> DEFINE chain == r.arg.chain
             q == Db!Ask("put", [r.reply EXCEPT !.conns = r.arg.at], chain)
             reqs == IF r.reply = Failed THEN {} ELSE {q}
  <2>1. Db!TakesMaking(r, "get", reqs) /\ view' = Db!FormEnds(view, chain, reqs)
    BY <1>28 DEF Db!GetDone
  <2>2. r.kind = "get" /\ calls' = (calls \ {r}) \cup reqs
    BY <2>1, DbTaken
  <2>3. DbRequest(r, view.token)
    BY <1>1
  <2>4. DbRequest(q, view.token) /\ q.arg.chain = chain
    BY <2>3 DEF DbRequest, Db!Ask, Db!Request, Fields, FormKinds
  <2> HIDE DEF q
  <2>5. \A p \in reqs : p = q
    OBVIOUS
  <2> HIDE DEF reqs
  <2>6. /\ DbFields \subseteq DOMAIN view' /\ view'.token = view.token /\ view'.taken = view.taken
        /\ view'.loading = view.loading
        /\ view'.formBusy = IF chain.form /\ reqs = {} THEN FALSE ELSE view.formBusy
    BY <1>1, <2>1 DEF Db!FormEnds, DbFields
  <2>7. \A p \in reqs : DbRequest(p, view.token)
    BY <2>4, <2>5
  <2>8. view'.formBusy => \/ view.formBusy /\ ~r.arg.chain.form
                          \/ \E p \in reqs : p.arg.chain.form
    BY <2>4, <2>5, <2>6
  <2>9. r.kind \notin PaneKinds
    BY <2>2 DEF PaneKinds
  <2> QED BY <2>2, <2>6, <2>7, <2>8, <2>9, DbTakes
<1>29. ASSUME NEW r \in calls, Db!PutDone(r) PROVE Goal
  <2> DEFINE chain == r.arg.chain
             first == IF r.reply = Failed THEN view
                      ELSE [view EXCEPT !.conns = r.arg.at.conns,
                                        !.form = IF chain.form THEN None ELSE @]
             connects == r.reply # Failed /\ chain.form /\ view.active \in {None, chain.then}
             v == IF connects THEN Db!Connected(first, chain.then) ELSE first
             q == Db!Ask("databases", chain.then, Db!Chain(TRUE, None))
             reqs == IF connects THEN {q} ELSE {}
  <2>1. Db!TakesMaking(r, "put", reqs) /\ view' = Db!FormEnds(v, chain, reqs)
    BY <1>29 DEF Db!PutDone, Db!Databases
  <2>2. r.kind = "put" /\ calls' = (calls \ {r}) \cup reqs
    BY <2>1, DbTaken
  <2>3. DbRequest(r, view.token)
    BY <1>1
  <2>4. DbRequest(q, view.token) /\ q.arg.chain.form
    BY DEF DbRequest, Db!Ask, Db!Chain, Db!Request, Fields, FormKinds
  <2>5. Alike(view, first)
    BY <1>1 DEF Alike, DbFields
  <2> HIDE DEF first, q
  <2>6. Alike(view, v)
    BY <2>5, DbConnected DEF Alike
  <2> HIDE DEF v
  <2>7. \A p \in reqs : p = q
    OBVIOUS
  <2> HIDE DEF connects, reqs
  <2>8. /\ DbFields \subseteq DOMAIN view' /\ view'.token = view.token /\ view'.taken = view.taken
        /\ view'.loading = view.loading
        /\ view'.formBusy = IF chain.form /\ reqs = {} THEN FALSE ELSE view.formBusy
    BY <2>1, <2>6 DEF Alike, Db!FormEnds, DbFields
  <2>9. \A p \in reqs : DbRequest(p, view.token)
    BY <2>4, <2>7
  <2>10. view'.formBusy => \/ view.formBusy /\ ~r.arg.chain.form
                           \/ \E p \in reqs : p.arg.chain.form
    BY <2>4, <2>7, <2>8
  <2>11. r.kind \notin PaneKinds
    BY <2>2 DEF PaneKinds
  <2> QED BY <2>2, <2>8, <2>9, <2>10, <2>11, DbTakes
<1>30. ASSUME NEW r \in calls, Db!ServeRead(r) \/ Db!ServeWrite(r) \/ Db!Fails(r) PROVE Goal
  <2>1. view' = view /\ \E reply : Db!Answers(r, reply)
    BY <1>30 DEF Db!ServeRead, Db!ServeWrite, Db!Fails
  <2> QED BY <2>1, DbReplied
<1> HIDE DEF Goal
<1> QED
  BY <1>5, <1>6, <1>7, <1>8, <1>9, <1>11, <1>13, <1>14, <1>15, <1>16, <1>17, <1>18, <1>19, <1>20,
     <1>21, <1>22, <1>23, <1>24, <1>25, <1>26, <1>27, <1>28, <1>29, <1>30 DEF Db!Next, Goal

-----------------------------------------------------------------------------
(* The list of changes.                                                    *)

ChangesInv ==
  /\ "loading" \in DOMAIN view
  /\ \A r \in calls : {"kind", "arg", "reply"} \subseteq DOMAIN r
  /\ Changes!LoadingHasAReason

Listing(r) == r.kind = "status" /\ ~Changes!Gone(r)

\* A step that takes no list that is being read, or that ends the reading.
LEMMA ChangesGoOn ==
  ASSUME ChangesInv, "loading" \in DOMAIN view',
         \A q \in calls' : q \in calls \/ {"kind", "arg", "reply"} \subseteq DOMAIN q,
         view'.loading => \/ view.loading /\ \A q \in calls : Listing(q) => q \in calls'
                          \/ \E q \in calls' : Listing(q)
  PROVE  ChangesInv'
<1>1. view'.loading => \E q \in calls' : Listing(q)
  BY DEF ChangesInv, Changes!LoadingHasAReason, Listing
<1> QED BY <1>1 DEF ChangesInv, Changes!LoadingHasAReason, Listing, Changes!Gone

LEMMA ChangesAsked ==
  ASSUME NEW scope
  PROVE  /\ Listing(Changes!Request("status", [scope |-> scope]))
         /\ \A kind, arg : {"kind", "arg", "reply"} \subseteq DOMAIN Changes!Request(kind, arg)
BY DEF Listing, Changes!Request, Changes!Gone

LEMMA ChangesReplied ==
  ASSUME ChangesInv, view' = view, NEW r, NEW reply, Changes!Answers(r, reply)
  PROVE  ChangesInv'
<1> DEFINE p == [r EXCEPT !.reply = reply]
<1>1. r \in calls /\ calls' = (calls \ {r}) \cup {p}
  BY DEF Changes!Answers
<1>2. {"kind", "arg", "reply"} \subseteq DOMAIN p /\ p.kind = r.kind /\ p.arg = r.arg
  BY <1>1 DEF ChangesInv
<1> HIDE DEF p
<1>3. Listing(r) => Listing(p)
  BY <1>2 DEF Listing, Changes!Gone
<1>4. "loading" \in DOMAIN view
  BY DEF ChangesInv
<1>5. view.loading => \E q \in calls : Listing(q)
  BY DEF ChangesInv, Changes!LoadingHasAReason, Listing
<1>6. view.loading => \E q \in calls' : Listing(q)
  BY <1>1, <1>3, <1>5
<1> QED BY <1>1, <1>2, <1>4, <1>6, ChangesGoOn

LEMMA ChangesInit == ASSUME Changes!Init PROVE ChangesInv
BY DEF Changes!Init, Changes!Fresh, ChangesInv, Changes!LoadingHasAReason

LEMMA ChangesStep ==
  ASSUME ChangesInv, Changes!Next
  PROVE  ChangesInv'
<1>1. "loading" \in DOMAIN view
  BY DEF ChangesInv
<1>2. ASSUME NEW scope, Changes!Open(scope) PROVE ChangesInv'
  <2> DEFINE args == {[scope |-> scope, by |-> who] : who \in {"mount", "effect"}}
             q == Changes!Request("status", [scope |-> scope, by |-> "mount"])
  <2>1. calls' = calls \cup {Changes!Request("status", arg) : arg \in args}
    BY <1>2 DEF Changes!Open, Changes!AsksEach
  <2>2. [scope |-> scope, by |-> "mount"] \in args
    OBVIOUS
  <2> HIDE DEF args
  <2>3. q \in calls' /\ \A p \in calls' : p \in calls \/ {"kind", "arg", "reply"} \subseteq DOMAIN p
    BY <2>1, <2>2, ChangesAsked
  <2>4. Listing(q)
    BY DEF Listing, Changes!Request, Changes!Gone
  <2> HIDE DEF q
  <2>5. "loading" \in DOMAIN view'
    BY <1>2 DEF Changes!Open, Changes!Fresh
  <2> QED BY <2>3, <2>4, <2>5, ChangesGoOn
<1>3. CASE Changes!Close
  <2>1. "loading" \in DOMAIN view' /\ view'.loading = FALSE
    BY <1>3 DEF Changes!Close, Changes!Fresh
  <2>2. \A p \in calls' : \E r \in calls : \E arg : p = [r EXCEPT !.arg = arg]
    BY <1>3 DEF Changes!Close
  <2>3. \A p \in calls' : {"kind", "arg", "reply"} \subseteq DOMAIN p
    BY <2>2 DEF ChangesInv
  <2> QED BY <2>1, <2>3, ChangesGoOn
<1>4. ASSUME "loading" \in DOMAIN view', view'.loading = view.loading, calls \subseteq calls',
             \A p \in calls' : p \in calls \/ {"kind", "arg", "reply"} \subseteq DOMAIN p
      PROVE  ChangesInv'
  BY <1>4, ChangesGoOn
<1>5. CASE Changes!Refresh
  <2> DEFINE q == Changes!Request("status", [scope |-> view.scope])
  <2>1. calls' = calls \cup {q} /\ "loading" \in DOMAIN view'
    BY <1>1, <1>5 DEF Changes!Refresh, Changes!Asks
  <2>2. Listing(q) /\ {"kind", "arg", "reply"} \subseteq DOMAIN q
    BY ChangesAsked
  <2> HIDE DEF q
  <2> QED BY <2>1, <2>2, ChangesGoOn
<1>6. ASSUME NEW p, \/ Changes!OpenDiff(p) \/ Changes!ToggleReviewed(p) \/ Changes!DiscardFile(p)
                    \/ Changes!AnswerConfirm(p)
      PROVE  ChangesInv'
  <2>1. "loading" \in DOMAIN view' /\ view'.loading = view.loading
    BY <1>1, <1>6 DEF Changes!OpenDiff, Changes!ToggleReviewed, Changes!DiscardFile, Changes!AnswerConfirm
  <2>2. calls' = calls \/ \E kind, arg : calls' = calls \cup {Changes!Request(kind, arg)}
    BY <1>6 DEF Changes!OpenDiff, Changes!ToggleReviewed, Changes!DiscardFile, Changes!AnswerConfirm,
                Changes!Asks
  <2>3. CASE calls' = calls
    BY <1>4, <2>1, <2>3
  <2>4. ASSUME NEW kind, NEW arg, calls' = calls \cup {Changes!Request(kind, arg)}
        PROVE  ChangesInv'
    <3> DEFINE q == Changes!Request(kind, arg)
    <3>1. calls' = calls \cup {q} /\ {"kind", "arg", "reply"} \subseteq DOMAIN q
      BY <2>4, ChangesAsked
    <3> HIDE DEF q
    <3> QED BY <1>4, <2>1, <3>1
  <2> QED BY <2>2, <2>3, <2>4
<1>7. ASSUME NEW scope, NEW p, Changes!Edit(scope, p) PROVE ChangesInv'
  BY <1>1, <1>4, <1>7 DEF Changes!Edit
<1>8. ASSUME NEW r \in calls, Changes!StatusDone(r) PROVE ChangesInv'
  <2>1. "loading" \in DOMAIN view' /\ view'.loading = FALSE /\ calls' = calls \ {r}
    BY <1>1, <1>8 DEF Changes!StatusDone, Changes!Takes
  <2> QED BY <2>1, ChangesGoOn
<1>9. ASSUME NEW r \in calls, ~Listing(r), calls' = calls \ {r}, "loading" \in DOMAIN view',
             view'.loading = view.loading
      PROVE  ChangesInv'
  BY <1>9, ChangesGoOn
<1>10. ASSUME NEW r \in calls,
              \/ Changes!DiffDone(r) \/ Changes!DiffFailed(r) \/ Changes!DiffDoneLate(r)
              \/ Changes!DiscardFailed(r) \/ Changes!Dropped(r)
       PROVE  ChangesInv'
  <2>1. ~Listing(r) /\ calls' = calls \ {r}
    BY <1>10 DEF Changes!DiffDone, Changes!DiffFailed, Changes!DiffDoneLate, Changes!DiscardFailed,
                 Changes!Dropped, Changes!Takes, Listing
  <2>2. "loading" \in DOMAIN view' /\ view'.loading = view.loading
    BY <1>1, <1>10 DEF Changes!DiffDone, Changes!DiffFailed, Changes!DiffDoneLate,
                       Changes!DiscardFailed, Changes!Dropped
  <2> QED BY <1>9, <2>1, <2>2
<1>11. ASSUME NEW r \in calls, Changes!DiscardDone(r) PROVE ChangesInv'
  <2> DEFINE arg == [scope |-> view.scope]
             q == Changes!Request("status", arg)
  <2>1. calls' = (calls \ {r}) \cup {Changes!Request("status", x) : x \in {arg}}
    BY <1>11 DEF Changes!DiscardDone, Changes!TakesAsking, Changes!TakesAskingEach
  <2>2. calls' = (calls \ {r}) \cup {q}
    BY <2>1
  <2>3. "loading" \in DOMAIN view'
    BY <1>1, <1>11 DEF Changes!DiscardDone
  <2>4. Listing(q) /\ {"kind", "arg", "reply"} \subseteq DOMAIN q
    BY ChangesAsked
  <2> HIDE DEF q
  <2> QED BY <2>2, <2>3, <2>4, ChangesGoOn
<1>12. ASSUME NEW r \in calls,
              Changes!ServeStatus(r) \/ Changes!ServeDiff(r) \/ Changes!ServeDiscard(r) \/ Changes!Fails(r)
       PROVE  ChangesInv'
  <2>1. view' = view /\ \E reply : Changes!Answers(r, reply)
    BY <1>12 DEF Changes!ServeStatus, Changes!ServeDiff, Changes!ServeDiscard, Changes!Fails
  <2> QED BY <2>1, ChangesReplied
<1> QED
  BY <1>2, <1>3, <1>5, <1>6, <1>7, <1>8, <1>10, <1>11, <1>12 DEF Changes!Next

-----------------------------------------------------------------------------
(* The scroll position of the timeline.                                    *)

ScrollFields == {"height", "top", "loaded", "seen", "mine", "following", "programmatic", "changing",
                 "settling", "wheel", "loop", "anchor", "loadingOlder", "dragged"}

Laid(v) ==
  /\ ScrollFields \subseteq DOMAIN v
  /\ v.height \in Int /\ v.top \in Int
  /\ v.mine # None => v.mine \in Int
  /\ v.following \in BOOLEAN
  /\ v.anchor # None => {"top", "height"} \subseteq DOMAIN v.anchor
                        /\ v.anchor.top \in Int /\ v.anchor.height \in Int

\* The browser never leaves the position behind the end.
Clamped(v) == Laid(v) /\ v.top <= Scroll!End(v)

\* Where the rule puts the view.
Ruled(v) ==
  v.top = IF v.mine = None \/ v.following THEN Scroll!End(v) ELSE Scroll!Least(v.mine, Scroll!End(v))

Kept(v) == v.anchor = None /\ ~v.dragged => Ruled(v)

ScrollInv ==
  /\ Clamped(view) /\ Kept(view)
  /\ \A r \in calls : "reply" \in DOMAIN r /\ r.reply \in {None, Failed, PageHeight}

\* What neither moves nor changes the content.
SamePlace(v, w) ==
  /\ ScrollFields \subseteq DOMAIN w
  /\ w.height = v.height /\ w.top = v.top /\ w.mine = v.mine /\ w.following = v.following
  /\ w.anchor = v.anchor /\ w.dragged = v.dragged

LEMMA SamePlaceKeeps ==
  ASSUME NEW v, NEW w, SamePlace(v, w)
  PROVE  /\ Laid(v) => Laid(w)
         /\ Clamped(v) => Clamped(w)
         /\ Kept(v) => Kept(w)
         /\ Ruled(v) => Ruled(w)
BY DEF SamePlace, Clamped, Laid, Kept, Ruled, Scroll!End

LEMMA EndIs ==
  ASSUME NEW v, v.height \in Int
  PROVE  Scroll!End(v) \in Int /\ Scroll!End(v) >= 0 /\ (v.height = 0 => Scroll!End(v) = 0)
BY HeightsOK DEF Scroll!End

\* A position that is asked for is clamped; the rest stays.
LEMMA Clamps ==
  ASSUME NEW v, ScrollFields \subseteq DOMAIN v, v.height \in Int, NEW top \in Int
  PROVE  LET w == Scroll!At(v, top)
         IN  /\ ScrollFields \subseteq DOMAIN w /\ w.height = v.height /\ w.mine = v.mine
             /\ w.following = v.following /\ w.anchor = v.anchor /\ w.dragged = v.dragged
             /\ w.seen = v.seen /\ w.settling = v.settling
             /\ w.top = Scroll!Least(top, Scroll!End(v)) /\ Scroll!End(w) = Scroll!End(v)
             /\ w.top \in Int /\ w.top <= Scroll!End(w)
<1>1. Scroll!End(v) \in Int
  BY EndIs
<1> QED BY <1>1 DEF Scroll!At, Scroll!Least, Scroll!End, ScrollFields

\* The end, which is there without rows too, and the position that is kept.
LEMMA RuleIsEnforced ==
  ASSUME NEW v, Clamped(v)
  PROVE  LET w == Scroll!enforceScrollRule(v)
         IN  /\ Clamped(w) /\ Ruled(w) /\ w.anchor = v.anchor /\ w.height = v.height
             /\ w.mine = v.mine /\ w.following = v.following /\ w.dragged = v.dragged
             /\ w.seen = v.seen /\ w.settling = v.settling
<1> DEFINE end == Scroll!End(v)
<1>1. end \in Int /\ end >= 0 /\ (v.height = 0 => end = 0) /\ 0 \in Int
  BY EndIs DEF Clamped, Laid
<1>2. CASE v.mine = None \/ v.following
  <2>1. CASE v.height = 0
    <3> DEFINE w == Scroll!At(v, 0)
    <3>1. Scroll!enforceScrollRule(v) = w
      BY <1>2, <2>1 DEF Scroll!enforceScrollRule, Scroll!scrollToBottom
    <3>2. /\ ScrollFields \subseteq DOMAIN w /\ w.height = v.height /\ w.mine = v.mine
          /\ w.following = v.following /\ w.anchor = v.anchor /\ w.dragged = v.dragged
          /\ w.seen = v.seen /\ w.settling = v.settling
          /\ w.top = Scroll!Least(0, end) /\ Scroll!End(w) = end
      BY Clamps, <1>1 DEF Clamped, Laid
    <3> HIDE DEF w
    <3>3. w.top = 0 /\ end = 0
      BY <1>1, <2>1, <3>2 DEF Scroll!Least
    <3> HIDE DEF end
    <3> QED BY <1>1, <1>2, <3>1, <3>2, <3>3 DEF Clamped, Laid, Ruled
  <2>2. CASE v.height # 0
    <3> DEFINE u == Scroll!At(v, end)
               w == [u EXCEPT !.programmatic = TRUE]
    <3>1. Scroll!enforceScrollRule(v) = w
      BY <1>2, <2>2 DEF Scroll!enforceScrollRule, Scroll!scrollToBottom
    <3>2. /\ ScrollFields \subseteq DOMAIN u /\ u.height = v.height /\ u.mine = v.mine
          /\ u.following = v.following /\ u.anchor = v.anchor /\ u.dragged = v.dragged
          /\ u.seen = v.seen /\ u.settling = v.settling
          /\ u.top = Scroll!Least(end, end) /\ Scroll!End(u) = end
      BY Clamps, <1>1 DEF Clamped, Laid
    <3> HIDE DEF u, end
    <3>3. u.top = end
      BY <1>1, <3>2 DEF Scroll!Least
    <3>4. Clamped(u) /\ Ruled(u)
      BY <1>1, <1>2, <3>2, <3>3 DEF Clamped, Laid, Ruled, end
    <3>5. SamePlace(u, w) /\ w.seen = u.seen /\ w.settling = u.settling
      BY <3>2 DEF SamePlace, ScrollFields
    <3> HIDE DEF w
    <3> QED BY <3>1, <3>2, <3>4, <3>5, SamePlaceKeeps DEF SamePlace
  <2> QED BY <2>1, <2>2
<1>3. CASE ~(v.mine = None \/ v.following)
  <2> DEFINE u == Scroll!At(v, v.mine)
             w == [u EXCEPT !.programmatic = TRUE]
  <2>1. Scroll!enforceScrollRule(v) = w
    BY <1>3 DEF Scroll!enforceScrollRule
  <2>2. v.mine \in Int
    BY <1>3 DEF Clamped, Laid
  <2>3. /\ ScrollFields \subseteq DOMAIN u /\ u.height = v.height /\ u.mine = v.mine
        /\ u.following = v.following /\ u.anchor = v.anchor /\ u.dragged = v.dragged
        /\ u.seen = v.seen /\ u.settling = v.settling
        /\ u.top = Scroll!Least(v.mine, end) /\ Scroll!End(u) = end
        /\ u.top \in Int /\ u.top <= end
    BY Clamps, <1>1, <2>2 DEF Clamped, Laid
  <2> HIDE DEF u, end
  <2>4. Clamped(u) /\ Ruled(u)
    BY <1>1, <1>3, <2>2, <2>3 DEF Clamped, Laid, Ruled
  <2>5. SamePlace(u, w) /\ w.seen = u.seen /\ w.settling = u.settling
    BY <2>3 DEF SamePlace, ScrollFields
  <2> HIDE DEF w
  <2> QED BY <2>1, <2>3, <2>4, <2>5, SamePlaceKeeps DEF SamePlace
<1> QED BY <1>2, <1>3

\* What every change of the content ends in.
Follows(v) == Clamped(v) /\ (v.anchor = None => Ruled(v))

LEMMA FollowsKeeps ==
  ASSUME NEW v, NEW w, Follows(v), SamePlace(v, w)
  PROVE  Follows(w) /\ Kept(w)
BY SamePlaceKeeps DEF Follows, Kept, SamePlace

LEMMA Mutates ==
  ASSUME NEW v, Laid(v)
  PROVE  Follows(Scroll!Mutated(v))
<1> DEFINE u == Scroll!At(v, v.top)
<1>1. Clamped(u) /\ u.anchor = v.anchor
  BY Clamps DEF Clamped, Laid
<1> HIDE DEF u
<1>2. CASE v.anchor # None
  <2>1. Scroll!Mutated(v) = u
    BY <1>2 DEF Scroll!Mutated, u
  <2> QED BY <1>1, <1>2, <2>1 DEF Follows
<1>3. CASE v.anchor = None
  <2> DEFINE e == Scroll!enforceScrollRule(u)
             w == [e EXCEPT !.changing = TRUE]
  <2>1. Scroll!Mutated(v) = w
    BY <1>3 DEF Scroll!Mutated, u
  <2>2. Clamped(e) /\ Ruled(e)
    BY <1>1, RuleIsEnforced
  <2> HIDE DEF e
  <2>3. SamePlace(e, w)
    BY <2>2 DEF SamePlace, Clamped, Laid, ScrollFields
  <2> HIDE DEF w
  <2> QED BY <2>1, <2>2, <2>3, FollowsKeeps DEF Follows
<1> QED BY <1>2, <1>3

LEMMA Resizes ==
  ASSUME NEW v, Follows(v)
  PROVE  Follows(Scroll!Resized(v)) /\ Kept(Scroll!Resized(v))
<1> DEFINE w == [v EXCEPT !.seen = v.height, !.wheel = FALSE]
           e == Scroll!enforceScrollRule(w)
           l == [e EXCEPT !.loop = TRUE, !.changing = TRUE]
<1>1. SamePlace(v, w) /\ SamePlace(v, v) /\ w.settling = v.settling
  BY DEF Follows, Clamped, Laid, SamePlace, ScrollFields
<1>2. Follows(w) /\ Clamped(w) /\ w.mine = v.mine
  BY <1>1, FollowsKeeps DEF Follows, SamePlace
<1>3. \/ Scroll!Resized(v) \in {v, w, l}
      \/ Scroll!Resized(v) = Scroll!scrollToBottom(w) /\ (w.mine = None \/ w.following)
  <2>1. CASE v.anchor # None \/ v.height = v.seen
    BY <2>1 DEF Scroll!Resized
  <2>2. CASE ~(v.anchor # None \/ v.height = v.seen) /\ v.settling
    BY <2>2 DEF Scroll!Resized
  <2>3. CASE ~(v.anchor # None \/ v.height = v.seen) /\ ~v.settling /\ v.mine = None
    <3>1. Scroll!Resized(v) = Scroll!scrollToBottom(w)
      BY <2>3 DEF Scroll!Resized
    <3> HIDE DEF w
    <3> QED BY <1>2, <2>3, <3>1
  <2>4. CASE ~(v.anchor # None \/ v.height = v.seen) /\ ~v.settling /\ v.mine # None
    <3>1. Scroll!Resized(v) = l
      BY <2>4 DEF Scroll!Resized
    <3> QED BY <3>1
  <2> QED BY <2>1, <2>2, <2>3, <2>4
<1> HIDE DEF w
<1>4. \/ Scroll!Resized(v) \in {v, w, l}
      \/ Scroll!Resized(v) = e
  BY <1>3 DEF Scroll!enforceScrollRule
<1>5. Clamped(e) /\ Ruled(e)
  BY <1>2, RuleIsEnforced
<1> HIDE DEF e
<1>6. SamePlace(e, l) /\ SamePlace(e, e)
  BY <1>5 DEF SamePlace, Clamped, Laid, ScrollFields
<1>7. Follows(e)
  BY <1>5 DEF Follows
<1> HIDE DEF l
<1> QED BY <1>1, <1>4, <1>6, <1>7, FollowsKeeps

LEMMA Observes ==
  ASSUME NEW v, Laid(v)
  PROVE  Follows(Scroll!Observed(v)) /\ Kept(Scroll!Observed(v))
BY Mutates, Resizes DEF Scroll!Observed

\* Older rows came: the position moves with them and becomes the user's.
LEMMA Restores ==
  ASSUME NEW v, Laid(v)
  PROVE  Laid(Scroll!Restored(v))
<1>1. CASE v.anchor = None
  BY <1>1 DEF Scroll!Restored
<1>2. CASE v.anchor # None
  <2> DEFINE by == v.height - v.anchor.height
             a == Scroll!At(v, v.anchor.top + by)
             b == Scroll!At(v, v.top)
             w == IF by > 0 THEN [a EXCEPT !.programmatic = TRUE] ELSE b
             f == w.top = Scroll!End(w)
  <2>1. Scroll!Restored(v) = [w EXCEPT !.anchor = None, !.mine = w.top, !.following = f]
    BY <1>2 DEF Scroll!Restored
  <2>2. v.anchor.top \in Int /\ v.anchor.height \in Int /\ v.height \in Int /\ v.top \in Int
        /\ ScrollFields \subseteq DOMAIN v
    BY <1>2 DEF Laid
  <2>3. v.anchor.top + by \in Int
    BY <2>2
  <2>4. ScrollFields \subseteq DOMAIN a /\ a.height = v.height /\ a.top \in Int
    BY <2>2, <2>3, Clamps
  <2>5. ScrollFields \subseteq DOMAIN b /\ b.height = v.height /\ b.top \in Int
    BY <2>2, Clamps
  <2> HIDE DEF a, b
  <2>6. ScrollFields \subseteq DOMAIN w /\ w.height \in Int /\ w.top \in Int
    BY <2>2, <2>4, <2>5 DEF ScrollFields
  <2>7. f \in BOOLEAN
    OBVIOUS
  <2> HIDE DEF w, f
  <2> QED BY <2>1, <2>6, <2>7 DEF Laid, ScrollFields
<1> QED BY <1>1, <1>2

LEMMA Counts ==
  ASSUME NEW v, Laid(v), NEW height \in Int
  PROVE  /\ Follows(Scroll!Becoming(v, height))
         /\ Follows(Scroll!Recounted(v, height))
<1> DEFINE w == [v EXCEPT !.height = height]
<1>1. Laid(w)
  BY DEF Laid, ScrollFields
<1> HIDE DEF w
<1>2. Follows(Scroll!Observed(w))
  BY <1>1, Observes
<1>3. Follows(Scroll!Observed(Scroll!Restored(w)))
  BY <1>1, Restores, Observes
<1> QED BY <1>2, <1>3 DEF Scroll!Becoming, Scroll!Recounted, w

\* Where the user leaves the view is where the rule keeps it.
LEMMA Places ==
  ASSUME NEW v, Clamped(v)
  PROVE  LET w == Scroll!Placed(v) IN Clamped(w) /\ Ruled(w)
<1> DEFINE f == v.top = Scroll!End(v)
           m == IF f THEN None ELSE v.top
           w == [v EXCEPT !.following = f, !.mine = m]
<1>1. Scroll!Placed(v) = w
  BY DEF Scroll!Placed
<1>2. f \in BOOLEAN
  OBVIOUS
<1>3. /\ m # None => m \in Int /\ m = v.top /\ ~f
      /\ m = None => v.top = Scroll!End(v)
      /\ f => v.top = Scroll!End(v)
  BY HeightsOK DEF Clamped, Laid
<1>4. v.top \in Int /\ v.height \in Int /\ v.top <= Scroll!End(v) /\ Scroll!End(v) \in Int
  BY EndIs DEF Clamped, Laid
<1> HIDE DEF f, m
<1>5. /\ ScrollFields \subseteq DOMAIN w /\ w.top = v.top /\ w.height = v.height
      /\ w.mine = m /\ w.following = f /\ w.anchor = v.anchor
  BY DEF Clamped, Laid, ScrollFields
<1> HIDE DEF w
<1>6. Scroll!End(w) = Scroll!End(v)
  BY <1>5 DEF Scroll!End
<1>7. Clamped(w)
  BY <1>2, <1>3, <1>4, <1>5, <1>6 DEF Clamped, Laid
<1>8. Ruled(w)
  <2>1. CASE w.mine = None \/ w.following
    BY <1>3, <1>5, <1>6, <2>1 DEF Ruled
  <2>2. CASE ~(w.mine = None \/ w.following)
    BY <1>3, <1>4, <1>5, <1>6, <2>2 DEF Ruled, Scroll!Least
  <2> QED BY <2>1, <2>2
<1> QED BY <1>1, <1>7, <1>8

ScrollCalls == \A r \in calls : "reply" \in DOMAIN r /\ r.reply \in {None, Failed, PageHeight}

\* Older rows are asked for from where the view is.
LEMMA Older ==
  ASSUME ScrollCalls, NEW v, Clamped(v), Kept(v), v.anchor = None => Ruled(v), Scroll!LoadsOlder(v)
  PROVE  Clamped(view') /\ Kept(view') /\ ScrollCalls'
<1> DEFINE w == [v EXCEPT !.loadingOlder = TRUE, !.anchor = [top |-> v.top, height |-> v.height]]
           q == Scroll!Request("older", None)
<1>1. CASE view' = v /\ calls' = calls
  BY <1>1 DEF ScrollCalls
<1>2. CASE view' = w /\ calls' = calls \cup {q} /\ v.anchor = None
  <2>1. "reply" \in DOMAIN q /\ q.reply = None
    BY DEF Scroll!Request
  <2> HIDE DEF q
  <2>2. /\ ScrollFields \subseteq DOMAIN w /\ w.height = v.height /\ w.top = v.top
        /\ w.mine = v.mine /\ w.following = v.following /\ w.dragged = v.dragged
        /\ w.anchor = [top |-> v.top, height |-> v.height]
    BY DEF Clamped, Laid, ScrollFields
  <2>3. {"top", "height"} \subseteq DOMAIN w.anchor /\ w.anchor.top = v.top /\ w.anchor.height = v.height
    BY <2>2
  <2> HIDE DEF w
  <2>4. Clamped(w)
    BY <2>2, <2>3 DEF Clamped, Laid, Scroll!End
  <2>5. Ruled(w)
    BY <1>2, <2>2 DEF Ruled, Scroll!End
  <2>6. Clamped(view') /\ Kept(view')
    BY <1>2, <2>4, <2>5 DEF Kept
  <2>7. ScrollCalls'
    BY <1>2, <2>1 DEF ScrollCalls
  <2> QED BY <2>6, <2>7
<1>3. \/ view' = v /\ calls' = calls
      \/ view' = w /\ calls' = calls \cup {q} /\ v.anchor = None
  BY DEF Scroll!LoadsOlder, Scroll!Asks
<1> QED BY <1>1, <1>2, <1>3

LEMMA ScrollInit == ASSUME Scroll!Init PROVE ScrollInv
<1>1. view = Scroll!Unloaded /\ calls = {}
  BY DEF Scroll!Init
<1>2. view.height = 0 /\ view.top = 0 /\ view.mine = None /\ view.following = TRUE /\ view.anchor = None
      /\ ScrollFields \subseteq DOMAIN view
  BY <1>1 DEF Scroll!Unloaded, ScrollFields
<1>3. Scroll!End(view) = 0
  BY <1>2, EndIs
<1>4. Clamped(view)
  <2>1. view.top <= Scroll!End(view) /\ view.top \in Int /\ view.height \in Int
    BY <1>2, <1>3
  <2>2. view.following \in BOOLEAN
    BY <1>2
  <2> QED BY <1>2, <2>1, <2>2 DEF Clamped, Laid
<1>5. Ruled(view)
  BY <1>2, <1>3 DEF Ruled
<1> QED BY <1>1, <1>4, <1>5 DEF ScrollInv, Kept

LEMMA ScrollStep ==
  ASSUME ScrollInv, Scroll!Next
  PROVE  ScrollInv'
<1>1. Clamped(view) /\ Laid(view) /\ Kept(view) /\ ScrollCalls
  BY DEF ScrollInv, Clamped, ScrollCalls
<1>2. ASSUME Clamped(view'), Kept(view'), ScrollCalls' PROVE ScrollInv'
  BY <1>2 DEF ScrollInv, ScrollCalls
<1>3. ASSUME calls' = calls PROVE ScrollCalls'
  BY <1>1, <1>3 DEF ScrollCalls
<1>4. ASSUME Follows(view'), calls' = calls PROVE ScrollInv'
  BY <1>2, <1>3, <1>4 DEF Follows, Kept
<1>5. ASSUME SamePlace(view, view'), ScrollCalls' PROVE ScrollInv'
  BY <1>1, <1>2, <1>5, SamePlaceKeeps
<1>6. CASE Scroll!Load
  <2> DEFINE u == [view EXCEPT !.height = Viewport + PageHeight, !.loaded = TRUE]
             v == [Scroll!Restored(u) EXCEPT !.mine = None, !.following = TRUE, !.settling = TRUE]
  <2>1. view' = Scroll!Observed(v) /\ calls' = calls
    BY <1>6 DEF Scroll!Load
  <2>2. Laid(u)
    BY <1>1, HeightsOK DEF Laid, ScrollFields
  <2> HIDE DEF u
  <2>3. Laid(Scroll!Restored(u))
    BY <2>2, Restores
  <2>4. Laid(v)
    BY <2>3 DEF Laid, ScrollFields
  <2> HIDE DEF v
  <2>5. Follows(view')
    BY <2>1, <2>4, Observes
  <2> QED BY <1>4, <2>1, <2>5
<1>7. ASSUME NEW v, NEW w, Follows(v), SamePlace(v, w), view' = w, calls' = calls PROVE ScrollInv'
  BY <1>4, <1>7, FollowsKeeps
<1>8. CASE Scroll!Blanked
  <2> DEFINE v == Scroll!Recounted(view, 0)
             w == [v EXCEPT !.loaded = FALSE, !.loadingOlder = FALSE]
  <2>1. view' = w /\ calls' = calls
    BY <1>8 DEF Scroll!Blanked
  <2>2. 0 \in Int
    OBVIOUS
  <2>3. Follows(v)
    BY <1>1, <2>2, Counts
  <2> HIDE DEF v
  <2>4. SamePlace(v, w)
    BY <2>3 DEF Follows, Clamped, Laid, SamePlace, ScrollFields
  <2> QED BY <1>7, <2>1, <2>3, <2>4
<1>9. CASE Scroll!Reply
  <2>1. PICK height \in {view.height + 1, view.height - 1} : view' = Scroll!Becoming(view, height)
    BY <1>9 DEF Scroll!Reply
  <2>2. height \in Int /\ calls' = calls
    BY <1>1, <1>9 DEF Scroll!Reply, Laid
  <2> QED BY <1>1, <1>4, <2>1, <2>2, Counts
<1>10. CASE Scroll!NewPrompt
  <2> DEFINE h == view.height + 1
             v == Scroll!Recounted(view, h)
             w == [v EXCEPT !.changing = TRUE]
  <2>1. view' = w /\ calls' = calls
    BY <1>10 DEF Scroll!NewPrompt
  <2>2. h \in Int
    BY <1>1 DEF Laid
  <2> HIDE DEF h
  <2>3. Follows(v)
    BY <1>1, <2>2, Counts
  <2> HIDE DEF v
  <2>4. SamePlace(v, w)
    BY <2>3 DEF Follows, Clamped, Laid, SamePlace, ScrollFields
  <2> QED BY <1>7, <2>1, <2>3, <2>4
<1>11. ASSUME NEW v, Clamped(v), Scroll!LoadsOlder(Scroll!Placed(v)) PROVE ScrollInv'
  <2> DEFINE w == Scroll!Placed(v)
  <2>1. Clamped(w) /\ Ruled(w) /\ Scroll!LoadsOlder(w)
    BY <1>11, Places
  <2> HIDE DEF w
  <2> QED BY <1>1, <1>2, <2>1, Older DEF Kept
<1>12. ASSUME NEW v, Clamped(v), Kept(v), Scroll!onScroll(v) PROVE ScrollInv'
  <2>1. (view' = v /\ calls' = calls) \/ Scroll!LoadsOlder(Scroll!Placed(v))
    BY <1>12 DEF Scroll!onScroll
  <2> QED BY <1>2, <1>3, <1>11, <1>12, <2>1
<1>13. ASSUME NEW top \in 0..Scroll!End(view)
       PROVE  /\ Clamped(Scroll!At(view, top)) /\ top \in Int
              /\ ScrollFields \subseteq DOMAIN Scroll!At(view, top)
  <2>1. Scroll!End(view) \in Int
    BY <1>1, EndIs DEF Laid
  <2>2. top \in Int
    BY <2>1
  <2> QED BY <1>1, <2>2, Clamps DEF Clamped, Laid
<1>14. CASE Scroll!Wheel
  <2>1. PICK top \in 0..Scroll!End(view) : Scroll!onWheel(top)
    BY <1>14 DEF Scroll!Wheel
  <2> DEFINE u == Scroll!At(view, top)
             v == [u EXCEPT !.wheel = TRUE]
  <2>2. Scroll!LoadsOlder(Scroll!Placed(v))
    BY <2>1 DEF Scroll!onWheel
  <2>3. Clamped(u) /\ ScrollFields \subseteq DOMAIN u
    BY <1>13
  <2> HIDE DEF u
  <2>4. SamePlace(u, v)
    BY <2>3 DEF SamePlace, ScrollFields
  <2> HIDE DEF v
  <2>5. Clamped(v)
    BY <2>3, <2>4, SamePlaceKeeps
  <2> QED BY <1>11, <2>2, <2>5
<1>15. CASE Scroll!Drag
  <2>1. PICK top \in 0..Scroll!End(view) :
          Scroll!onScroll([Scroll!At(view, top) EXCEPT !.dragged = TRUE])
    BY <1>15 DEF Scroll!Drag
  <2> DEFINE u == Scroll!At(view, top)
             v == [u EXCEPT !.dragged = TRUE]
  <2>2. Scroll!onScroll(v)
    BY <2>1
  <2>3. Clamped(u) /\ ScrollFields \subseteq DOMAIN u
    BY <1>13
  <2> HIDE DEF u
  <2>4. Clamped(v) /\ v.dragged = TRUE
    BY <2>3 DEF Clamped, Laid, ScrollFields, Scroll!End
  <2> HIDE DEF v
  <2> QED BY <1>12, <2>2, <2>4 DEF Kept
<1>16. CASE Scroll!OwnEvent
  BY <1>1, <1>12, <1>16 DEF Scroll!OwnEvent
<1>17. CASE Scroll!Frame
  <2>1. view' = Scroll!enforceScrollRule(view) /\ calls' = calls
    BY <1>17 DEF Scroll!Frame
  <2>2. Clamped(view') /\ Ruled(view')
    BY <1>1, <2>1, RuleIsEnforced
  <2> QED BY <1>2, <1>3, <2>1, <2>2 DEF Kept
<1>18. CASE Scroll!WindowEnds
  <2>1. PICK window \in {"programmatic", "changing", "settling", "wheel", "loop"} :
          view' = [view EXCEPT ![window] = FALSE]
    BY <1>18 DEF Scroll!WindowEnds
  <2>2. SamePlace(view, view')
    BY <1>1, <2>1 DEF SamePlace, Laid, ScrollFields
  <2> QED BY <1>3, <1>5, <1>18, <2>2 DEF Scroll!WindowEnds
<1>19. ASSUME NEW r, NEW reply \in {Failed, PageHeight}, view' = view, Scroll!Answers(r, reply)
       PROVE  ScrollInv'
  <2> DEFINE q == [r EXCEPT !.reply = reply]
  <2>1. r \in calls /\ calls' = (calls \ {r}) \cup {q}
    BY <1>19 DEF Scroll!Answers
  <2>2. "reply" \in DOMAIN q /\ q.reply = reply
    BY <1>1, <2>1 DEF ScrollCalls
  <2> HIDE DEF q
  <2>3. ScrollCalls'
    BY <1>1, <1>19, <2>1, <2>2 DEF ScrollCalls
  <2> QED BY <1>1, <1>2, <1>19, <2>3
<1>20. ASSUME NEW r \in calls, Scroll!ServeOlder(r) \/ Scroll!Fails(r) PROVE ScrollInv'
  BY <1>19, <1>20 DEF Scroll!ServeOlder, Scroll!Fails
<1>21. ASSUME NEW r \in calls, Scroll!OlderDone(r) PROVE ScrollInv'
  <2>1. calls' = calls \ {r} /\ r.reply # None
    BY <1>21 DEF Scroll!OlderDone, Scroll!Takes
  <2>2. ScrollCalls'
    BY <1>1, <2>1 DEF ScrollCalls
  <2>3. CASE r.reply = Failed \/ ~view.loaded
    <3>1. view' = [view EXCEPT !.loadingOlder = FALSE]
      BY <1>21, <2>3 DEF Scroll!OlderDone
    <3>2. SamePlace(view, view')
      BY <1>1, <3>1 DEF SamePlace, Laid, ScrollFields
    <3> QED BY <1>5, <2>2, <3>2
  <2>4. CASE ~(r.reply = Failed \/ ~view.loaded)
    <3> DEFINE h == view.height + r.reply
               v == Scroll!Recounted(view, h)
               w == [v EXCEPT !.loadingOlder = FALSE]
    <3>1. view' = w
      BY <1>21, <2>4 DEF Scroll!OlderDone
    <3>2. r.reply = PageHeight
      BY <1>1, <2>1, <2>4 DEF ScrollCalls
    <3>3. h \in Int
      BY <1>1, <3>2, HeightsOK DEF Laid
    <3> HIDE DEF h
    <3>4. Follows(v)
      BY <1>1, <3>3, Counts
    <3> HIDE DEF v
    <3>5. SamePlace(v, w)
      BY <3>4 DEF Follows, Clamped, Laid, SamePlace, ScrollFields
    <3> HIDE DEF w
    <3>6. Clamped(view') /\ Kept(view')
      BY <3>1, <3>4, <3>5, FollowsKeeps DEF Follows
    <3> QED BY <1>2, <2>2, <3>6
  <2> QED BY <2>3, <2>4
<1> QED
  BY <1>6, <1>8, <1>9, <1>10, <1>14, <1>15, <1>16, <1>17, <1>18, <1>20, <1>21 DEF Scroll!Next

LEMMA ScrollSafe == ScrollInv => Scroll!WheelIsKept
BY DEF ScrollInv, Kept, Ruled, Scroll!WheelIsKept

-----------------------------------------------------------------------------
(* The internals of a row.                                                 *)

RowFields == {"open", "autoClosed", "element", "toggling", "wants", "rail", "waited"}

\* A signal and an element that differ have an event to come, and a click that
\* unfolds finds the signal folded: the end of the turn has nothing to fold.
RowSound(v) ==
  /\ RowFields \subseteq DOMAIN v
  /\ v.open \in BOOLEAN /\ v.autoClosed \in BOOLEAN /\ v.toggling \in BOOLEAN
  /\ v.element \in BOOLEAN \cup {None} /\ v.wants \in BOOLEAN \cup {None}
  /\ v.wants # None => v.element = v.wants
  /\ ~v.toggling => v.element \in {None, v.open}
  /\ v.toggling => v.element \in BOOLEAN
  /\ v.wants # None /\ v.wants = TRUE /\ ~v.autoClosed => v.open = FALSE

RowInv == RowSound(view)

LEMMA RowSignal ==
  ASSUME NEW v, RowSound(v), ~v.autoClosed
  PROVE  RowSound([Internals!Signal(v, FALSE) EXCEPT !.autoClosed = TRUE])
<1> DEFINE t == v.toggling \/ (v.element # None /\ v.element # FALSE)
           e == IF v.element = None THEN None ELSE FALSE
           w == [[v EXCEPT !.open = FALSE, !.toggling = t, !.element = e] EXCEPT !.autoClosed = TRUE]
<1>1. CASE v.open = FALSE
  <2>1. Internals!Signal(v, FALSE) = v
    BY <1>1 DEF Internals!Signal
  <2> QED BY <2>1 DEF RowSound, RowFields
<1>2. CASE v.open # FALSE
  <2>1. [Internals!Signal(v, FALSE) EXCEPT !.autoClosed = TRUE] = w
    BY <1>2, Zenon DEF Internals!Signal
  <2>2. t \in BOOLEAN /\ (~t => ~v.toggling /\ v.element \in {None, FALSE}) /\ (v.wants # None => v.wants # TRUE)
    BY <1>2 DEF RowSound
  <2>3. e \in BOOLEAN \cup {None} /\ (v.wants # None => e = v.wants) /\ e \in {None, FALSE}
        /\ (t => e \in BOOLEAN)
    BY <2>2 DEF RowSound
  <2> HIDE DEF t, e
  <2>4. RowSound(w)
    BY <2>2, <2>3 DEF RowSound, RowFields
  <2> QED BY <2>1, <2>4
<1> QED BY <1>1, <1>2

LEMMA RowFrames ==
  ASSUME NEW v, RowSound(v), NEW p
  PROVE  RowSound(Internals!Framed(v, p))
<1>1. CASE ~Internals!HasInternals(p)
  BY <1>1 DEF Internals!Framed, RowSound, RowFields
<1>2. CASE Internals!HasInternals(p)
  <2>1. \E rail : Internals!Framed(v, p) =
          [v EXCEPT !.element = IF v.element = None THEN v.open ELSE @,
                    !.toggling = IF v.element = None THEN v.open ELSE @, !.rail = rail]
    BY <1>2 DEF Internals!Framed
  <2>2. PICK rail : Internals!Framed(v, p) =
          [v EXCEPT !.element = IF v.element = None THEN v.open ELSE @,
                    !.toggling = IF v.element = None THEN v.open ELSE @, !.rail = rail]
    BY <2>1
  <2>3. CASE v.element = None
    BY <2>2, <2>3 DEF RowSound, RowFields
  <2>4. CASE v.element # None
    BY <2>2, <2>4 DEF RowSound, RowFields
  <2> QED BY <2>3, <2>4
<1> QED BY <1>1, <1>2

LEMMA RowFollows ==
  ASSUME NEW v, RowSound(v), NEW p
  PROVE  RowSound(Internals!Following(v, p))
<1> DEFINE w == Internals!Framed(Internals!AutoClosed(v, p), p)
<1>1. RowSound(Internals!AutoClosed(v, p))
  <2>1. CASE Internals!isPromptPending(p) \/ v.autoClosed
    BY <2>1 DEF Internals!AutoClosed
  <2>2. CASE ~(Internals!isPromptPending(p) \/ v.autoClosed)
    BY <2>2, RowSignal DEF Internals!AutoClosed
  <2> QED BY <2>1, <2>2
<1>2. RowSound(w)
  BY <1>1, RowFrames
<1>3. \E n : Internals!Following(v, p) = [w EXCEPT !.waited = n]
  BY DEF Internals!Following
<1> HIDE DEF w
<1> QED BY <1>2, <1>3 DEF RowSound, RowFields

LEMMA RowStarts == ASSUME NEW p PROVE RowSound(Internals!Row(p))
BY DEF Internals!Row, RowSound, RowFields

LEMMA RowInit == ASSUME Internals!Init PROVE RowInv
BY RowStarts, RowFollows DEF Internals!Init, RowInv

LEMMA RowStep ==
  ASSUME RowInv, Internals!Next
  PROVE  RowInv'
<1>1. ASSUME NEW p, Internals!Becomes(p) PROVE RowInv'
  BY <1>1, RowFollows DEF Internals!Becomes, RowInv
<1>2. CASE Internals!Speaks \/ Internals!Thinks \/ Internals!Ends \/ Internals!Newer
           \/ \E ev : Internals!Emits(ev)
  <2>1. \E p : Internals!Becomes(p)
    BY <1>2 DEF Internals!Speaks, Internals!Thinks, Internals!Ends, Internals!Newer, Internals!Emits
  <2> QED BY <1>1, <2>1
<1>3. CASE Internals!Recycle
  <2> DEFINE v == [Internals!Row(server) EXCEPT !.open = Internals!isPromptPending(server)]
  <2>1. RowSound(v)
    BY DEF Internals!Row, RowSound, RowFields, Internals!isPromptPending
  <2> HIDE DEF v
  <2>2. view' = Internals!Following(v, server)
    BY <1>3 DEF Internals!Recycle, v
  <2> QED BY <2>1, <2>2, RowFollows DEF RowInv
<1>4. CASE Internals!ClickInternals
  <2> DEFINE e == ~view.element
  <2>1. view.element \in BOOLEAN /\ view.element = view.open
    BY <1>4 DEF Internals!ClickInternals, RowInv, RowSound
  <2>2. view' = [view EXCEPT !.element = e, !.wants = e, !.toggling = TRUE]
    BY <1>4, Zenon DEF Internals!ClickInternals
  <2>3. e \in BOOLEAN /\ (e = TRUE => view.open = FALSE)
    BY <2>1
  <2> HIDE DEF e
  <2> QED BY <2>2, <2>3 DEF RowInv, RowSound, RowFields
<1>5. CASE Internals!onToggleInternals
  <2>1. view.element \in BOOLEAN
    BY <1>5 DEF Internals!onToggleInternals, RowInv, RowSound
  <2> QED BY <1>5, <2>1 DEF Internals!onToggleInternals, Internals!Toggled, Internals!Sees, RowInv, RowSound, RowFields
<1>6. CASE Internals!ToggleUser \/ Internals!ToggleAssistant \/ Internals!Tick \/ Internals!doCopy
  <2>1. \E x : \/ view' = [view EXCEPT !.userExpanded = x] \/ view' = [view EXCEPT !.waited = x]
               \/ view' = [view EXCEPT !.assistantExpanded = x] \/ view' = [view EXCEPT !.copied = x]
    BY <1>6 DEF Internals!ToggleUser, Internals!ToggleAssistant, Internals!Tick, Internals!doCopy,
                Internals!Sees
  <2> QED BY <2>1 DEF RowInv, RowSound, RowFields
<1> QED BY <1>2, <1>3, <1>4, <1>5, <1>6 DEF Internals!Next

LEMMA RowSafe == RowInv => Internals!LastClickWins
BY DEF RowInv, RowSound, Internals!LastClickWins

-----------------------------------------------------------------------------
(* Filters.                                                                *)

\* A nonempty set of numbers has a least one: what a recursive function gives
\* is reasoned about at the least place where it would go wrong.
LEMMA LeastOf ==
  ASSUME NEW T \in SUBSET Nat, T # {}
  PROVE  \E x \in T : \A y \in T : x <= y
<1>1. PICK x \in T : \A y \in T : ~ (<<y, x>> \in OpToRel(<, Nat))
  BY NatLessThanWellFounded, WFMin
<1>2. \A y \in T : ~(y < x)
  BY <1>1 DEF OpToRel
<1>3. \A y \in T : y \in Nat
  OBVIOUS
<1> QED BY <1>2, <1>3

Filter(f, s, kept, m) ==
  f = [n \in 0..m |-> IF n = 0 THEN <<>> ELSE Strips!Joined(f[n - 1], s[n], kept)]

LEMMA OnlyIs ==
  ASSUME NEW s, Len(s) \in Nat, NEW kept
  PROVE  \E f : Filter(f, s, kept, Len(s)) /\ Strips!Only(s, kept) = f[Len(s)]
<1> DEFINE Bad == {m \in Nat : ~\E f : Filter(f, s, kept, m)}
<1>1. Bad = {}
  <2> SUFFICES ASSUME Bad # {} PROVE FALSE
    OBVIOUS
  <2>1. PICK m \in Bad : \A k \in Bad : m <= k
    <3>1. Bad \in SUBSET Nat
      OBVIOUS
    <3> QED BY <3>1, LeastOf
  <2>2. m # 0
    <3> DEFINE z == [n \in {0} |-> <<>>]
    <3>1. Filter(z, s, kept, 0)
      BY DEF Filter
    <3> QED BY <3>1
  <2>3. m \in Nat /\ m - 1 \in Nat /\ m - 1 < m
    BY <2>2
  <2>4. m - 1 \notin Bad
    BY <2>1, <2>3
  <2>5. PICK g : Filter(g, s, kept, m - 1)
    BY <2>3, <2>4
  <2> DEFINE h == [n \in 0..m |-> IF n < m THEN g[n] ELSE Strips!Joined(g[n - 1], s[n], kept)]
  <2>6. Filter(h, s, kept, m)
    <3> SUFFICES ASSUME NEW n \in 0..m
                 PROVE  h[n] = IF n = 0 THEN <<>> ELSE Strips!Joined(h[n - 1], s[n], kept)
      BY DEF Filter
    <3>1. n # 0 => h[n - 1] = g[n - 1]
      BY <2>3
    <3>2. n < m => h[n] = g[n] /\ g[n] = IF n = 0 THEN <<>> ELSE Strips!Joined(g[n - 1], s[n], kept)
      BY <2>3, <2>5 DEF Filter
    <3>3. n = m => n # 0 /\ h[n] = Strips!Joined(g[n - 1], s[n], kept)
      BY <2>3
    <3> HIDE DEF h
    <3> QED BY <2>3, <3>1, <3>2, <3>3
  <2> QED BY <2>3, <2>6
<1>2. \E f : Filter(f, s, kept, Len(s))
  BY <1>1
<1> QED BY <1>2 DEF Strips!Only, Filter

Injective(s) == \A i, j \in 1..Len(s) : s[i] = s[j] => i = j

Elements(s, n) == {s[i] : i \in 1..n}

\* What a filter has kept after n elements.
HasKept(q, s, S, kept, n) ==
  /\ q \in Seq(S) /\ Len(q) <= n
  /\ Elements(q, Len(q)) = Elements(s, n) \cap kept
  /\ Injective(s) => Injective(q)
  /\ Elements(s, n) \subseteq kept => Len(q) = n /\ \A i \in 1..n : q[i] = s[i]

LEMMA KeptStart == ASSUME NEW s, NEW S, NEW kept PROVE HasKept(<<>>, s, S, kept, 0)
BY DEF HasKept, Elements, Injective

LEMMA KeptOn ==
  ASSUME NEW S, NEW s \in Seq(S), NEW kept, NEW n \in 1..Len(s), NEW q, HasKept(q, s, S, kept, n - 1),
         NEW p, p = Strips!Joined(q, s[n], kept)
  PROVE  HasKept(p, s, S, kept, n)
<1>1. Elements(s, n) = Elements(s, n - 1) \cup {s[n]}
  BY DEF Elements
<1>2. CASE s[n] \in kept
  <2>1. /\ p \in Seq(S) /\ Len(p) = Len(q) + 1 /\ Len(q) \in Nat
        /\ \A i \in 1..Len(q) : p[i] = q[i]
        /\ p[Len(p)] = s[n]
    BY <1>2 DEF HasKept, Strips!Joined
  <2>2. Elements(p, Len(p)) = Elements(q, Len(q)) \cup {s[n]}
    <3>1. {p[i] : i \in 1..(Len(q) + 1)} = {p[i] : i \in 1..Len(q)} \cup {p[Len(q) + 1]}
      BY <2>1
    <3>2. {p[i] : i \in 1..Len(q)} = {q[i] : i \in 1..Len(q)}
      BY <2>1
    <3> QED BY <2>1, <3>1, <3>2 DEF Elements
  <2>3. ASSUME Injective(s) PROVE Injective(p)
    <3>1. \A i \in 1..Len(q) : q[i] # s[n]
      <4> SUFFICES ASSUME NEW i \in 1..Len(q), q[i] = s[n] PROVE FALSE
        OBVIOUS
      <4>1. s[n] \in Elements(s, n - 1)
        BY DEF HasKept, Elements
      <4>2. PICK j \in 1..(n - 1) : s[j] = s[n]
        BY <4>1 DEF Elements
      <4> QED BY <2>3, <4>2 DEF Injective
    <3>2. Injective(q)
      BY <2>3 DEF HasKept
    <3> QED BY <2>1, <3>1, <3>2 DEF Injective
  <2>4. ASSUME Elements(s, n) \subseteq kept PROVE Len(p) = n /\ \A i \in 1..n : p[i] = s[i]
    <3>1. Len(q) = n - 1 /\ \A i \in 1..(n - 1) : q[i] = s[i]
      BY <1>1, <2>4 DEF HasKept
    <3> QED BY <2>1, <3>1
  <2> QED BY <1>1, <1>2, <2>1, <2>2, <2>3, <2>4 DEF HasKept
<1>3. CASE s[n] \notin kept
  BY <1>1, <1>3 DEF HasKept, Strips!Joined
<1> QED BY <1>2, <1>3

LEMMA OnlyKeeps ==
  ASSUME NEW S, NEW s \in Seq(S), NEW kept
  PROVE  HasKept(Strips!Only(s, kept), s, S, kept, Len(s))
<1>1. PICK f : Filter(f, s, kept, Len(s)) /\ Strips!Only(s, kept) = f[Len(s)]
  BY OnlyIs
<1> DEFINE Bad == {n \in 0..Len(s) : ~HasKept(f[n], s, S, kept, n)}
<1>2. ASSUME Bad # {} PROVE FALSE
  <2>1. PICK m \in Bad : \A k \in Bad : m <= k
    <3>1. Bad \in SUBSET Nat
      OBVIOUS
    <3> QED BY <1>2, <3>1, LeastOf
  <2>2. m # 0
    BY <1>1, KeptStart DEF Filter
  <2>3. m \in 1..Len(s) /\ m - 1 \in 0..Len(s) /\ m - 1 < m
    BY <2>2
  <2>4. HasKept(f[m - 1], s, S, kept, m - 1)
    BY <2>1, <2>3
  <2>5. f[m] = Strips!Joined(f[m - 1], s[m], kept)
    BY <1>1, <2>3 DEF Filter
  <2>6. HasKept(f[m], s, S, kept, m)
    BY <2>3, <2>4, <2>5, KeptOn
  <2> QED BY <2>1, <2>6
<1>3. Len(s) \in 0..Len(s)
  OBVIOUS
<1> QED BY <1>1, <1>2, <1>3

-----------------------------------------------------------------------------
(* The strip of tabs of one scope.                                         *)

IdSet  == [kind : {"chat", "terminal", "db"}, home : Keys \cup {None}, n : Int]
TabSet == [id : IdSet, title : {"given", "chosen"}]

IdsDistinct(tabs) == \A i, j \in 1..Len(tabs) : tabs[i].id = tabs[j].id => i = j

IdsOf(tabs) == {tabs[i].id : i \in 1..Len(tabs)}

StripSound(s) ==
  /\ s \in [tabs : Seq(TabSet), active : IdSet \cup {None}, hydrated : BOOLEAN]
  /\ IdsDistinct(s.tabs)
  /\ s.active = None <=> s.tabs = <<>>
  /\ s.active \in IdsOf(s.tabs) \cup {None}

LEMMA NoneIsNoId == None \notin IdSet
BY TabsOK DEF IdSet

LEMMA IdsThere ==
  ASSUME NEW tabs \in Seq(TabSet)
  PROVE  /\ IdsOf(tabs) \subseteq IdSet /\ None \notin IdsOf(tabs)
         /\ IdsOf(tabs) = {t.id : t \in Elements(tabs, Len(tabs))}
         /\ tabs = <<>> <=> IdsOf(tabs) = {}
<1>1. \A i \in 1..Len(tabs) : tabs[i] \in TabSet /\ tabs[i].id \in IdSet
  <2>1. \A t \in TabSet : t.id \in IdSet
    BY DEF TabSet
  <2> QED BY <2>1
<1>2. IdsOf(tabs) = {t.id : t \in Elements(tabs, Len(tabs))}
  BY DEF IdsOf, Elements
<1>3. tabs = <<>> <=> IdsOf(tabs) = {}
  <2>1. tabs = <<>> => IdsOf(tabs) = {}
    BY DEF IdsOf
  <2>2. tabs # <<>> => tabs[1].id \in IdsOf(tabs)
    BY DEF IdsOf
  <2> QED BY <2>1, <2>2
<1> QED BY <1>1, <1>2, <1>3, NoneIsNoId DEF IdsOf

LEMMA TabIdsAre == ASSUME NEW s, StripSound(s) PROVE Strips!TabIds(s) = IdsOf(s.tabs)
BY DEF StripSound, Strips!TabIds, IdsOf

LEMMA ElementsAre == ASSUME NEW S, NEW s \in Seq(S) PROVE Strips!ToSet(s) = Elements(s, Len(s))
BY DEF Strips!ToSet, Elements

\* A filter of tabs loses those it does not keep.
LEMMA TabsFiltered ==
  ASSUME NEW tabs \in Seq(TabSet), IdsDistinct(tabs), NEW kept
  PROVE  LET q == Strips!Only(tabs, kept)
         IN  /\ q \in Seq(TabSet) /\ IdsDistinct(q)
             /\ Elements(q, Len(q)) = Elements(tabs, Len(tabs)) \cap kept
             /\ IdsOf(q) \subseteq IdsOf(tabs)
             /\ Elements(tabs, Len(tabs)) \subseteq kept => q = tabs
<1> DEFINE q == Strips!Only(tabs, kept)
<1>1. HasKept(q, tabs, TabSet, kept, Len(tabs))
  BY OnlyKeeps
<1> HIDE DEF q
<1>2. q \in Seq(TabSet) /\ Elements(q, Len(q)) = Elements(tabs, Len(tabs)) \cap kept
  BY <1>1 DEF HasKept
<1>3. IdsOf(q) \subseteq IdsOf(tabs)
  BY <1>2, IdsThere
<1>4. IdsDistinct(q)
  <2>1. Injective(tabs)
    BY DEF Injective, IdsDistinct
  <2>2. Injective(q)
    BY <1>1, <2>1 DEF HasKept
  <2>3. \A i \in 1..Len(q) : \E k \in 1..Len(tabs) : tabs[k] = q[i]
    BY <1>2 DEF Elements
  <2> SUFFICES ASSUME NEW i \in 1..Len(q), NEW j \in 1..Len(q), q[i].id = q[j].id PROVE i = j
    BY DEF IdsDistinct
  <2>4. PICK k \in 1..Len(tabs), l \in 1..Len(tabs) : tabs[k] = q[i] /\ tabs[l] = q[j]
    BY <2>3
  <2>5. k = l
    BY <2>4 DEF IdsDistinct
  <2> QED BY <2>2, <2>4, <2>5 DEF Injective
<1>5. Elements(tabs, Len(tabs)) \subseteq kept => q = tabs
  BY <1>1, <1>2 DEF HasKept
<1> QED BY <1>2, <1>3, <1>4, <1>5 DEF q

\* A strip with one more tab.
LEMMA TabAppended ==
  ASSUME NEW tabs \in Seq(TabSet), IdsDistinct(tabs), NEW tab \in TabSet, tab.id \notin IdsOf(tabs)
  PROVE  LET q == Append(tabs, tab)
         IN  q \in Seq(TabSet) /\ q # <<>> /\ IdsDistinct(q) /\ IdsOf(q) = IdsOf(tabs) \cup {tab.id}
<1> DEFINE q == Append(tabs, tab)
<1>1. /\ q \in Seq(TabSet) /\ Len(q) = Len(tabs) + 1 /\ Len(tabs) \in Nat
      /\ \A i \in 1..Len(tabs) : q[i] = tabs[i]
      /\ q[Len(q)] = tab
  OBVIOUS
<1> HIDE DEF q
<1>2. IdsDistinct(q)
  BY <1>1 DEF IdsDistinct, IdsOf
<1>3. IdsOf(q) = IdsOf(tabs) \cup {tab.id}
  BY <1>1 DEF IdsOf
<1>4. q # <<>>
  BY <1>1
<1> QED BY <1>1, <1>2, <1>3, <1>4 DEF q

LEMMA TabOpened ==
  ASSUME NEW s, StripSound(s), NEW tab \in TabSet
  PROVE  LET t == Strips!WithTab(s, tab)
         IN  StripSound(t) /\ IdsOf(t.tabs) = IdsOf(s.tabs) \cup {tab.id}
<1> DEFINE t == Strips!WithTab(s, tab)
<1>1. s.tabs \in Seq(TabSet) /\ IdsDistinct(s.tabs) /\ tab.id \in IdSet /\ tab.id # None
  BY NoneIsNoId DEF StripSound, TabSet
<1>2. CASE tab.id \in IdsOf(s.tabs)
  <2>1. t = [s EXCEPT !.active = tab.id] \/ t = [s EXCEPT !.tabs = s.tabs, !.active = tab.id]
    BY <1>2, TabIdsAre DEF Strips!WithTab
  <2>2. t.tabs = s.tabs /\ t.active = tab.id /\ t.hydrated = s.hydrated
        /\ t \in [tabs : Seq(TabSet), active : IdSet \cup {None}, hydrated : BOOLEAN]
    BY <1>1, <2>1 DEF StripSound
  <2>3. s.tabs # <<>>
    BY <1>1, <1>2, IdsThere
  <2> QED BY <1>1, <1>2, <2>2, <2>3 DEF StripSound
<1>3. CASE tab.id \notin IdsOf(s.tabs)
  <2>1. t = [s EXCEPT !.tabs = Append(s.tabs, tab), !.active = tab.id]
    BY <1>3, TabIdsAre DEF Strips!WithTab
  <2> DEFINE q == Append(s.tabs, tab)
  <2>2. q \in Seq(TabSet) /\ q # <<>> /\ IdsDistinct(q) /\ IdsOf(q) = IdsOf(s.tabs) \cup {tab.id}
    BY <1>1, <1>3, TabAppended
  <2> HIDE DEF q
  <2>3. t.tabs = q /\ t.active = tab.id
        /\ t \in [tabs : Seq(TabSet), active : IdSet \cup {None}, hydrated : BOOLEAN]
    BY <1>1, <2>1, <2>2 DEF StripSound, q
  <2> QED BY <1>1, <2>2, <2>3 DEF StripSound
<1> QED BY <1>2, <1>3

\* The place of a tab.
LEMMA TabPlace ==
  ASSUME NEW s, StripSound(s), NEW id \in IdsOf(s.tabs)
  PROVE  LET i == Strips!IndexOfTab(s, id)
         IN  i \in 1..Len(s.tabs) /\ s.tabs[i].id = id
             /\ \A j \in 1..Len(s.tabs) : s.tabs[j].id = id => j = i
<1>1. \E i \in DOMAIN s.tabs : s.tabs[i].id = id
  BY DEF StripSound, IdsOf
<1>2. DOMAIN s.tabs = 1..Len(s.tabs)
  BY DEF StripSound
<1> DEFINE i == Strips!IndexOfTab(s, id)
<1>3. i \in DOMAIN s.tabs /\ s.tabs[i].id = id
  BY <1>1 DEF Strips!IndexOfTab
<1> QED BY <1>2, <1>3 DEF StripSound, IdsDistinct

LEMMA TabClosed ==
  ASSUME NEW s, StripSound(s), NEW id \in IdsOf(s.tabs)
  PROVE  LET t == Strips!WithoutTab(s, id)
         IN  StripSound(t) /\ IdsOf(t.tabs) \subseteq IdsOf(s.tabs)
<1> DEFINE i    == Strips!IndexOfTab(s, id)
           rest == Strips!RemoveAt(s.tabs, i)
           next == IF rest = <<>> THEN None
                   ELSE rest[IF i <= Len(rest) THEN i ELSE Len(rest)].id
           t    == Strips!WithoutTab(s, id)
<1>1. /\ i \in 1..Len(s.tabs) /\ s.tabs[i].id = id /\ s.tabs \in Seq(TabSet) /\ Len(s.tabs) \in Nat
      /\ \A j \in 1..Len(s.tabs) : s.tabs[j].id = id => j = i
  BY TabPlace DEF StripSound
<1>2. t = [s EXCEPT !.tabs = rest, !.active = IF s.active = id THEN next ELSE s.active]
  BY DEF Strips!WithoutTab
<1> HIDE DEF i, t
<1>3. /\ rest \in Seq(TabSet) /\ Len(rest) = Len(s.tabs) - 1
      /\ \A j \in 1..Len(rest) : rest[j] = s.tabs[IF j < i THEN j ELSE j + 1]
  <2> DEFINE a == SubSeq(s.tabs, 1, i - 1)
             b == SubSeq(s.tabs, i + 1, Len(s.tabs))
  <2>1. /\ a \in Seq(TabSet) /\ Len(a) = i - 1 /\ \A j \in 1..(i - 1) : a[j] = s.tabs[j]
    BY <1>1
  <2>2. /\ b \in Seq(TabSet) /\ Len(b) = Len(s.tabs) - i
        /\ \A j \in 1..(Len(s.tabs) - i) : b[j] = s.tabs[i + j]
    BY <1>1
  <2>3. rest = a \o b
    BY DEF Strips!RemoveAt
  <2> HIDE DEF a, b, rest
  <2>4. rest \in Seq(TabSet) /\ Len(rest) = Len(s.tabs) - 1
    <3>1. rest \in Seq(TabSet) /\ Len(rest) = Len(a) + Len(b)
      BY <2>1, <2>2, <2>3, ConcatProperties
    <3> QED BY <1>1, <2>1, <2>2, <3>1
  <2>5. ASSUME NEW j \in 1..Len(rest) PROVE rest[j] = s.tabs[IF j < i THEN j ELSE j + 1]
    <3>1. CASE j < i
      BY <1>1, <2>1, <2>2, <2>3, <2>4, <3>1
    <3>2. CASE j >= i
      <4>1. rest[j] = b[j - (i - 1)] /\ j - (i - 1) \in 1..(Len(s.tabs) - i)
        BY <1>1, <2>1, <2>2, <2>3, <2>4, <3>2
      <4>2. i + (j - (i - 1)) = j + 1
        BY <1>1, <3>2
      <4>3. rest[j] = s.tabs[j + 1]
        BY <2>2, <4>1, <4>2
      <4> QED BY <1>1, <3>2, <4>3
    <3> QED BY <1>1, <3>1, <3>2
  <2> QED BY <2>4, <2>5
<1> HIDE DEF rest
<1>4. IdsDistinct(rest)
  <2> SUFFICES ASSUME NEW j \in 1..Len(rest), NEW k \in 1..Len(rest), rest[j].id = rest[k].id PROVE j = k
    BY DEF IdsDistinct
  <2> DEFINE J == IF j < i THEN j ELSE j + 1
             K == IF k < i THEN k ELSE k + 1
  <2>1. J \in 1..Len(s.tabs) /\ K \in 1..Len(s.tabs)
    BY <1>1, <1>3
  <2>2. s.tabs[J].id = s.tabs[K].id
    BY <1>3
  <2>3. J = K
    BY <2>1, <2>2 DEF StripSound, IdsDistinct
  <2> QED BY <1>1, <1>3, <2>3
<1>5. IdsOf(rest) \subseteq IdsOf(s.tabs)
  <2> SUFFICES ASSUME NEW j \in 1..Len(rest) PROVE rest[j].id \in IdsOf(s.tabs)
    BY DEF IdsOf
  <2>1. (IF j < i THEN j ELSE j + 1) \in 1..Len(s.tabs)
    BY <1>1, <1>3
  <2> QED BY <1>3, <2>1 DEF IdsOf
<1>6. IdsOf(s.tabs) \subseteq IdsOf(rest) \cup {id}
  <2> SUFFICES ASSUME NEW k \in 1..Len(s.tabs), s.tabs[k].id # id PROVE s.tabs[k].id \in IdsOf(rest)
    BY DEF IdsOf
  <2> DEFINE j == IF k < i THEN k ELSE k - 1
  <2>1. j \in 1..Len(rest) /\ (IF j < i THEN j ELSE j + 1) = k
    BY <1>1, <1>3
  <2> QED BY <1>3, <2>1 DEF IdsOf
<1>7. next \in IdsOf(rest) \cup {None} /\ (next = None <=> rest = <<>>)
  <2>1. ASSUME rest # <<>> PROVE (IF i <= Len(rest) THEN i ELSE Len(rest)) \in 1..Len(rest)
    BY <1>1, <1>3, <2>1
  <2> QED BY <1>3, <2>1, IdsThere DEF IdsOf
<1> DEFINE active == IF s.active = id THEN next ELSE s.active
<1>8. active \in IdsOf(rest) \cup {None} /\ (active = None <=> rest = <<>>)
  BY <1>1, <1>3, <1>6, <1>7, IdsThere DEF StripSound
<1> HIDE DEF next, active
<1>9. t.tabs = rest /\ t.active = active
      /\ t \in [tabs : Seq(TabSet), active : IdSet \cup {None}, hydrated : BOOLEAN]
  <2>1. active \in IdSet \cup {None}
    BY <1>3, <1>8, IdsThere
  <2> QED BY <1>2, <1>3, <2>1 DEF StripSound, active
<1> QED BY <1>3, <1>4, <1>5, <1>8, <1>9 DEF StripSound, t

LEMMA TabFocused ==
  ASSUME NEW s, StripSound(s), NEW id \in IdsOf(s.tabs)
  PROVE  LET t == [s EXCEPT !.active = id] IN StripSound(t) /\ t.tabs = s.tabs
<1> DEFINE t == [s EXCEPT !.active = id]
<1>1. id \in IdSet /\ id # None /\ s.tabs # <<>>
  BY IdsThere DEF StripSound
<1>2. /\ t.tabs = s.tabs /\ t.active = id
      /\ t \in [tabs : Seq(TabSet), active : IdSet \cup {None}, hydrated : BOOLEAN]
  BY <1>1 DEF StripSound
<1> QED BY <1>1, <1>2 DEF StripSound

\* The same tabs under other titles.
LEMMA TabsTitled ==
  ASSUME NEW tabs \in Seq(TabSet), IdsDistinct(tabs), NEW q \in Seq(TabSet), Len(q) = Len(tabs),
         \A i \in 1..Len(tabs) : q[i].id = tabs[i].id
  PROVE  IdsDistinct(q) /\ IdsOf(q) = IdsOf(tabs) /\ (q = <<>> <=> tabs = <<>>)
<1>1. IdsDistinct(q) /\ IdsOf(q) = IdsOf(tabs)
  BY DEF IdsDistinct, IdsOf
<1> QED BY <1>1, IdsThere

LEMMA TabRenamed ==
  ASSUME NEW s, StripSound(s), NEW id \in IdsOf(s.tabs)
  PROVE  LET t == [s EXCEPT !.tabs[Strips!IndexOfTab(s, id)].title = "chosen"]
         IN  StripSound(t) /\ IdsOf(t.tabs) = IdsOf(s.tabs)
<1> DEFINE i == Strips!IndexOfTab(s, id)
           q == [s.tabs EXCEPT ![i].title = "chosen"]
           t == [s EXCEPT !.tabs[i].title = "chosen"]
<1>1. i \in 1..Len(s.tabs) /\ s.tabs \in Seq(TabSet) /\ IdsDistinct(s.tabs)
  BY TabPlace DEF StripSound
<1> HIDE DEF i
<1>2. s.tabs[i] \in TabSet
  BY <1>1
<1>3. [s.tabs[i] EXCEPT !.title = "chosen"] \in TabSet
      /\ [s.tabs[i] EXCEPT !.title = "chosen"].id = s.tabs[i].id
  BY <1>2 DEF TabSet
<1>4. /\ q \in Seq(TabSet) /\ Len(q) = Len(s.tabs)
      /\ \A j \in 1..Len(s.tabs) : q[j].id = s.tabs[j].id
  BY <1>1, <1>3, ExceptSeq
<1>5. IdsDistinct(q) /\ IdsOf(q) = IdsOf(s.tabs) /\ (q = <<>> <=> s.tabs = <<>>)
  <2> HIDE DEF q
  <2> QED BY <1>1, <1>4, TabsTitled
<1>6. t = [s EXCEPT !.tabs = q]
  BY DEF StripSound
<1> HIDE DEF q, t
<1>7. /\ t.tabs = q /\ t.active = s.active
      /\ t \in [tabs : Seq(TabSet), active : IdSet \cup {None}, hydrated : BOOLEAN]
  BY <1>4, <1>6 DEF StripSound
<1>8. StripSound(t) /\ IdsOf(t.tabs) = IdsOf(s.tabs)
  BY <1>5, <1>7 DEF StripSound
<1> QED BY <1>8 DEF t, i

LEMMA TabRestarted ==
  ASSUME NEW s, StripSound(s), NEW old \in IdsOf(s.tabs), NEW new \in IdSet, new \notin IdsOf(s.tabs)
  PROVE  LET t == Strips!Restarted(s, old, new)
         IN  StripSound(t) /\ IdsOf(t.tabs) = (IdsOf(s.tabs) \ {old}) \cup {new}
<1> DEFINE i == Strips!IndexOfTab(s, old)
           q == [s.tabs EXCEPT ![i].id = new]
           active == IF s.active = old THEN new ELSE s.active
           t == Strips!Restarted(s, old, new)
<1>1. /\ i \in 1..Len(s.tabs) /\ s.tabs \in Seq(TabSet) /\ IdsDistinct(s.tabs) /\ s.tabs[i].id = old
      /\ \A j \in 1..Len(s.tabs) : s.tabs[j].id = old => j = i
  BY TabPlace DEF StripSound
<1> HIDE DEF i
<1>2. s.tabs[i] \in TabSet
  BY <1>1
<1>3. [s.tabs[i] EXCEPT !.id = new] \in TabSet /\ [s.tabs[i] EXCEPT !.id = new].id = new
  BY <1>2 DEF TabSet
<1>4. /\ q \in Seq(TabSet) /\ Len(q) = Len(s.tabs)
      /\ \A j \in 1..Len(s.tabs) : q[j] = IF j = i THEN [s.tabs[i] EXCEPT !.id = new] ELSE s.tabs[j]
  BY <1>1, <1>3, ExceptSeq
<1>5. /\ q[i].id = new
      /\ \A j \in 1..Len(s.tabs) : j # i => q[j].id = s.tabs[j].id
  BY <1>1, <1>3, <1>4
<1>6. t = [s EXCEPT !.tabs = q, !.active = active]
  BY DEF StripSound, Strips!Restarted, i
<1> HIDE DEF q, t
<1>7. IdsDistinct(q)
  <2> SUFFICES ASSUME NEW j \in 1..Len(q), NEW k \in 1..Len(q), q[j].id = q[k].id PROVE j = k
    BY DEF IdsDistinct
  <2>1. \A l \in 1..Len(s.tabs) : s.tabs[l].id # new
    BY DEF IdsOf
  <2> QED BY <1>1, <1>4, <1>5, <2>1 DEF IdsDistinct
<1>8. IdsOf(q) = (IdsOf(s.tabs) \ {old}) \cup {new}
  BY <1>1, <1>4, <1>5 DEF IdsOf
<1>9. q # <<>> /\ s.active # None /\ s.active \in IdsOf(s.tabs) /\ new # None
  BY <1>1, <1>4, NoneIsNoId, IdsThere DEF StripSound
<1>10. active \in IdsOf(q) /\ active # None /\ active \in IdSet
  BY <1>8, <1>9, IdsThere, <1>1
<1> HIDE DEF active
<1>11. /\ t.tabs = q /\ t.active = active
       /\ t \in [tabs : Seq(TabSet), active : IdSet \cup {None}, hydrated : BOOLEAN]
  BY <1>4, <1>6, <1>10 DEF StripSound
<1>12. StripSound(t) /\ IdsOf(t.tabs) = (IdsOf(s.tabs) \ {old}) \cup {new}
  BY <1>7, <1>8, <1>9, <1>10, <1>11 DEF StripSound
<1> QED BY <1>12 DEF t, i

\* The focus that is left to a strip of tabs.
LEMMA FocusLeft ==
  ASSUME NEW tabs \in Seq(TabSet), NEW wanted
  PROVE  LET active == IF wanted \in {t.id : t \in Strips!ToSet(tabs)} THEN wanted ELSE Strips!FirstOr(tabs)
         IN  /\ active \in IdsOf(tabs) \cup {None} /\ active \in IdSet \cup {None}
             /\ active = None <=> tabs = <<>>
<1>1. {t.id : t \in Strips!ToSet(tabs)} = IdsOf(tabs)
  BY IdsThere, ElementsAre
<1>2. tabs # <<>> => tabs[1].id \in IdsOf(tabs)
  BY DEF IdsOf
<1> QED BY <1>1, <1>2, IdsThere DEF Strips!FirstOr

ChatIds == {id \in IdSet : id.kind = "chat"}

LEMMA ChatsListed ==
  ASSUME NEW s, StripSound(s), NEW chats \in Seq(ChatIds), Injective(chats)
  PROVE  LET t == Strips!ScopeChats(s, chats)
         IN  StripSound(t) /\ IdsOf(t.tabs) \subseteq IdsOf(s.tabs) \cup Elements(chats, Len(chats))
<1> DEFINE kept   == Strips!Only(s.tabs, {t \in Strips!ToSet(s.tabs) :
                                            t.id.kind # "chat" \/ t.id \in Strips!ToSet(chats)})
           titled == [i \in DOMAIN kept |-> IF kept[i].id.kind = "chat" THEN Strips!Tab(kept[i].id) ELSE kept[i]]
           addAll == Strips!ChatTabs([s EXCEPT !.tabs = kept]) = <<>> /\ chats # <<>>
           added  == [i \in DOMAIN chats |-> Strips!Tab(chats[i])]
           tabs   == IF addAll THEN titled \o added ELSE titled
           first  == IF addAll /\ s.active = None THEN Strips!FirstOr(tabs) ELSE s.active
           active == IF first \in {t.id : t \in Strips!ToSet(tabs)} THEN first ELSE Strips!FirstOr(tabs)
<1>1. Strips!ScopeChats(s, chats) = Strips!Scope(tabs, active, TRUE)
  BY DEF Strips!ScopeChats
<1>2. /\ kept \in Seq(TabSet) /\ IdsDistinct(kept) /\ IdsOf(kept) \subseteq IdsOf(s.tabs)
  BY TabsFiltered DEF StripSound
<1> HIDE DEF kept
<1>3. \A id \in IdSet : Strips!Tab(id) \in TabSet /\ Strips!Tab(id).id = id
  BY DEF Strips!Tab, TabSet
<1>4. /\ titled \in Seq(TabSet) /\ Len(titled) = Len(kept)
      /\ \A i \in 1..Len(kept) : titled[i].id = kept[i].id
  <2>0. \A t \in TabSet : t.id \in IdSet
    BY DEF TabSet
  <2>1. \A i \in 1..Len(kept) : kept[i] \in TabSet /\ kept[i].id \in IdSet
    BY <1>2, <2>0
  <2>2. DOMAIN kept = 1..Len(kept) /\ Len(kept) \in Nat
    BY <1>2
  <2>3. titled \in [1..Len(kept) -> TabSet]
        /\ \A i \in 1..Len(kept) : titled[i].id = kept[i].id
    BY <1>3, <2>1, <2>2
  <2> HIDE DEF titled
  <2> QED BY <2>2, <2>3
<1> HIDE DEF titled
<1>5. IdsDistinct(titled) /\ IdsOf(titled) = IdsOf(kept)
  BY <1>2, <1>4, TabsTitled
<1>6. /\ added \in Seq(TabSet) /\ Len(added) = Len(chats)
      /\ \A i \in 1..Len(chats) : added[i].id = chats[i] /\ chats[i] \in ChatIds
  <2>1. \A i \in 1..Len(chats) : chats[i] \in ChatIds /\ chats[i] \in IdSet
    BY DEF ChatIds
  <2>2. DOMAIN chats = 1..Len(chats)
    OBVIOUS
  <2> QED BY <1>3, <2>1, <2>2
<1> HIDE DEF added
<1>7. ASSUME addAll PROVE \A i \in 1..Len(kept) : kept[i].id.kind # "chat"
  <2> DEFINE u    == [s EXCEPT !.tabs = kept]
             them == {t \in Strips!ToSet(kept) : t.id.kind = "chat"}
  <2>1. u.tabs = kept
    BY DEF StripSound
  <2>2. Strips!Only(kept, them) = <<>>
    BY <1>7, <2>1 DEF Strips!ChatTabs
  <2>3. Elements(kept, Len(kept)) \cap them = {}
    <3> HIDE DEF them
    <3> QED BY <1>2, <2>2, TabsFiltered DEF Elements
  <2> QED BY <1>2, <2>3, ElementsAre DEF Elements
<1>8. tabs \in Seq(TabSet) /\ IdsDistinct(tabs) /\ IdsOf(tabs) \subseteq IdsOf(s.tabs) \cup Elements(chats, Len(chats))
  <2>1. CASE ~addAll
    BY <1>2, <1>4, <1>5, <2>1
  <2>2. CASE addAll
    <3>1. tabs = titled \o added
      BY <2>2
    <3> HIDE DEF tabs, addAll
    <3>2. /\ tabs \in Seq(TabSet) /\ Len(tabs) = Len(kept) + Len(chats)
          /\ \A i \in 1..Len(tabs) : tabs[i] = IF i <= Len(kept) THEN titled[i] ELSE added[i - Len(kept)]
      <4>1. /\ titled \o added \in Seq(TabSet) /\ Len(titled \o added) = Len(titled) + Len(added)
            /\ \A i \in 1..(Len(titled) + Len(added)) :
                 (titled \o added)[i] = IF i <= Len(titled) THEN titled[i] ELSE added[i - Len(titled)]
        <5>1. titled \in Seq(TabSet) /\ added \in Seq(TabSet)
          BY <1>4, <1>6
        <5> QED BY <5>1, ConcatProperties, Zenon
      <4>2. /\ tabs \in Seq(TabSet) /\ Len(tabs) = Len(titled) + Len(added)
            /\ \A i \in 1..(Len(titled) + Len(added)) :
                 tabs[i] = IF i <= Len(titled) THEN titled[i] ELSE added[i - Len(titled)]
        BY <3>1, <4>1, Zenon
      <4>3. Len(titled) = Len(kept) /\ Len(added) = Len(chats)
        BY <1>4, <1>6
      <4> HIDE DEF first, active
      <4> QED BY <4>2, <4>3
    <3>3. \A i \in 1..Len(tabs) : /\ i <= Len(kept) => i \in 1..Len(kept) /\ tabs[i].id = kept[i].id
                                  /\ i > Len(kept) => /\ i - Len(kept) \in 1..Len(chats)
                                                      /\ tabs[i].id = chats[i - Len(kept)]
      <4> SUFFICES ASSUME NEW i \in 1..Len(tabs)
                   PROVE  /\ i <= Len(kept) => i \in 1..Len(kept) /\ tabs[i].id = kept[i].id
                          /\ i > Len(kept) => /\ i - Len(kept) \in 1..Len(chats)
                                              /\ tabs[i].id = chats[i - Len(kept)]
        OBVIOUS
      <4>1. Len(kept) \in Nat /\ Len(chats) \in Nat /\ i \in Nat
        BY <1>2, <3>2
      <4>2. i > Len(kept) => i - Len(kept) \in 1..Len(chats)
        BY <3>2, <4>1
      <4>3. ASSUME i <= Len(kept) PROVE i \in 1..Len(kept) /\ tabs[i].id = kept[i].id
        <5>1. i \in 1..Len(kept) /\ tabs[i] = titled[i]
          BY <3>2, <4>1, <4>3
        <5> QED BY <1>4, <5>1
      <4>4. ASSUME i > Len(kept) PROVE tabs[i].id = chats[i - Len(kept)]
        <5>1. tabs[i] = added[i - Len(kept)]
          BY <3>2, <4>1, <4>4
        <5> QED BY <1>6, <4>2, <4>4, <5>1
      <4> QED BY <4>2, <4>3, <4>4
    <3>4. \A i \in 1..Len(kept) : kept[i].id.kind # "chat"
      BY <1>7, <2>2 DEF addAll
    <3>5. \A i \in 1..Len(chats) : chats[i].kind = "chat" /\ chats[i] \in Elements(chats, Len(chats))
      BY <1>6 DEF ChatIds, Elements
    <3>6. Len(kept) \in Nat /\ Len(tabs) \in Nat
      BY <1>2, <3>2
    <3>7. IdsDistinct(tabs)
      <4> SUFFICES ASSUME NEW i \in 1..Len(tabs), NEW j \in 1..Len(tabs), tabs[i].id = tabs[j].id PROVE i = j
        BY DEF IdsDistinct
      <4>1. CASE i <= Len(kept) /\ j <= Len(kept)
        BY <1>2, <3>3, <4>1 DEF IdsDistinct
      <4>2. CASE i > Len(kept) /\ j > Len(kept)
        <5>1. i - Len(kept) = j - Len(kept)
          BY <3>3, <4>2 DEF Injective
        <5> QED BY <3>6, <5>1
      <4>3. CASE i <= Len(kept) /\ j > Len(kept)
        BY <3>3, <3>4, <3>5, <4>3
      <4>4. CASE i > Len(kept) /\ j <= Len(kept)
        BY <3>3, <3>4, <3>5, <4>4
      <4> QED BY <3>6, <4>1, <4>2, <4>3, <4>4
    <3>8. \A i \in 1..Len(tabs) : tabs[i].id \in IdsOf(kept) \cup Elements(chats, Len(chats))
      BY <3>3, <3>5, <3>6 DEF IdsOf
    <3> QED BY <1>2, <3>2, <3>7, <3>8 DEF IdsOf
  <2> QED BY <2>1, <2>2
<1> HIDE DEF tabs, addAll, first
<1>9. active \in IdsOf(tabs) \cup {None} /\ active \in IdSet \cup {None} /\ (active = None <=> tabs = <<>>)
  BY <1>8, FocusLeft
<1> HIDE DEF active
<1> QED BY <1>1, <1>8, <1>9 DEF StripSound, Strips!Scope

\* What is read back from a stored layout.
LEMMA LayoutRead ==
  ASSUME NEW blob, StripSound(blob)
  PROVE  LET t == Strips!Hydrated(blob)
         IN  /\ StripSound(t) /\ IdsOf(t.tabs) \subseteq IdsOf(blob.tabs)
             /\ \A id \in IdsOf(t.tabs) : ~Strips!OldDb(id)
             /\ (\A id \in IdsOf(blob.tabs) : ~Strips!OldDb(id)) => t = blob
<1> DEFINE kept   == {t \in Strips!ToSet(blob.tabs) : ~Strips!OldDb(t.id)}
           tabs   == Strips!Only(blob.tabs, kept)
           active == IF blob.active \in {t.id : t \in Strips!ToSet(tabs)} THEN blob.active ELSE Strips!FirstOr(tabs)
           u      == [blob EXCEPT !.tabs = tabs, !.active = active]
<1>1. Strips!Hydrated(blob) = IF tabs = blob.tabs THEN blob ELSE u
  BY DEF Strips!Hydrated
<1>2. blob.tabs \in Seq(TabSet) /\ IdsDistinct(blob.tabs)
  BY DEF StripSound
<1>3. Strips!ToSet(blob.tabs) = Elements(blob.tabs, Len(blob.tabs))
  BY <1>2, ElementsAre
<1>4. /\ tabs \in Seq(TabSet) /\ IdsDistinct(tabs) /\ IdsOf(tabs) \subseteq IdsOf(blob.tabs)
      /\ Elements(tabs, Len(tabs)) = Elements(blob.tabs, Len(blob.tabs)) \cap kept
      /\ Elements(blob.tabs, Len(blob.tabs)) \subseteq kept => tabs = blob.tabs
  <2> HIDE DEF kept
  <2> QED BY <1>2, TabsFiltered
<1> HIDE DEF tabs
<1>5. \A id \in IdsOf(tabs) : ~Strips!OldDb(id)
  BY <1>4, IdsThere
<1>6. (\A id \in IdsOf(blob.tabs) : ~Strips!OldDb(id)) => tabs = blob.tabs
  BY <1>2, <1>3, <1>4, IdsThere
<1>7. active \in IdsOf(tabs) \cup {None} /\ active \in IdSet \cup {None} /\ (active = None <=> tabs = <<>>)
  BY <1>4, FocusLeft
<1> HIDE DEF active
<1>8. /\ u.tabs = tabs /\ u.active = active
      /\ u \in [tabs : Seq(TabSet), active : IdSet \cup {None}, hydrated : BOOLEAN]
  BY <1>4, <1>7 DEF StripSound
<1>9. StripSound(u)
  BY <1>4, <1>7, <1>8 DEF StripSound
<1> HIDE DEF u
<1> QED BY <1>1, <1>4, <1>5, <1>6, <1>8, <1>9

LEMMA TabsCounted ==
  ASSUME NEW s, StripSound(s)
  PROVE  Cardinality(Strips!TabIds(s)) = Len(s.tabs)
<1> DEFINE n == Len(s.tabs)
           f == [i \in 1..n |-> s.tabs[i].id]
<1>1. n \in Nat
  BY DEF StripSound
<1>2. ExistsBijection(1..n, IdsOf(s.tabs))
  <2>1. f \in [1..n -> IdsOf(s.tabs)]
    BY DEF IdsOf
  <2>2. \A i, j \in 1..n : f[i] = f[j] => i = j
    BY DEF StripSound, IdsDistinct
  <2>3. \A id \in IdsOf(s.tabs) : \E i \in 1..n : f[i] = id
    BY DEF IdsOf
  <2> HIDE DEF f, n
  <2>4. f \in Bijection(1..n, IdsOf(s.tabs))
    BY <2>1, <2>2, <2>3 DEF Bijection, Injection, Surjection, IsInjective
  <2> QED BY <2>4 DEF ExistsBijection
<1> HIDE DEF n
<1>3. IsFiniteSet(1..n) /\ Cardinality(1..n) = n
  <2>1. IsFiniteSet(1..n) /\ Cardinality(1..n) = IF 1 > n THEN 0 ELSE n - 1 + 1
    BY <1>1, FS_Interval
  <2> QED BY <1>1, <2>1
<1>4. Cardinality(IdsOf(s.tabs)) = n
  BY <1>2, <1>3, FS_Bijection
<1> QED BY <1>4, TabIdsAre DEF n

-----------------------------------------------------------------------------
(* The strips of all scopes, and what is under way beside them.            *)

\* Ids are counted down: those given out are above what is left.
Made(id, made) == id.kind = "db" \/ id.n = 0 \/ id.n > made

AtHome(id, k, away) == id.home \in {k, None} \/ id \in away

StripAt(s, k, made, away) ==
  StripSound(s) /\ \A id \in IdsOf(s.tabs) : Made(id, made) /\ AtHome(id, k, away)

StripsAt(sc, made, away) ==
  sc = [k \in Keys |-> sc[k]] /\ \A k \in Keys : StripAt(sc[k], k, made, away)

NoOldDbs(sc) == \A k \in Keys : \A id \in IdsOf(sc[k].tabs) : ~Strips!OldDb(id)

\* What is not stored has its timer.
Stored(sc, running, stored) == \A k \in Keys : k \in running \/ sc[k] = Strips!Hydrated(stored[k])

ChatList(q, k, made) ==
  q \in Seq(ChatIds) /\ Injective(q) /\ \A i \in 1..Len(q) : q[i].home = k /\ Made(q[i], made)

ChatLists(lists, made) ==
  lists = [k \in Keys |-> lists[k]] /\ \A k \in Keys : ChatList(lists[k], k, made)

CallFields == {"kind", "key", "arg", "moved"}

StripCall(c, here, made) ==
  /\ CallFields \subseteq DOMAIN c /\ c.key \in Keys /\ c.moved \in BOOLEAN
  /\ c.kind = "create" => /\ c.arg \in IdSet /\ c.arg.kind \in {"chat", "terminal"} /\ Made(c.arg, made)
                          /\ c.arg.home = c.key /\ (~c.moved => c.key = here)
  /\ c.kind = "restart" => /\ c.arg.old \in IdSet /\ c.arg.new \in IdSet /\ c.arg.new.kind = "terminal"
                           /\ Made(c.arg.new, made) /\ c.arg.new.home = c.arg.old.home
  /\ c.kind \in {"seed", "refresh"} => ChatList(c.arg, c.key, made)

StripCalls(cs, here, made) == \A c \in cs : StripCall(c, here, made)

\* The id that a restart waits to give is nowhere else.
NewsApart(cs) ==
  \A c \in cs : c.kind = "restart" =>
    \A d \in cs : /\ d.kind = "create" => d.arg # c.arg.new
                  /\ d.kind = "restart" /\ d.arg.new = c.arg.new => d = c

NewsUnused(cs, sc) ==
  \A c \in cs : c.kind = "restart" => \A k \in Keys : c.arg.new \notin IdsOf(sc[k].tabs)

Reasserted(rs, made) ==
  \A r \in rs : /\ r.key \in Keys /\ r.id \in ChatIds
                /\ r.id.home = r.key /\ Made(r.id, made)

StripsInv ==
  /\ current \in Keys /\ armed \subseteq Keys
  /\ "made" \in DOMAIN left /\ left.made \in Nat
  /\ StripsAt(scopes, left.made, strays) /\ NoOldDbs(scopes)
  /\ StripsAt(saved, left.made, strays)
  /\ Stored(scopes, armed, saved)
  /\ ChatLists(listed, left.made)
  /\ StripCalls(calls, current, left.made) /\ NewsApart(calls) /\ NewsUnused(calls, scopes)
  /\ Reasserted(reasserts, left.made)

\* What has been given out stays given out.
LEMMA MadeStays ==
  ASSUME NEW id \in IdSet, NEW m \in Nat, NEW n \in Nat, n <= m, Made(id, m)
  PROVE  Made(id, n)
BY DEF Made, IdSet

LEMMA ListStays ==
  ASSUME NEW m \in Nat, NEW n \in Nat, n <= m, NEW q, NEW k, ChatList(q, k, m)
  PROVE  ChatList(q, k, n)
<1>1. \A i \in 1..Len(q) : q[i] \in IdSet
  BY DEF ChatList, ChatIds
<1> QED BY <1>1, MadeStays DEF ChatList

LEMMA StripsStay ==
  ASSUME NEW m \in Nat, NEW n \in Nat, n <= m, NEW away, NEW gone, away \subseteq gone,
         NEW sc, StripsAt(sc, m, away)
  PROVE  StripsAt(sc, n, gone)
<1> SUFFICES ASSUME NEW k \in Keys, NEW id \in IdsOf(sc[k].tabs) PROVE Made(id, n) /\ AtHome(id, k, gone)
  BY DEF StripsAt, StripAt
<1>1. id \in IdSet /\ Made(id, m) /\ AtHome(id, k, away)
  BY IdsThere DEF StripsAt, StripAt, StripSound
<1> QED BY <1>1, MadeStays DEF AtHome

\* How a step leaves what it does not touch.
Later ==
  "made" \in DOMAIN left' /\ left'.made \in Nat /\ left'.made <= left.made /\ strays \subseteq strays'

LEMMA StripsFrame ==
  ASSUME StripsInv, Later
  PROVE  /\ StripsAt(scopes, left'.made, strays') /\ StripsAt(saved, left'.made, strays')
         /\ ChatLists(listed, left'.made)
         /\ StripCalls(calls, current, left'.made)
         /\ Reasserted(reasserts, left'.made)
<1>1. left.made \in Nat /\ left'.made \in Nat /\ left'.made <= left.made /\ strays \subseteq strays'
  BY DEF StripsInv, Later
<1> DEFINE n == left'.made
           gone == strays'
<1>2. n \in Nat /\ n <= left.made /\ strays \subseteq gone
  BY <1>1
<1> HIDE DEF n, gone
<1>3. StripsAt(scopes, n, gone) /\ StripsAt(saved, n, gone)
  BY <1>1, <1>2, StripsStay DEF StripsInv
<1>4. ChatLists(listed, n)
  BY <1>1, <1>2, ListStays DEF StripsInv, ChatLists
<1>5. StripCalls(calls, current, n)
  <2> SUFFICES ASSUME NEW c \in calls PROVE StripCall(c, current, n)
    BY DEF StripCalls
  <2>1. StripCall(c, current, left.made)
    BY DEF StripsInv, StripCalls
  <2>2. c.kind = "create" => Made(c.arg, n)
    BY <1>1, <1>2, <2>1, MadeStays DEF StripCall
  <2>3. c.kind = "restart" => Made(c.arg.new, n)
    BY <1>1, <1>2, <2>1, MadeStays DEF StripCall
  <2>4. c.kind \in {"seed", "refresh"} => ChatList(c.arg, c.key, n)
    BY <1>1, <1>2, <2>1, ListStays DEF StripCall
  <2> QED BY <2>1, <2>2, <2>3, <2>4 DEF StripCall
<1>6. Reasserted(reasserts, n)
  <2> SUFFICES ASSUME NEW r \in reasserts PROVE Made(r.id, n)
    BY DEF StripsInv, Reasserted
  <2>1. r.id \in IdSet /\ Made(r.id, left.made)
    BY DEF StripsInv, Reasserted, ChatIds
  <2> QED BY <1>1, <1>2, <2>1, MadeStays
<1> QED BY <1>3, <1>4, <1>5, <1>6 DEF n, gone

StripsFollow ==
  /\ armed' \subseteq Keys
  /\ StripsAt(scopes', left'.made, strays') /\ NoOldDbs(scopes')
  /\ StripsAt(saved', left'.made, strays')
  /\ Stored(scopes', armed', saved')
  /\ NewsUnused(calls', scopes')

\* A strip changes: what it gets is at home there, and given out.
LEMMA StripBecomes ==
  ASSUME StripsInv, Later, NEW k \in Keys, NEW t, StripSound(t), NEW more,
         IdsOf(t.tabs) \subseteq IdsOf(scopes[k].tabs) \cup more,
         \A id \in more : Made(id, left'.made) /\ AtHome(id, k, strays') /\ ~Strips!OldDb(id),
         \A c \in calls' : c.kind = "restart" =>
           c.arg.new \notin more /\ \A j \in Keys : c.arg.new \notin IdsOf(scopes[j].tabs),
         Strips!Change(k, t), saved' = saved
  PROVE  StripsFollow
<1>1. scopes' = [scopes EXCEPT ![k] = t] /\ armed' = armed \cup {k}
  BY DEF Strips!Change
<1>2. StripsAt(scopes, left'.made, strays') /\ StripsAt(saved, left'.made, strays')
  BY StripsFrame
<1>3. scopes' = [j \in Keys |-> IF j = k THEN t ELSE scopes[j]]
  BY <1>1, <1>2 DEF StripsAt
<1>4. StripAt(t, k, left'.made, strays')
  BY <1>2 DEF StripsAt, StripAt
<1>5. StripsAt(scopes', left'.made, strays')
  BY <1>2, <1>3, <1>4 DEF StripsAt
<1>6. NoOldDbs(scopes')
  BY <1>3 DEF NoOldDbs, StripsInv
<1>7. Stored(scopes', armed', saved')
  BY <1>1, <1>3 DEF Stored, StripsInv
<1>8. NewsUnused(calls', scopes')
  BY <1>3 DEF NewsUnused
<1>9. armed' \subseteq Keys
  BY <1>1 DEF StripsInv
<1> QED BY <1>2, <1>5, <1>6, <1>7, <1>8, <1>9 DEF StripsFollow

LEMMA StripsSpend ==
  ASSUME StripsInv, NEW what, Strips!Spend(what), strays \subseteq strays'
  PROVE  Later /\ (what # "made" => left'.made = left.made)
               /\ (what = "made" => left.made > 0 /\ left'.made = left.made - 1)
BY DEF StripsInv, Strips!Spend, Later

LEMMA StripsIdle == ASSUME StripsInv, left' = left, strays \subseteq strays' PROVE Later
BY DEF StripsInv, Later

\* A tab is opened, or gets the focus.
LEMMA TabBecomes ==
  ASSUME StripsInv, Later, NEW k \in Keys, NEW id \in IdSet,
         Made(id, left'.made), AtHome(id, k, strays'), ~Strips!OldDb(id),
         NewsUnused(calls', scopes), \A c \in calls' : c.kind = "restart" => c.arg.new # id,
         Strips!Change(k, Strips!WithTab(scopes[k], Strips!Tab(id))), saved' = saved
  PROVE  StripsFollow
<1> DEFINE t == Strips!WithTab(scopes[k], Strips!Tab(id))
<1>1. Strips!Tab(id) \in TabSet /\ Strips!Tab(id).id = id
  BY DEF Strips!Tab, TabSet
<1>2. StripSound(scopes[k])
  BY DEF StripsInv, StripsAt, StripAt
<1>3. StripSound(t) /\ IdsOf(t.tabs) = IdsOf(scopes[k].tabs) \cup {id}
  BY <1>1, <1>2, TabOpened
<1>4. Strips!Change(k, t)
  OBVIOUS
<1> HIDE DEF t
<1> DEFINE more == {id}
<1>5. IdsOf(t.tabs) \subseteq IdsOf(scopes[k].tabs) \cup more
  BY <1>3
<1>6. \A x \in more : Made(x, left'.made) /\ AtHome(x, k, strays') /\ ~Strips!OldDb(x)
  OBVIOUS
<1>7. \A c \in calls' : c.kind = "restart" =>
        c.arg.new \notin more /\ \A j \in Keys : c.arg.new \notin IdsOf(scopes[j].tabs)
  BY DEF NewsUnused
<1> HIDE DEF more
<1> QED BY <1>3, <1>4, <1>5, <1>6, <1>7, StripBecomes

\* A strip loses tabs, or keeps those it has.
LEMMA StripKeeps ==
  ASSUME StripsInv, Later, NEW k \in Keys, NEW t, StripSound(t),
         IdsOf(t.tabs) \subseteq IdsOf(scopes[k].tabs), NewsUnused(calls', scopes),
         Strips!Change(k, t), saved' = saved
  PROVE  StripsFollow
<1> DEFINE more == {}
<1>1. IdsOf(t.tabs) \subseteq IdsOf(scopes[k].tabs) \cup more
  OBVIOUS
<1>2. \A id : id \notin more
  OBVIOUS
<1> HIDE DEF more
<1> QED BY <1>1, <1>2, StripBecomes DEF NewsUnused

\* The chats of a strip are those listed.
LEMMA ChatsBecome ==
  ASSUME StripsInv, Later, NEW k \in Keys, NEW chats, ChatList(chats, k, left.made),
         calls' \subseteq calls,
         Strips!Change(k, Strips!ScopeChats(scopes[k], chats)), saved' = saved
  PROVE  StripsFollow
<1> DEFINE t    == Strips!ScopeChats(scopes[k], chats)
           more == Elements(chats, Len(chats))
<1>1. StripSound(scopes[k])
  BY DEF StripsInv, StripsAt, StripAt
<1>2. StripSound(t) /\ IdsOf(t.tabs) \subseteq IdsOf(scopes[k].tabs) \cup more
  BY <1>1, ChatsListed DEF ChatList
<1>3. left.made \in Nat /\ left'.made \in Nat /\ left'.made <= left.made
  BY DEF StripsInv, Later
<1>4. \A id \in more : /\ id.kind = "chat" /\ id.home = k
                       /\ Made(id, left'.made) /\ AtHome(id, k, strays') /\ ~Strips!OldDb(id)
  <2> SUFFICES ASSUME NEW i \in 1..Len(chats)
               PROVE  /\ chats[i].kind = "chat" /\ chats[i].home = k
                      /\ Made(chats[i], left'.made) /\ AtHome(chats[i], k, strays')
                      /\ ~Strips!OldDb(chats[i])
    BY DEF Elements
  <2>1. chats[i] \in IdSet /\ chats[i].kind = "chat" /\ chats[i].home = k /\ Made(chats[i], left.made)
    BY DEF ChatList, ChatIds
  <2>2. \A m \in Nat, n \in Nat : n <= m /\ Made(chats[i], m) => Made(chats[i], n)
    BY <2>1, MadeStays
  <2>3. Made(chats[i], left'.made)
    BY <1>3, <2>1, <2>2
  <2> QED BY <2>1, <2>3 DEF AtHome, Strips!OldDb
<1>5. \A c \in calls' : c.kind = "restart" =>
         c.arg.new \notin more /\ \A j \in Keys : c.arg.new \notin IdsOf(scopes[j].tabs)
  <2> SUFFICES ASSUME NEW c \in calls, c.kind = "restart"
               PROVE  c.arg.new \notin more /\ \A j \in Keys : c.arg.new \notin IdsOf(scopes[j].tabs)
    OBVIOUS
  <2>1. c.arg.new.kind = "terminal"
    BY DEF StripsInv, StripCalls, StripCall
  <2> HIDE DEF more
  <2> QED BY <1>4, <2>1 DEF StripsInv, NewsUnused
<1>6. Strips!Change(k, t)
  OBVIOUS
<1> HIDE DEF t, more
<1> QED BY <1>2, <1>4, <1>5, <1>6, StripBecomes

LEMMA ListFiltered ==
  ASSUME NEW q, NEW k, NEW made, ChatList(q, k, made), NEW kept
  PROVE  ChatList(Strips!Only(q, kept), k, made)
<1> DEFINE p == Strips!Only(q, kept)
<1>1. q \in Seq(ChatIds) /\ Injective(q)
  BY DEF ChatList
<1>2. HasKept(p, q, ChatIds, kept, Len(q))
  BY <1>1, OnlyKeeps
<1> HIDE DEF p
<1>3. p \in Seq(ChatIds) /\ Injective(p) /\ Elements(p, Len(p)) \subseteq Elements(q, Len(q))
  BY <1>1, <1>2 DEF HasKept
<1>4. \A i \in 1..Len(p) : \E j \in 1..Len(q) : q[j] = p[i]
  BY <1>3 DEF Elements
<1>5. ChatList(p, k, made)
  BY <1>3, <1>4 DEF ChatList
<1> QED BY <1>5 DEF p

\* The requests under way.
LEMMA CallsTaken ==
  ASSUME NEW cs, NEW ds \in SUBSET cs, NEW here, NEW made, NEW sc,
         StripCalls(cs, here, made), NewsApart(cs), NewsUnused(cs, sc)
  PROVE  StripCalls(ds, here, made) /\ NewsApart(ds) /\ NewsUnused(ds, sc)
BY DEF StripCalls, NewsApart, NewsUnused

LEMMA CallAdded ==
  ASSUME NEW cs, NEW here, NEW made, NEW sc, StripCalls(cs, here, made), NewsApart(cs), NewsUnused(cs, sc),
         NEW c, StripCall(c, here, made),
         c.kind = "create" => \A d \in cs : d.kind = "restart" => d.arg.new # c.arg,
         c.kind = "restart" => /\ \A k \in Keys : c.arg.new \notin IdsOf(sc[k].tabs)
                               /\ \A d \in cs : /\ d.kind = "create" => d.arg # c.arg.new
                                                /\ d.kind = "restart" => d.arg.new # c.arg.new
  PROVE  LET ds == cs \cup {c} IN StripCalls(ds, here, made) /\ NewsApart(ds) /\ NewsUnused(ds, sc)
<1>1. StripCalls(cs \cup {c}, here, made)
  BY DEF StripCalls
<1>2. NewsUnused(cs \cup {c}, sc)
  BY DEF NewsUnused
<1>3. NewsApart(cs \cup {c})
  <2> SUFFICES ASSUME NEW e \in cs \cup {c}, e.kind = "restart", NEW d \in cs \cup {c}
               PROVE  /\ d.kind = "create" => d.arg # e.arg.new
                      /\ d.kind = "restart" /\ d.arg.new = e.arg.new => d = e
    BY DEF NewsApart
  <2>1. CASE e \in cs /\ d \in cs
    BY <2>1 DEF NewsApart
  <2>2. CASE e = c /\ d = c
    BY <2>2
  <2>3. CASE e = c /\ d \in cs
    BY <2>3
  <2>4. CASE e \in cs /\ d = c
    BY <2>4
  <2> QED BY <2>1, <2>2, <2>3, <2>4
<1> QED BY <1>1, <1>2, <1>3

LEMMA CallsMove ==
  ASSUME NEW cs, NEW here, NEW there \in Keys, NEW made, NEW sc,
         StripCalls(cs, here, made), NewsApart(cs), NewsUnused(cs, sc),
         NEW ds, \A d \in ds : \E c \in cs : d = [c EXCEPT !.moved = @ \/ there # here]
  PROVE  StripCalls(ds, there, made) /\ NewsApart(ds) /\ NewsUnused(ds, sc)
<1> DEFINE Of(c) == [c EXCEPT !.moved = @ \/ there # here]
<1>1. \A c \in cs : /\ Of(c).kind = c.kind /\ Of(c).key = c.key /\ Of(c).arg = c.arg
                    /\ Of(c).moved = (c.moved \/ there # here) /\ CallFields \subseteq DOMAIN Of(c)
                    /\ StripCall(c, here, made)
  BY DEF StripCalls, StripCall, CallFields
<1>2. \A d \in ds : \E c \in cs : d = Of(c)
  OBVIOUS
<1> HIDE DEF Of
<1>3. StripCalls(ds, there, made)
  <2> SUFFICES ASSUME NEW d \in ds PROVE StripCall(d, there, made)
    BY DEF StripCalls
  <2>1. PICK c \in cs : d = Of(c)
    BY <1>2
  <2>2. /\ d.kind = c.kind /\ d.key = c.key /\ d.arg = c.arg
        /\ d.moved = (c.moved \/ there # here) /\ CallFields \subseteq DOMAIN d
        /\ StripCall(c, here, made)
    BY <1>1, <2>1
  <2> QED BY <2>2 DEF StripCall
<1>4. NewsUnused(ds, sc)
  BY <1>1, <1>2 DEF NewsUnused
<1>5. NewsApart(ds)
  <2> SUFFICES ASSUME NEW e \in ds, e.kind = "restart", NEW d \in ds
               PROVE  /\ d.kind = "create" => d.arg # e.arg.new
                      /\ d.kind = "restart" /\ d.arg.new = e.arg.new => d = e
    BY DEF NewsApart
  <2>1. PICK b \in cs : e = Of(b)
    BY <1>2
  <2>2. PICK c \in cs : d = Of(c)
    BY <1>2
  <2>3. b.kind = "restart" /\ d.kind = c.kind /\ d.arg = c.arg /\ e.arg = b.arg
    BY <1>1, <2>1, <2>2
  <2> QED BY <2>1, <2>2, <2>3 DEF NewsApart
<1> QED BY <1>3, <1>4, <1>5

LEMMA StripsInit == ASSUME Strips!Init PROVE StripsInv
<1>1. /\ current \in Keys /\ armed = {} /\ calls = {} /\ reasserts = {} /\ strays = {}
      /\ scopes = [k \in Keys |-> Strips!Hydrated(saved[k])]
      /\ listed = [k \in Keys |-> <<Strips!Id("chat", k, 0)>>]
      /\ left \in Budgets.tabstrip
  BY DEF Strips!Init
<1>2. PICK old \in SUBSET {current} :
         saved = [k \in Keys |-> IF k \in old THEN Strips!OldLayout(k) ELSE Strips!FreshScope]
  BY DEF Strips!Init
<1>3. "made" \in DOMAIN left /\ left.made \in Nat
  BY <1>1, BudgetsOK
<1>4. ASSUME NEW k \in Keys
      PROVE  StripAt(Strips!OldLayout(k), k, left.made, strays)
  <2> DEFINE x == Strips!Id("chat", k, 0)
             y == Strips!Id("db", k, 1)
             q == <<Strips!Tab(x), Strips!Tab(y)>>
             t == [tabs |-> q, active |-> y, hydrated |-> FALSE]
  <2>1. /\ x \in IdSet /\ y \in IdSet /\ x # y
        /\ Made(x, left.made) /\ Made(y, left.made) /\ AtHome(x, k, strays) /\ AtHome(y, k, strays)
    BY DEF Strips!Id, IdSet, Made, AtHome
  <2>2. t = Strips!OldLayout(k)
    BY DEF Strips!OldLayout, Strips!Scope
  <2> HIDE DEF x, y
  <2>3. /\ Strips!Tab(x) \in TabSet /\ Strips!Tab(x).id = x
        /\ Strips!Tab(y) \in TabSet /\ Strips!Tab(y).id = y
    BY <2>1 DEF Strips!Tab, TabSet
  <2>4. /\ q \in Seq(TabSet) /\ Len(q) = 2 /\ q[1].id = x /\ q[2].id = y
    BY <2>3
  <2> HIDE DEF q
  <2>5. IdsDistinct(q) /\ IdsOf(q) = {x, y}
    BY <2>1, <2>4 DEF IdsDistinct, IdsOf
  <2>6. q # <<>> /\ y # None
    BY <2>1, <2>4, NoneIsNoId
  <2>7. t.tabs = q /\ t.active = y /\ t \in [tabs : Seq(TabSet), active : IdSet \cup {None}, hydrated : BOOLEAN]
    BY <2>1, <2>4
  <2> HIDE DEF t
  <2>8. StripSound(t)
    BY <2>5, <2>6, <2>7 DEF StripSound
  <2> QED BY <2>1, <2>2, <2>5, <2>7, <2>8 DEF StripAt
<1>5. ASSUME NEW k \in Keys
      PROVE  StripAt(Strips!FreshScope, k, left.made, strays)
  <2> DEFINE t == Strips!FreshScope
  <2>1. t.tabs = <<>> /\ t.active = None
        /\ t \in [tabs : Seq(TabSet), active : IdSet \cup {None}, hydrated : BOOLEAN]
    BY DEF Strips!FreshScope, Strips!Scope
  <2> HIDE DEF t
  <2>2. IdsOf(t.tabs) = {} /\ IdsDistinct(t.tabs)
    BY <2>1 DEF IdsOf, IdsDistinct
  <2>3. StripAt(t, k, left.made, strays)
    BY <2>1, <2>2 DEF StripAt, StripSound
  <2> QED BY <2>3 DEF t
<1>6. StripsAt(saved, left.made, strays)
  BY <1>2, <1>4, <1>5 DEF StripsAt
<1>7. ChatLists(listed, left.made)
  <2> SUFFICES ASSUME NEW k \in Keys PROVE ChatList(<<Strips!Id("chat", k, 0)>>, k, left.made)
    BY <1>1 DEF ChatLists
  <2> DEFINE x == Strips!Id("chat", k, 0)
  <2>1. x \in ChatIds /\ x.home = k /\ Made(x, left.made)
    BY DEF Strips!Id, ChatIds, IdSet, Made
  <2> HIDE DEF x
  <2>2. ChatList(<<x>>, k, left.made)
    BY <2>1 DEF ChatList, Injective
  <2> QED BY <2>2 DEF x
<1>8. StripsAt(scopes, left.made, strays) /\ NoOldDbs(scopes)
  BY <1>1, <1>6, LayoutRead DEF StripsAt, StripAt, NoOldDbs
<1>9. Stored(scopes, armed, saved)
  BY <1>1 DEF Stored
<1>10. /\ StripCalls(calls, current, left.made) /\ NewsApart(calls) /\ NewsUnused(calls, scopes)
       /\ Reasserted(reasserts, left.made)
  BY <1>1 DEF StripCalls, NewsApart, NewsUnused, Reasserted
<1> QED BY <1>1, <1>3, <1>6, <1>7, <1>8, <1>9, <1>10 DEF StripsInv

LEMMA StripsStep == ASSUME StripsInv, Strips!Next PROVE StripsInv'
<1>1. left.made \in Nat /\ current \in Keys
  BY DEF StripsInv
<1>2. \A k \in Keys : StripSound(scopes[k]) /\ Strips!TabIds(scopes[k]) = IdsOf(scopes[k].tabs)
                      /\ \A id \in IdsOf(scopes[k].tabs) : id \in IdSet /\ Made(id, left.made) /\ AtHome(id, k, strays)
  BY TabIdsAre, IdsThere DEF StripsInv, StripsAt, StripAt, StripSound
<1>3. ASSUME NEW k \in Keys, Strips!Switch(k) PROVE StripsInv'
  <2>1. /\ k # current /\ current' = k /\ Strips!Spend("switches")
        /\ calls' = {[c EXCEPT !.moved = TRUE] : c \in calls}
        /\ UNCHANGED <<scopes, armed, saved, listed, reasserts, strays>>
    BY <1>3 DEF Strips!Switch
  <2>2. Later
    BY <2>1, StripsSpend
  <2>3. \A d \in calls' : \E c \in calls : d = [c EXCEPT !.moved = @ \/ k # current]
    <3>1. (TRUE = (k # current)) /\ \A c \in calls : c.moved \in BOOLEAN
      BY <2>1 DEF StripsInv, StripCalls, StripCall
    <3>2. \A c \in calls : TRUE = (c.moved \/ k # current)
      BY <3>1
    <3> QED BY <2>1, <3>2
  <2>4. StripCalls(calls, current, left'.made) /\ NewsApart(calls) /\ NewsUnused(calls, scopes)
    BY <2>2, StripsFrame DEF StripsInv
  <2>5. StripCalls(calls', k, left'.made) /\ NewsApart(calls') /\ NewsUnused(calls', scopes)
    BY <2>3, <2>4, CallsMove
  <2> QED BY <2>1, <2>2, <2>5, StripsFrame DEF StripsInv, Later
<1>4. ASSUME NEW k \in Keys, Strips!LayoutTimer(k) PROVE StripsInv'
  <2>1. /\ armed' = armed \ {k} /\ saved' = [saved EXCEPT ![k] = scopes[k]]
        /\ UNCHANGED <<current, scopes, listed, calls, reasserts, left, strays>>
    BY <1>4 DEF Strips!LayoutTimer
  <2>2. saved' = [j \in Keys |-> IF j = k THEN scopes[k] ELSE saved[j]]
    BY <2>1 DEF StripsInv, StripsAt
  <2>3. StripsAt(saved', left.made, strays)
    BY <2>2 DEF StripsInv, StripsAt
  <2>4. Strips!Hydrated(scopes[k]) = scopes[k]
    BY <1>2, LayoutRead DEF StripsInv, NoOldDbs
  <2>5. Stored(scopes, armed', saved')
    BY <2>1, <2>2, <2>4 DEF StripsInv, Stored
  <2> QED BY <2>1, <2>3, <2>5 DEF StripsInv
<1>5. ASSUME NEW k \in Keys, NEW id \in Strips!ToSet(listed[k]), Strips!GoToChat(k, id) PROVE StripsInv'
  <2>1. /\ current' = k /\ Strips!Spend("switches")
        /\ Strips!Change(k, Strips!WithTab(scopes[k], Strips!Tab(id)))
        /\ calls' = {[c EXCEPT !.moved = @ \/ k # current] : c \in calls}
        /\ reasserts' = reasserts \cup {[key |-> k, id |-> id]}
        /\ UNCHANGED <<saved, listed, strays>>
    BY <1>5 DEF Strips!GoToChat
  <2>2. Later /\ left'.made = left.made
    BY <2>1, StripsSpend
  <2>3. id \in ChatIds /\ id.home = k /\ Made(id, left.made)
    <3>1. ChatList(listed[k], k, left.made)
      BY DEF StripsInv, ChatLists
    <3>2. \E i \in 1..Len(listed[k]) : listed[k][i] = id
      BY <3>1, ElementsAre DEF ChatList, Elements
    <3> QED BY <3>1, <3>2 DEF ChatList
  <2>4. id \in IdSet /\ AtHome(id, k, strays') /\ ~Strips!OldDb(id) /\ Made(id, left'.made)
    BY <2>2, <2>3 DEF ChatIds, AtHome, Strips!OldDb
  <2>5. StripCalls(calls', k, left'.made) /\ NewsApart(calls') /\ NewsUnused(calls', scopes)
    <3>1. StripCalls(calls, current, left'.made) /\ NewsApart(calls) /\ NewsUnused(calls, scopes)
      BY <2>2, StripsFrame DEF StripsInv
    <3>2. \A d \in calls' : \E c \in calls : d = [c EXCEPT !.moved = @ \/ k # current]
      BY <2>1
    <3> QED BY <3>1, <3>2, CallsMove
  <2>6. \A c \in calls' : c.kind = "restart" => c.arg.new # id
    BY <2>3, <2>5 DEF StripCalls, StripCall, ChatIds
  <2>7. StripsFollow
    BY <2>1, <2>2, <2>4, <2>5, <2>6, TabBecomes
  <2>8. Reasserted(reasserts', left'.made)
    BY <2>1, <2>2, <2>3 DEF StripsInv, Reasserted
  <2>9. ChatLists(listed', left'.made)
    BY <2>1, <2>2, StripsFrame
  <2> QED BY <2>1, <2>2, <2>5, <2>7, <2>8, <2>9 DEF StripsInv, StripsFollow, Later
<1>6. ASSUME NEW id \in Strips!Openable, Strips!OpenTab(id) PROVE StripsInv'
  <2>1. /\ Strips!Spend("clicks")
        /\ Strips!Change(current, Strips!WithTab(scopes[current], Strips!Tab(id)))
        /\ UNCHANGED <<current, saved, listed, calls, reasserts, strays>>
    BY <1>6 DEF Strips!OpenTab, Strips!Here
  <2>2. Later /\ left'.made = left.made
    BY <2>1, StripsSpend
  <2>3. /\ id \in IdSet /\ id.kind = "db" /\ Made(id, left'.made) /\ AtHome(id, current, strays')
        /\ ~Strips!OldDb(id)
    BY DEF Strips!Openable, Strips!Id, IdSet, Made, AtHome, Strips!OldDb
  <2>4. NewsUnused(calls', scopes) /\ \A c \in calls' : c.kind = "restart" => c.arg.new # id
    BY <2>1, <2>3 DEF StripsInv, StripCalls, StripCall
  <2>5. StripsFollow
    BY <1>1, <2>1, <2>2, <2>3, <2>4, TabBecomes
  <2> QED BY <2>1, <2>2, <2>5, StripsFrame DEF StripsInv, StripsFollow, Later
<1>7. ASSUME NEW id \in Strips!TabIds(Strips!Here), Strips!CloseTab(id) PROVE StripsInv'
  <2>1. /\ Strips!Spend("clicks")
        /\ Strips!Change(current, Strips!WithoutTab(scopes[current], id))
        /\ listed' = [k \in Keys |-> Strips!Only(listed[k], Strips!ToSet(listed[k]) \ {id})]
        /\ UNCHANGED <<current, saved, calls, reasserts, strays>>
    BY <1>7 DEF Strips!CloseTab, Strips!Here
  <2>2. Later
    BY <2>1, StripsSpend
  <2>3. id \in IdsOf(scopes[current].tabs)
    BY <1>1, <1>2 DEF Strips!Here
  <2> DEFINE t == Strips!WithoutTab(scopes[current], id)
  <2>4. StripSound(t) /\ IdsOf(t.tabs) \subseteq IdsOf(scopes[current].tabs) /\ Strips!Change(current, t)
    BY <1>1, <1>2, <2>1, <2>3, TabClosed
  <2>5. NewsUnused(calls', scopes)
    BY <2>1 DEF StripsInv
  <2> HIDE DEF t
  <2>6. StripsFollow
    BY <1>1, <2>1, <2>2, <2>4, <2>5, StripKeeps
  <2>7. ChatLists(listed', left'.made)
    <3>1. ChatLists(listed, left'.made)
      BY <2>2, StripsFrame
    <3> QED BY <2>1, <3>1, ListFiltered DEF ChatLists
  <2> QED BY <2>1, <2>2, <2>6, <2>7, StripsFrame DEF StripsInv, StripsFollow, Later
<1>8. ASSUME NEW id \in Strips!TabIds(Strips!Here), Strips!SetActiveTab(id) \/ Strips!RenameTab(id) PROVE StripsInv'
  <2>1. /\ Strips!Spend("clicks")
        /\ UNCHANGED <<current, saved, listed, calls, reasserts, strays>>
    BY <1>8 DEF Strips!SetActiveTab, Strips!RenameTab
  <2>2. Later
    BY <2>1, StripsSpend
  <2>3. id \in IdsOf(scopes[current].tabs) /\ StripSound(scopes[current])
    BY <1>1, <1>2 DEF Strips!Here
  <2>4. \E t : StripSound(t) /\ IdsOf(t.tabs) \subseteq IdsOf(scopes[current].tabs) /\ Strips!Change(current, t)
    <3>1. CASE Strips!SetActiveTab(id)
      <4>1. Strips!Change(current, [scopes[current] EXCEPT !.active = id])
        BY <3>1 DEF Strips!SetActiveTab, Strips!Here
      <4>2. /\ StripSound([scopes[current] EXCEPT !.active = id])
            /\ [scopes[current] EXCEPT !.active = id].tabs = scopes[current].tabs
        BY <2>3, TabFocused
      <4> QED BY <4>1, <4>2
    <3>2. CASE Strips!RenameTab(id)
      <4> DEFINE t == [scopes[current] EXCEPT !.tabs[Strips!IndexOfTab(scopes[current], id)].title = "chosen"]
      <4>1. Strips!Change(current, t)
        BY <3>2 DEF Strips!RenameTab, Strips!Here
      <4>2. StripSound(t) /\ IdsOf(t.tabs) = IdsOf(scopes[current].tabs)
        BY <2>3, TabRenamed
      <4> HIDE DEF t
      <4> QED BY <4>1, <4>2
    <3> QED BY <1>8, <3>1, <3>2
  <2>5. NewsUnused(calls', scopes)
    BY <2>1 DEF StripsInv
  <2>6. StripsFollow
    BY <1>1, <2>1, <2>2, <2>4, <2>5, StripKeeps
  <2> QED BY <2>1, <2>2, <2>6, StripsFrame DEF StripsInv, StripsFollow, Later
<1>9. ASSUME NEW id \in Strips!TabIds(Strips!Here), Strips!Restart(id) PROVE StripsInv'
  <2> DEFINE new == Strips!Id("terminal", id.home, left.made)
             c   == Strips!Call("restart", current, [old |-> id, new |-> new])
  <2>1. /\ Strips!Spend("made") /\ calls' = calls \cup {c}
        /\ UNCHANGED <<current, scopes, armed, saved, listed, reasserts, strays>>
    BY <1>9 DEF Strips!Restart, Strips!Calling
  <2>2. Later /\ left.made > 0 /\ left'.made = left.made - 1
    BY <2>1, StripsSpend
  <2>3. id \in IdSet
    BY <1>1, <1>2 DEF Strips!Here
  <2>4. /\ new \in IdSet /\ new.kind = "terminal" /\ new.home = id.home
        /\ ~Made(new, left.made) /\ Made(new, left'.made)
    BY <1>1, <2>2, <2>3 DEF Strips!Id, IdSet, Made
  <2> HIDE DEF new
  <2>5. c.kind = "restart" /\ c.arg.new = new /\ StripCall(c, current, left'.made)
    BY <1>1, <2>3, <2>4 DEF Strips!Call, StripCall, CallFields
  <2> HIDE DEF c
  <2>6. \A k \in Keys : new \notin IdsOf(scopes[k].tabs)
    BY <1>2, <2>4
  <2>7. \A d \in calls : /\ d.kind = "create" => d.arg # new
                         /\ d.kind = "restart" => d.arg.new # new
    BY <2>4 DEF StripsInv, StripCalls, StripCall
  <2>8. StripCalls(calls, current, left'.made) /\ NewsApart(calls) /\ NewsUnused(calls, scopes)
    BY <2>2, StripsFrame DEF StripsInv
  <2>9. StripCalls(calls', current, left'.made) /\ NewsApart(calls') /\ NewsUnused(calls', scopes)
    BY <2>1, <2>5, <2>6, <2>7, <2>8, CallAdded
  <2> QED BY <2>1, <2>2, <2>9, StripsFrame DEF StripsInv, Later
<1>10. ASSUME NEW kind \in {"chat", "terminal"}, Strips!Create(kind) PROVE StripsInv'
  <2> DEFINE id == Strips!Id(kind, current, left.made)
             c  == Strips!Call("create", current, id)
  <2>1. /\ Strips!Spend("made") /\ calls' = calls \cup {c}
        /\ listed' = IF kind = "chat" THEN [listed EXCEPT ![current] = Append(@, id)] ELSE listed
        /\ UNCHANGED <<current, scopes, armed, saved, reasserts, strays>>
    BY <1>10 DEF Strips!Create, Strips!Calling
  <2>2. Later /\ left.made > 0 /\ left'.made = left.made - 1
    BY <2>1, StripsSpend
  <2>3. /\ id \in IdSet /\ id.kind = kind /\ id.home = current
        /\ ~Made(id, left.made) /\ Made(id, left'.made)
    BY <1>1, <2>2 DEF Strips!Id, IdSet, Made
  <2> HIDE DEF id
  <2>4. c.kind = "create" /\ c.arg = id /\ StripCall(c, current, left'.made)
    BY <1>1, <2>3 DEF Strips!Call, StripCall, CallFields
  <2> HIDE DEF c
  <2>5. \A d \in calls : d.kind = "restart" => d.arg.new # id
    BY <2>3 DEF StripsInv, StripCalls, StripCall
  <2>6. StripCalls(calls, current, left'.made) /\ NewsApart(calls) /\ NewsUnused(calls, scopes)
    BY <2>2, StripsFrame DEF StripsInv
  <2>7. StripCalls(calls', current, left'.made) /\ NewsApart(calls') /\ NewsUnused(calls', scopes)
    BY <2>1, <2>4, <2>5, <2>6, CallAdded
  <2>8. ChatLists(listed', left'.made)
    <3>1. ChatLists(listed, left'.made) /\ ChatList(listed[current], current, left.made)
      BY <1>1, <2>2, StripsFrame DEF StripsInv, ChatLists
    <3>2. CASE kind # "chat"
      BY <2>1, <3>1, <3>2
    <3>3. CASE kind = "chat"
      <4> DEFINE q == listed[current]
                 p == Append(q, id)
      <4>1. listed' = [k \in Keys |-> IF k = current THEN p ELSE listed[k]]
        BY <2>1, <3>1, <3>3 DEF ChatLists
      <4>2. q \in Seq(ChatIds) /\ Injective(q) /\ id \in ChatIds /\ ChatList(q, current, left'.made)
        BY <1>1, <2>3, <3>1, <3>3 DEF ChatList, ChatLists, ChatIds
      <4>3. \A i \in 1..Len(q) : q[i] # id
        BY <2>3, <3>1 DEF ChatList
      <4> HIDE DEF q
      <4>4. /\ p \in Seq(ChatIds) /\ Len(p) = Len(q) + 1 /\ Len(q) \in Nat
            /\ \A i \in 1..Len(q) : p[i] = q[i]
            /\ p[Len(p)] = id
        BY <4>2
      <4> HIDE DEF p
      <4>5. Injective(p)
        BY <4>2, <4>3, <4>4 DEF Injective
      <4>6. \A i \in 1..Len(p) : p[i] = id \/ (i \in 1..Len(q) /\ p[i] = q[i])
        BY <4>4
      <4>7. ChatList(p, current, left'.made)
        BY <2>3, <4>2, <4>4, <4>5, <4>6 DEF ChatList
      <4> QED BY <3>1, <4>1, <4>7 DEF ChatLists
    <3> QED BY <3>2, <3>3
  <2> QED BY <2>1, <2>2, <2>7, <2>8, StripsFrame DEF StripsInv, Later
<1>11. ASSUME NEW kind \in {"seed", "refresh"}, Strips!List(kind) PROVE StripsInv'
  <2> DEFINE c == Strips!Call(kind, current, listed[current])
  <2>1. /\ Strips!Spend("lists") /\ calls' = calls \cup {c}
        /\ UNCHANGED <<current, scopes, armed, saved, listed, reasserts, strays>>
    BY <1>11 DEF Strips!List, Strips!Calling
  <2>2. Later
    BY <2>1, StripsSpend
  <2>3. StripCall(c, current, left'.made) /\ c.kind \notin {"create", "restart"}
    BY <1>1, <2>2, StripsFrame DEF Strips!Call, StripCall, CallFields, ChatLists
  <2> HIDE DEF c
  <2>4. StripCalls(calls, current, left'.made) /\ NewsApart(calls) /\ NewsUnused(calls, scopes)
    BY <2>2, StripsFrame DEF StripsInv
  <2>5. StripCalls(calls', current, left'.made) /\ NewsApart(calls') /\ NewsUnused(calls', scopes)
    BY <2>1, <2>3, <2>4, CallAdded
  <2> QED BY <2>1, <2>2, <2>5, StripsFrame DEF StripsInv, Later
<1>12. ASSUME NEW c \in calls, calls' = calls \ {c}, left' = left, strays \subseteq strays'
       PROVE  /\ Later /\ StripCall(c, current, left.made)
              /\ StripCalls(calls', current, left'.made) /\ NewsApart(calls') /\ NewsUnused(calls', scopes)
  <2>1. Later
    BY <1>12, StripsIdle
  <2>2. StripCalls(calls, current, left.made) /\ NewsApart(calls) /\ NewsUnused(calls, scopes)
    BY DEF StripsInv
  <2>3. calls' \in SUBSET calls
    BY <1>12
  <2>4. StripCalls(calls', current, left.made) /\ NewsApart(calls') /\ NewsUnused(calls', scopes)
    BY <2>2, <2>3, CallsTaken
  <2> QED BY <1>12, <2>1, <2>2, <2>4 DEF StripCalls
<1>13. ASSUME NEW c \in calls, Strips!CreateDone(c) PROVE StripsInv'
  <2>1. /\ c.kind = "create" /\ calls' = calls \ {c}
        /\ Strips!Change(current, Strips!WithTab(scopes[current], Strips!Tab(c.arg)))
        /\ strays' = IF c.moved THEN strays \cup {c.arg} ELSE strays
        /\ UNCHANGED <<current, saved, listed, reasserts, left>>
    BY <1>13 DEF Strips!CreateDone, Strips!Here
  <2>2. /\ Later /\ StripCall(c, current, left.made)
        /\ StripCalls(calls', current, left'.made) /\ NewsApart(calls') /\ NewsUnused(calls', scopes)
    BY <1>12, <2>1
  <2>3. /\ c.arg \in IdSet /\ Made(c.arg, left'.made) /\ AtHome(c.arg, current, strays')
        /\ ~Strips!OldDb(c.arg)
    BY <2>1, <2>2 DEF StripCall, AtHome, Strips!OldDb
  <2>4. \A d \in calls' : d.kind = "restart" => d.arg.new # c.arg
    BY <2>1 DEF StripsInv, NewsApart
  <2>5. StripsFollow
    BY <1>1, <2>1, <2>2, <2>3, <2>4, TabBecomes
  <2> QED BY <2>1, <2>2, <2>5, StripsFrame DEF StripsInv, StripsFollow, Later
<1>14. ASSUME NEW c \in calls, Strips!RestartDone(c) PROVE StripsInv'
  <2>1. /\ c.kind = "restart" /\ calls' = calls \ {c}
        /\ strays' = IF c.arg.old \in strays THEN strays \cup {c.arg.new} ELSE strays
        /\ UNCHANGED <<current, saved, listed, reasserts, left>>
    BY <1>14 DEF Strips!RestartDone
  <2>2. /\ Later /\ StripCall(c, current, left.made)
        /\ StripCalls(calls', current, left'.made) /\ NewsApart(calls') /\ NewsUnused(calls', scopes)
    BY <1>12, <2>1
  <2>3. CASE UNCHANGED <<scopes, armed>>
    BY <2>1, <2>2, <2>3, StripsFrame DEF StripsInv, Later
  <2>4. CASE ~UNCHANGED <<scopes, armed>>
    <3>1. PICK k \in Keys :
            /\ c.arg.old \in Strips!TabIds(scopes[k])
            /\ Strips!Change(k, Strips!Restarted(scopes[k], c.arg.old, c.arg.new))
      BY <1>14, <2>4 DEF Strips!RestartDone
    <3> DEFINE old  == c.arg.old
               new  == c.arg.new
               t    == Strips!Restarted(scopes[k], old, new)
    <3>2. /\ old \in IdsOf(scopes[k].tabs) /\ AtHome(old, k, strays)
          /\ new \in IdSet /\ new.kind = "terminal" /\ new.home = old.home /\ Made(new, left'.made)
          /\ new \notin IdsOf(scopes[k].tabs)
      BY <1>2, <2>1, <2>2, <3>1 DEF StripCall, StripsInv, NewsUnused
    <3>3. AtHome(new, k, strays') /\ ~Strips!OldDb(new)
      BY <2>1, <3>2 DEF AtHome, Strips!OldDb
    <3>4. Strips!Change(k, t)
      BY <3>1
    <3>5. \A d \in calls' : d.kind = "restart" =>
            d.arg.new # new /\ \A j \in Keys : d.arg.new \notin IdsOf(scopes[j].tabs)
      BY <2>1, <2>2 DEF StripsInv, NewsApart, NewsUnused
    <3> HIDE DEF old, new
    <3>6. StripSound(t) /\ IdsOf(t.tabs) = (IdsOf(scopes[k].tabs) \ {old}) \cup {new}
      <4>1. StripSound(scopes[k])
        BY <1>2
      <4> QED BY <3>2, <4>1, TabRestarted
    <3> HIDE DEF t
    <3>7. StripsFollow
      <4> DEFINE more == {new}
      <4>1. /\ IdsOf(t.tabs) \subseteq IdsOf(scopes[k].tabs) \cup more
            /\ \A id : id \in more <=> id = new
        BY <3>6
      <4> HIDE DEF more
      <4>2. \A id \in more : Made(id, left'.made) /\ AtHome(id, k, strays') /\ ~Strips!OldDb(id)
        BY <3>2, <3>3, <4>1
      <4>3. \A d \in calls' : d.kind = "restart" =>
              d.arg.new \notin more /\ \A j \in Keys : d.arg.new \notin IdsOf(scopes[j].tabs)
        BY <3>5, <4>1
      <4> QED BY <2>1, <2>2, <3>4, <3>6, <4>1, <4>2, <4>3, StripBecomes
    <3> QED BY <2>1, <2>2, <3>7, StripsFrame DEF StripsInv, StripsFollow, Later
  <2> QED BY <2>3, <2>4
<1>15. ASSUME NEW c \in calls, Strips!SeedDone(c) PROVE StripsInv'
  <2>1. /\ c.kind = "seed" /\ calls' = calls \ {c}
        /\ IF c.arg = <<>> THEN UNCHANGED <<scopes, armed>>
                           ELSE Strips!Change(c.key, Strips!ScopeChats(scopes[c.key], c.arg))
        /\ UNCHANGED <<current, saved, listed, reasserts, left, strays>>
    BY <1>15 DEF Strips!SeedDone
  <2>2. /\ Later /\ StripCall(c, current, left.made)
        /\ StripCalls(calls', current, left'.made) /\ NewsApart(calls') /\ NewsUnused(calls', scopes)
    BY <1>12, <2>1
  <2>3. CASE UNCHANGED <<scopes, armed>>
    BY <2>1, <2>2, <2>3, StripsFrame DEF StripsInv, Later
  <2>4. CASE Strips!Change(c.key, Strips!ScopeChats(scopes[c.key], c.arg))
    <3>1. c.key \in Keys /\ ChatList(c.arg, c.key, left.made) /\ calls' \subseteq calls
      BY <2>1, <2>2 DEF StripCall
    <3>2. StripsFollow
      BY <2>1, <2>2, <2>4, <3>1, ChatsBecome
    <3> QED BY <2>1, <2>2, <3>2, StripsFrame DEF StripsInv, StripsFollow, Later
  <2> QED BY <2>1, <2>3, <2>4
<1>16. ASSUME NEW c \in calls, Strips!RefreshDone(c) PROVE StripsInv'
  <2> DEFINE open  == {t.id : t \in Strips!ToSet(Strips!ChatTabs(Strips!Here))}
             chats == IF open = {} THEN c.arg ELSE Strips!Only(c.arg, open)
  <2>1. /\ c.kind = "refresh" /\ calls' = calls \ {c}
        /\ \/ UNCHANGED <<scopes, armed>>
           \/ c.key = current /\ Strips!Change(current, Strips!ScopeChats(scopes[current], chats))
        /\ UNCHANGED <<current, saved, listed, reasserts, left, strays>>
    BY <1>16 DEF Strips!RefreshDone, Strips!Here
  <2> HIDE DEF open
  <2>2. /\ Later /\ StripCall(c, current, left.made)
        /\ StripCalls(calls', current, left'.made) /\ NewsApart(calls') /\ NewsUnused(calls', scopes)
    BY <1>12, <2>1
  <2>3. CASE UNCHANGED <<scopes, armed>>
    BY <2>1, <2>2, <2>3, StripsFrame DEF StripsInv, Later
  <2>4. CASE c.key = current /\ Strips!Change(current, Strips!ScopeChats(scopes[current], chats))
    <3>1. ChatList(c.arg, current, left.made) /\ calls' \subseteq calls
      BY <2>1, <2>2, <2>4 DEF StripCall
    <3>2. ChatList(chats, current, left.made)
      BY <3>1, ListFiltered
    <3> HIDE DEF chats
    <3>3. StripsFollow
      BY <1>1, <2>1, <2>2, <2>4, <3>1, <3>2, ChatsBecome
    <3> QED BY <2>1, <2>2, <3>3, StripsFrame DEF StripsInv, StripsFollow, Later
  <2> QED BY <2>1, <2>3, <2>4
<1>17. ASSUME NEW r \in reasserts, Strips!Reassert(r) PROVE StripsInv'
  <2>1. /\ reasserts' = reasserts \ {r}
        /\ IF r.key = current
             THEN Strips!Change(current, Strips!WithTab(scopes[current], Strips!Tab(r.id)))
             ELSE UNCHANGED <<scopes, armed>>
        /\ UNCHANGED <<current, saved, listed, calls, left, strays>>
    BY <1>17 DEF Strips!Reassert, Strips!Here
  <2>2. Later
    BY <2>1, StripsIdle
  <2>3. Reasserted(reasserts', left'.made)
    BY <2>1 DEF StripsInv, Reasserted
  <2>4. CASE r.key # current
    BY <2>1, <2>2, <2>3, <2>4, StripsFrame DEF StripsInv, Later
  <2>5. CASE r.key = current
    <3>1. /\ r.id \in IdSet /\ r.id.kind = "chat" /\ Made(r.id, left'.made)
          /\ AtHome(r.id, current, strays') /\ ~Strips!OldDb(r.id)
      BY <2>1, <2>5 DEF StripsInv, Reasserted, ChatIds, AtHome, Strips!OldDb
    <3>2. NewsUnused(calls', scopes) /\ \A c \in calls' : c.kind = "restart" => c.arg.new # r.id
      BY <2>1, <3>1 DEF StripsInv, StripCalls, StripCall
    <3>3. StripsFollow
      BY <1>1, <2>1, <2>2, <2>5, <3>1, <3>2, TabBecomes
    <3> QED BY <2>1, <2>2, <2>3, <3>3, StripsFrame DEF StripsInv, StripsFollow, Later
  <2> QED BY <2>4, <2>5
<1>18. CASE Strips!Reload
  <2>1. /\ Strips!Spend("reloads") /\ scopes' = [k \in Keys |-> Strips!Hydrated(saved[k])]
        /\ armed' = {} /\ calls' = {} /\ reasserts' = {}
        /\ UNCHANGED <<current, saved, listed, strays>>
    BY <1>18 DEF Strips!Reload
  <2>2. Later
    BY <2>1, StripsSpend
  <2>3. StripsAt(saved, left'.made, strays')
    BY <2>2, StripsFrame
  <2>4. StripsAt(scopes', left'.made, strays') /\ NoOldDbs(scopes')
    <3> SUFFICES ASSUME NEW k \in Keys
                 PROVE  /\ StripAt(Strips!Hydrated(saved[k]), k, left'.made, strays')
                        /\ \A id \in IdsOf(Strips!Hydrated(saved[k]).tabs) : ~Strips!OldDb(id)
      BY <2>1 DEF StripsAt, NoOldDbs
    <3>1. StripAt(saved[k], k, left'.made, strays')
      BY <2>3 DEF StripsAt
    <3> QED BY <3>1, LayoutRead DEF StripAt
  <2>5. Stored(scopes', armed', saved')
    BY <2>1 DEF Stored
  <2>6. /\ StripCalls(calls', current', left'.made) /\ NewsApart(calls') /\ NewsUnused(calls', scopes')
        /\ Reasserted(reasserts', left'.made)
    BY <2>1 DEF StripCalls, NewsApart, NewsUnused, Reasserted
  <2> QED BY <2>1, <2>2, <2>3, <2>4, <2>5, <2>6, StripsFrame DEF StripsInv, Later
<1> QED
  BY <1>3, <1>4, <1>5, <1>6, <1>7, <1>8, <1>9, <1>10, <1>11, <1>13, <1>14, <1>15, <1>16, <1>17, <1>18
  DEF Strips!Next

LEMMA StripsSafe == StripsInv => Strips!ActiveIsATab /\ Strips!ListsStayHome /\ Strips!NothingUnsaved
<1> SUFFICES ASSUME StripsInv PROVE Strips!ActiveIsATab /\ Strips!ListsStayHome /\ Strips!NothingUnsaved
  OBVIOUS
<1>1. ASSUME NEW k \in Keys
      PROVE  /\ StripSound(scopes[k]) /\ Strips!TabIds(scopes[k]) = IdsOf(scopes[k].tabs)
             /\ Cardinality(Strips!TabIds(scopes[k])) = Len(scopes[k].tabs)
             /\ \A id \in IdsOf(scopes[k].tabs) : AtHome(id, k, strays)
  BY TabIdsAre, TabsCounted DEF StripsInv, StripsAt, StripAt
<1>2. Strips!ActiveIsATab
  BY <1>1 DEF StripSound, Strips!ActiveIsATab, Strips!Cardinality, Cardinality
<1>3. Strips!ListsStayHome
  BY <1>1 DEF AtHome, Strips!ListsStayHome
<1>4. Strips!NothingUnsaved
  BY DEF StripsInv, Stored, Strips!NothingUnsaved
<1> QED BY <1>2, <1>3, <1>4

-----------------------------------------------------------------------------
(* The surfaces together: each of them that has one keeps its invariant.   *)

ViewsInv ==
  /\ surface = "url"     => RouteInv
  /\ surface = "tabstrip" => StripsInv
  /\ surface = "dialog"  => DialogInv
  /\ surface = "tree"    => TreeInv
  /\ surface = "db"      => DbInv
  /\ surface = "changes" => ChangesInv
  /\ surface = "scroll"  => ScrollInv
  /\ surface = "row"     => RowInv

LEMMA ViewsInit == Init => ViewsInv
<1>1. Route!Init => RouteInv
  BY RouteInit
<1>2. Dialog!Init => DialogInv
  BY DialogInit
<1>3. Tree!Init => TreeInv
  BY TreeInit
<1>4. Db!Init => DbInv
  BY DbInit
<1>5. Changes!Init => ChangesInv
  BY ChangesInit
<1>6. Scroll!Init => ScrollInv
  BY ScrollInit
<1>7. Internals!Init => RowInv
  BY RowInit
<1>8. Strips!Init => StripsInv
  BY StripsInit
<1> QED BY <1>1, <1>2, <1>3, <1>4, <1>5, <1>6, <1>7, <1>8 DEF Init, PanelInit, ViewsInv

\* The requests of a surface's step, and those of the shell.
ShellMoves == Moves(AskedAt, ShownAt, AskedAt', ShownAt')

\* A behaviour is of one surface, and a step of that surface keeps its
\* invariant and its answers in order.
LEMMA ViewsStep == ViewsInv /\ [Next]_vars => ViewsInv' /\ ShellMoves
<1> SUFFICES ASSUME ViewsInv, [Next]_vars PROVE ViewsInv' /\ ShellMoves
  OBVIOUS
<1>1. surface' = surface
  BY DEF Next, Panel, vars
<1>2. ASSUME surface = "url" PROVE RouteInv'
  <2>1. RouteInv
    BY <1>2 DEF ViewsInv
  <2>2. CASE Route!Next
    BY <2>1, <2>2, RouteStep
  <2>3. CASE UNCHANGED routeVars
    BY <2>1, <2>3 DEF routeVars, RouteInv, Sound, Named, Route!Here, Route!Current, Route!ActiveChat
  <2> QED BY <1>2, <2>2, <2>3 DEF Next, Panel, vars
<1>3. ASSUME surface = "dialog"
      PROVE  DialogInv' /\ Moves(DialogAsked, DialogShown, DialogAsked', DialogShown')
  <2>1. DialogInv
    BY <1>3 DEF ViewsInv
  <2>2. CASE Dialog!Next
    BY <2>1, <2>2, DialogStep
  <2>3. CASE UNCHANGED panelVars
    BY <2>1, <2>3 DEF panelVars, DialogInv, Clock, Moves, DialogAsked, DialogShown, Dialog!OfResource
  <2> QED BY <1>3, <2>2, <2>3 DEF Next, Panel, vars
<1>4. ASSUME surface = "tree"
      PROVE  TreeInv' /\ Moves(TreeAsked, TreeShown, TreeAsked', TreeShown')
  <2>1. TreeInv
    BY <1>4 DEF ViewsInv
  <2>2. CASE Tree!Next
    BY <2>1, <2>2, TreeStep
  <2>3. CASE UNCHANGED panelVars
    BY <2>1, <2>3 DEF panelVars, TreeInv, Clock, HasTop, InOrder, Moves, TreeAsked, TreeShown
  <2> QED BY <1>4, <2>2, <2>3 DEF Next, Panel, vars
<1>5. ASSUME surface = "db" PROVE DbInv' /\ DbMoves
  <2>1. DbInv
    BY <1>5 DEF ViewsInv
  <2>2. CASE Db!Next
    BY <2>1, <2>2, DbStep
  <2>3. CASE UNCHANGED panelVars
    BY <2>1, <2>3 DEF panelVars, DbInv, DbRequest, InOrder, DbMoves, Moves, Db!BusyHasAReason
  <2> QED BY <1>5, <2>2, <2>3 DEF Next, Panel, vars
<1>6. ASSUME surface = "changes" PROVE ChangesInv'
  <2>1. ChangesInv
    BY <1>6 DEF ViewsInv
  <2>2. CASE Changes!Next
    BY <2>1, <2>2, ChangesStep
  <2>3. CASE UNCHANGED panelVars
    BY <2>1, <2>3 DEF panelVars, ChangesInv, Changes!LoadingHasAReason
  <2> QED BY <1>6, <2>2, <2>3 DEF Next, Panel, vars
<1>7. ASSUME surface = "scroll" PROVE ScrollInv'
  <2>1. ScrollInv
    BY <1>7 DEF ViewsInv
  <2>2. CASE Scroll!Next
    BY <2>1, <2>2, ScrollStep
  <2>3. CASE UNCHANGED panelVars
    BY <2>1, <2>3 DEF panelVars, ScrollInv
  <2> QED BY <1>7, <2>2, <2>3 DEF Next, Panel, vars
<1>8. ASSUME surface = "row" PROVE RowInv'
  <2>1. RowInv
    BY <1>8 DEF ViewsInv
  <2>2. CASE Internals!Next
    BY <2>1, <2>2, RowStep
  <2>3. CASE UNCHANGED panelVars
    BY <2>1, <2>3 DEF panelVars, RowInv
  <2> QED BY <1>8, <2>2, <2>3 DEF Next, Panel, vars
<1>9. ASSUME surface = "tabstrip" PROVE StripsInv'
  <2>1. StripsInv
    BY <1>9 DEF ViewsInv
  <2>2. CASE Strips!Next
    BY <2>1, <2>2, StripsStep
  <2>3. CASE UNCHANGED <<tabVars, panelVars>>
    BY <2>1, <2>3 DEF tabVars, panelVars, StripsInv
  <2> QED BY <1>9, <2>2, <2>3 DEF Next, Panel, vars
<1>10. ViewsInv'
  BY <1>1, <1>2, <1>3, <1>4, <1>5, <1>6, <1>7, <1>8, <1>9 DEF ViewsInv
<1>11. ShellMoves
  <2>1. CASE surface = "dialog"
    BY <1>1, <1>3, <2>1 DEF ShellMoves, AskedAt, ShownAt, DialogAsked, DialogShown
  <2>2. CASE surface = "tree"
    BY <1>1, <1>4, <2>2 DEF ShellMoves, AskedAt, ShownAt, TreeAsked, TreeShown
  <2>3. CASE surface = "db"
    BY <1>1, <1>5, <2>3 DEF ShellMoves, AskedAt, ShownAt, DbMoves
  <2>4. CASE surface \notin {"dialog", "tree", "db"}
    <3>1. AskedAt = 0 /\ ShownAt = 0
      BY <2>4 DEF AskedAt, ShownAt
    <3>2. AskedAt' = 0 /\ ShownAt' = 0
      BY <1>1, <2>4 DEF AskedAt, ShownAt
    <3> QED BY <3>1, <3>2 DEF ShellMoves, Moves
  <2> QED BY <2>1, <2>2, <2>3, <2>4
<1> QED BY <1>10, <1>11

LEMMA ViewsInvariant == Spec => []ViewsInv
BY ViewsInit, ViewsStep, PTL DEF Spec

\* Whatever clicks and history steps come, and whatever other clients remove,
\* the address bar names the scope on the screen, and the open tab unless the
\* address was just corrected: a link copied from it leads back here
\* (core/lib/routeSync.ts).
THEOREM AddressIsTheView == Spec => []UrlNamesTheView
<1>1. ViewsInv => UrlNamesTheView
  BY DEF ViewsInv, UrlNamesTheView, RouteInv, Named, Route!UrlNamesTheView
<1> QED BY <1>1, ViewsInvariant, PTL

\* Through late lists, tabs that close while a toast reasserts them, shells
\* that restart, old layouts and reloads, for every set of scopes: a strip's
\* focus is on one of its tabs and none is there twice; a strip holds tabs of
\* its own scope, but for those that were asked for in one scope and came when
\* another was shown; and no change stays out of the stored layout unless the
\* timer that stores it runs (core/stores/app.ts).
THEOREM StripsStaySound == Spec => []StripsAreSound
<1>1. ViewsInv => StripsAreSound
  BY StripsSafe DEF ViewsInv, StripsAreSound
<1> QED BY <1>1, ViewsInvariant, PTL

\* Back and Forward show the scope of the entry they reach, when it still
\* exists: neither the selection that a project remembers nor the addresses
\* written on the way there divert them (core/lib/routeSync.ts).
THEOREM HistoryIsFollowed == Spec => BackShowsTheScope
<1>1. RouteInv => Route!PopShowsTheScope
  BY ApplyUrlIsSound DEF Route!Pop, Route!PopShowsTheScope
<1>2. ViewsInv => (surface = "url" => Route!PopShowsTheScope)
  BY <1>1 DEF ViewsInv
<1> QED BY <1>2, ViewsInvariant, PTL DEF BackShowsTheScope

\* However the requests overtake each other, a list that is read again and
\* again shows answers in the order they were asked for: the dialogs that
\* keep a resource, the top of the file tree and the columns offered for
\* completion implement LatestAnswer, whatever fails and whenever the user
\* leaves (ProjectFiles.tsx, DbEditorPane.tsx, the dialogs of the shell).
THEOREM AnswersStayInOrder == Spec => NeverGoesBack
<1>1. Init => Latest!Init
  <2>1. ASSUME Init PROVE InOrder(AskedAt, ShownAt)
    <3>1. CASE surface = "dialog"
      <4>1. Dialog!Init
        BY <2>1, <3>1 DEF Init, PanelInit
      <4> QED BY <3>1, <4>1, DialogInit DEF AskedAt, ShownAt, DialogAsked, DialogShown
    <3>2. CASE surface = "tree"
      <4>1. TreeInv
        BY <2>1, <3>2, ViewsInit DEF ViewsInv
      <4> QED BY <3>2, <4>1 DEF TreeInv, AskedAt, ShownAt, TreeAsked, TreeShown
    <3>3. CASE surface = "db"
      <4>1. DbInv
        BY <2>1, <3>3, ViewsInit DEF ViewsInv
      <4> QED BY <3>3, <4>1 DEF DbInv, AskedAt, ShownAt
    <3>4. CASE surface \notin {"dialog", "tree", "db"}
      BY <3>4 DEF AskedAt, ShownAt, InOrder
    <3> QED BY <3>1, <3>2, <3>3, <3>4
  <2> QED BY <2>1 DEF Latest!Init, InOrder
<1>2. ViewsInv /\ [Next]_vars => [Latest!Ask \/ Latest!Show]_<<AskedAt, ShownAt>>
  BY ViewsStep DEF ShellMoves, Moves, Latest!Ask, Latest!Show
<1> QED BY <1>1, <1>2, ViewsInvariant, PTL DEF Spec, NeverGoesBack, Latest!Spec

\* The list of changes, the database's form and its pane never show that they
\* wait without a request under way whose answer ends it
\* (ChangesPanel.tsx, core/stores/db.ts).
THEOREM WaitsForSomething == Spec => []LoadingHasAReason
<1>1. ViewsInv => LoadingHasAReason
  BY DEF ViewsInv, LoadingHasAReason, ChangesInv, DbInv
<1> QED BY <1>1, ViewsInvariant, PTL

\* The page stays as the user has left it (ChatPane.tsx).  Where the wheel has
\* left the timeline, or at its end when that was in view, it stays, whatever
\* grows, collapses, is loaded or is blanked, for every height of the viewport
\* and of a page; and the end of a turn never folds or unfolds what the user
\* has set, whichever of the click's event, the row's own events and the end
\* comes first.
THEOREM UsersViewStays == Spec => []StaysAsLeft
<1>1. ViewsInv => StaysAsLeft
  BY ScrollSafe, RowSafe DEF ViewsInv, StaysAsLeft
<1> QED BY <1>1, ViewsInvariant, PTL
=============================================================================
