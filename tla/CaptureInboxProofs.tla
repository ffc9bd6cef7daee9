------------------------- MODULE CaptureInboxProofs -------------------------
(* What becomes of a capture, for every set of hosts, sessions and texts and  *)
(* every bound: it is stored once, leaves the inbox for a cause, and is not   *)
(* stored against the owner's will.                                           *)
EXTENDS CaptureInbox, TLAPS

-----------------------------------------------------------------------------
(* The captures the host's key refuses, now and ever after: it is a deleted   *)
(* message's, another session's, or has a message of the same version.        *)
Occupied ==
    {t \in Tokens : \E r \in Under(HostKey) :
        r.blocked \/ r.session # t.session \/ r.revision = t.revision}

(* Those it refuses and does not hold, and those that were deleted.           *)
Shut == {t \in Occupied : \A r \in Under(HostKey) : TokenOf(r) = t => r.blocked}
Deleted == {t \in Tokens : HeldByADeleted(t)}

(* What a duplicate is compared by; the moments that are private.             *)
Text(key, revision, words, moment) ==
    [key |-> key, revision |-> revision, words |-> words, moment |-> moment]
Texts == {Text(r.key, r.revision, r.words, r.moment) : r \in stored}
Barred == {m \in Moment : Covered(m)}

(* The versions of a message are one session's and deleted together; a key of *)
(* its own is taken only by what the host's key refuses and does not hold.    *)
KeysInOrder ==
    /\ \A r, s \in stored : r.key = s.key => r.session = s.session /\ r.blocked = s.blocked
    /\ \A r \in stored : r.key # HostKey => r.words = r.key.words /\ TokenOf(r) \in Shut

CodeInOrder(code) == code.kind # "given_up" => code.tries <= DEFER_ATTEMPTS

(* A row that is to take a new key met a key that refuses it.                 *)
RowsInOrder ==
    \A t \in Tokens : inbox[t] # NoRow =>
        /\ inbox[t].entered <= Len(entry)
        /\ CodeInOrder(inbox[t].code)
        /\ TakingANewKey(inbox[t].code) => t \in Occupied

(* What was read of a row is no younger than the row there is now.            *)
NoYounger(entered, t) ==
    entered <= Len(entry) /\ (inbox[t] # NoRow => entered <= inbox[t].entered)

PageInOrder ==
    page # NoPage => \A item \in page.rows :
        /\ NoYounger(item.row.entered, item.token)
        /\ item.row.code.tries <= DEFER_ATTEMPTS
        /\ page.step = "resolve" => item.token \in Occupied

(* What a commit relies on: its key, a check of the private intervals that    *)
(* still stands or is to be made again, and what it met.                      *)
Relies(j) ==
    /\ j.key = IF j.path = "rekeyed" THEN Rekeyed(j.token.words, j.moment) ELSE HostKey
    /\ NoYounger(j.entered, j.token)
    /\ j.code.tries <= DEFER_ATTEMPTS
    /\ j.rules = Unchecked \/ (j.rules <= RuleRevision /\ j.path = "original")
    /\ j.rules = RuleRevision => j.dated \notin Barred

Met(j) ==
    /\ j.path = "recheck" \/ j.step = "compare" => j.token \in Occupied
    /\ j.path = "rekeyed" \/ j.step = "refused" => j.token \in Shut
    /\ j.step = "write" /\ TakingANewKey(j.code) => j.token \in Occupied
    /\ j.step = "remove" => j.token \in Deleted
    /\ j.step = "again" => Text(j.key, j.token.revision, j.token.words, j.dated) \in Texts

Process == Hook \cup {Worker}
JobsInOrder ==
    /\ \A p \in Process : job[p] # Idle => Relies(job[p]) /\ Met(job[p])
    /\ job[Worker] # Idle => page # NoPage

(* Each change of the intervals is an act; what was forgotten waits no more.  *)
Inv ==
    /\ TypeOK /\ KeysInOrder /\ RowsInOrder /\ PageInOrder /\ JobsInOrder
    /\ RuleRevision <= acts
    /\ forgotten \cap Waiting = {}

-----------------------------------------------------------------------------
(* What stands for nothing is no row, no job and no page.                     *)
LEMMA Nothing ==
    /\ \A r \in Rows : r # NoRow
    /\ \A j \in Jobs : j # Idle
    /\ \A q \in Pages : q # NoPage
<1>1. \A r \in Rows : "kind" \notin DOMAIN r
  BY DEF Rows
<1>2. "kind" \in DOMAIN NoRow
  BY DEF NoRow
<1>3. \A r \in Rows : r # NoRow
  BY <1>1, <1>2
<1>4. \A j \in Jobs : j.step # Idle.step
  BY DEF Jobs, Idle
<1>5. \A q \in Pages : q.step # NoPage.step
  BY DEF Pages, NoPage
<1>. QED  BY <1>3, <1>4, <1>5

LEMMA KeysDiffer ==
    /\ HostKey \in Keys
    /\ \A w \in Words, m \in Moment :
          /\ Rekeyed(w, m) \in Keys /\ Rekeyed(w, m) # HostKey /\ Rekeyed(w, m).words = w
<1>1. HostKey \in Keys
  BY DEF Keys
<1>2. ASSUME NEW w \in Words, NEW m \in Moment
      PROVE  /\ Rekeyed(w, m) \in Keys /\ Rekeyed(w, m) # HostKey /\ Rekeyed(w, m).words = w
  <2>1. Rekeyed(w, m).rekeyed = TRUE /\ HostKey.rekeyed = FALSE
    BY DEF Rekeyed, HostKey
  <2>2. Rekeyed(w, m) \in [rekeyed : {TRUE}, words : Words, moment : Moment]
    BY DEF Rekeyed
  <2>3. Rekeyed(w, m).words = w
    BY DEF Rekeyed
  <2>. QED  BY <2>1, <2>2, <2>3 DEF Keys
<1>. QED  BY <1>1, <1>2

(* A record of the store or of the hosts stands for one token.                *)
LEMMA TokenIs ==
    /\ \A r \in Sources : /\ TokenOf(r) \in Tokens
                          /\ TokenOf(r).session = r.session /\ TokenOf(r).revision = r.revision
                          /\ TokenOf(r).words = r.words
    /\ \A c \in Captures : TokenOf(c) \in Tokens
    /\ \A t, u \in Tokens :
          t.session = u.session /\ t.revision = u.revision /\ t.words = u.words => t = u
BY DEF TokenOf, Tokens, Sources, Captures

LEMMA TextIs ==
    ASSUME NEW k, NEW v, NEW w, NEW m
    PROVE  /\ Text(k, v, w, m) \in Texts
              => \E r \in stored : r.key = k /\ r.revision = v /\ r.words = w /\ r.moment = m
           /\ \A r \in stored : r.key = k /\ r.revision = v /\ r.words = w /\ r.moment = m
              => Text(k, v, w, m) \in Texts
<1>1. \A r \in stored : Text(r.key, r.revision, r.words, r.moment) = Text(k, v, w, m)
                        => r.key = k /\ r.revision = v /\ r.words = w /\ r.moment = m
  BY DEF Text
<1>. QED  BY <1>1 DEF Texts

-----------------------------------------------------------------------------
(* The store only grows and blocks; what it gains under the host's key was    *)
(* not refused there.                                                         *)
Grown ==
    /\ \A r \in stored : \E s \in stored' :
          /\ s.key = r.key /\ s.revision = r.revision /\ s.session = r.session
          /\ s.words = r.words /\ s.moment = r.moment /\ (r.blocked => s.blocked)
    /\ \A s \in stored' : s.key = HostKey /\ ~s.blocked => s \in stored \/ TokenOf(s) \notin Occupied

LEMMA StaysMet ==
    ASSUME stored \subseteq Sources, Grown
    PROVE  /\ Occupied \subseteq Occupied' /\ Shut \subseteq Shut'
           /\ Deleted \subseteq Deleted' /\ Texts \subseteq Texts'
<1>1. Occupied \subseteq Occupied'
  BY DEF Grown, Occupied, Under
<1>2. Shut \subseteq Shut'
  <2> SUFFICES ASSUME NEW t \in Shut, NEW s \in Under(HostKey)', TokenOf(s) = t, ~s.blocked
               PROVE  FALSE
    BY <1>1 DEF Shut, Under
  <2>1. s \in stored' /\ s.key = HostKey
    BY DEF Under
  <2>2. s \in stored
    BY <2>1 DEF Grown, Shut
  <2>. QED  BY <2>1, <2>2 DEF Shut, Under
<1>3. Deleted \subseteq Deleted'
  BY DEF Grown, Deleted, HeldByADeleted
<1>4. Texts \subseteq Texts'
  BY DEF Grown, Texts
<1>. QED  BY <1>1, <1>2, <1>3, <1>4

-----------------------------------------------------------------------------
(* What every step leaves to those who read before it: a row that is there is *)
(* the one they read or a later one, and no moment becomes private unless the *)
(* revision of the rules grows.                                               *)
Steady ==
    /\ Grown
    /\ \A t \in Tokens : inbox'[t] # NoRow =>
          \/ inbox[t] # NoRow /\ inbox'[t].entered = inbox[t].entered
          \/ inbox[t] = NoRow /\ inbox'[t].entered = Len(entry)
    /\ Len(entry) <= Len(entry')
    /\ RuleRevision <= RuleRevision' /\ RuleRevision' <= MaxActs
    /\ RuleRevision' = RuleRevision => Barred' \subseteq Barred

LEMMA SteadyIf ==
    ASSUME TypeOK, RuleRevision <= acts, UNCHANGED <<stored, private, entry>>,
           \A t \in Tokens : inbox'[t] # NoRow =>
               inbox[t] # NoRow /\ inbox'[t].entered = inbox[t].entered
    PROVE  Steady
<1>1. Grown
  BY DEF Grown
<1>2. Len(entry) \in Nat /\ RuleRevision \in Nat /\ RuleRevision <= MaxActs
  BY InboxAssumption DEF TypeOK, RuleRevision
<1>3. RuleRevision' = RuleRevision /\ Barred' = Barred
  BY DEF RuleRevision, Barred, Covered
<1>. QED  BY <1>1, <1>2, <1>3 DEF Steady

LEMMA NoYoungerStays ==
    ASSUME TypeOK, TypeOK', Steady, NEW e \in Nat, NEW t \in Tokens, NoYounger(e, t)
    PROVE  e <= Len(entry') /\ (inbox'[t] # NoRow => e <= inbox'[t].entered)
<1>1. Len(entry) \in Nat /\ Len(entry') \in Nat
  BY DEF TypeOK
<1>2. inbox[t] # NoRow => inbox[t].entered \in Nat
  BY DEF TypeOK, Rows
<1>. QED  BY <1>1, <1>2 DEF NoYounger, Steady

LEMMA JobStays ==
    ASSUME TypeOK, TypeOK', Steady, NEW p \in Process, job'[p] = job[p], job[p] # Idle,
           Relies(job[p]), Met(job[p])
    PROVE  Relies(job[p])' /\ Met(job[p])'
<1> DEFINE j == job[p]
<1>1. j \in Jobs /\ j.token \in Tokens /\ j.entered \in Nat /\ j.rules \in 0 .. Unchecked
      /\ j.dated \in Moment
  BY DEF TypeOK, Jobs, Process
<1>2. j.entered <= Len(entry') /\ (inbox'[j.token] # NoRow => j.entered <= inbox'[j.token].entered)
  <2>1. NoYounger(j.entered, j.token)
    BY DEF Relies
  <2> HIDE DEF j
  <2>. QED  BY <1>1, <2>1, NoYoungerStays
<1>3. /\ j.rules = Unchecked \/ (j.rules <= RuleRevision' /\ j.path = "original")
      /\ j.rules = RuleRevision' => j.dated \notin Barred'
  <2>1. RuleRevision \in Nat /\ RuleRevision' \in Nat /\ MaxActs \in Nat
    BY InboxAssumption DEF TypeOK, RuleRevision
  <2>2. /\ j.rules = Unchecked \/ (j.rules <= RuleRevision /\ j.path = "original")
        /\ j.rules = RuleRevision => j.dated \notin Barred
    BY DEF Relies
  <2> HIDE DEF j
  <2>. QED  BY <1>1, <2>1, <2>2 DEF Steady, Unchecked
<1>4. Relies(job[p])'
  BY <1>2, <1>3 DEF Relies, NoYounger
<1>5. Met(job[p])'
  <2>1. /\ Occupied \subseteq Occupied' /\ Shut \subseteq Shut'
        /\ Deleted \subseteq Deleted' /\ Texts \subseteq Texts'
    BY StaysMet DEF TypeOK, Steady
  <2>. QED  BY <2>1 DEF Met
<1>. QED  BY <1>4, <1>5

(* The other jobs, the page and the rows that a step does not touch.          *)
LEMMA OthersStay ==
    ASSUME Inv, TypeOK', Steady, NEW p \in Process,
           \A q \in Process : q # p => job'[q] = job[q],
           job'[p] = Idle \/ job'[p] = job[p] \/ (Relies(job[p])' /\ Met(job[p])'),
           job'[Worker] # Idle => page' # NoPage
    PROVE  JobsInOrder'
<1>1. ASSUME NEW q \in Process, job'[q] # Idle
      PROVE  Relies(job[q])' /\ Met(job[q])'
  <2>1. CASE job'[q] = job[q]
    <3>1. Relies(job[q]) /\ Met(job[q])
      BY <1>1, <2>1 DEF Inv, JobsInOrder
    <3>. QED  BY <1>1, <2>1, <3>1, JobStays DEF Inv
  <2>2. CASE job'[q] # job[q]
    <3>1. q = p
      BY <2>2
    <3>2. job'[p] # Idle /\ job'[p] # job[p]
      BY <1>1, <2>2, <3>1
    <3>3. Relies(job[p])' /\ Met(job[p])'
      BY <3>2
    <3>. QED  BY <3>1, <3>3
  <2>. QED  BY <2>1, <2>2
<1>2. JobsInOrder' <=> /\ \A q \in Process : job'[q] # Idle => Relies(job[q])' /\ Met(job[q])'
                       /\ job'[Worker] # Idle => page' # NoPage
  BY DEF JobsInOrder, Process
<1>. QED  BY <1>1, <1>2

LEMMA JobsStay ==
    ASSUME Inv, TypeOK', Steady, job' = job, page' = page
    PROVE  JobsInOrder'
<1>1. Worker \in Process
  BY DEF Process
<1>2. job'[Worker] # Idle => page' # NoPage
  BY DEF Inv, JobsInOrder
<1>. QED  BY <1>1, <1>2, OthersStay

LEMMA PageStays ==
    ASSUME Inv, TypeOK', Steady,
           page' # NoPage => page # NoPage /\ page'.rows \subseteq page.rows /\ page'.step = page.step
    PROVE  PageInOrder'
<1> SUFFICES ASSUME page' # NoPage, NEW item \in page'.rows
             PROVE  /\ NoYounger(item.row.entered, item.token)'
                    /\ item.row.code.tries <= DEFER_ATTEMPTS
                    /\ page'.step = "resolve" => item.token \in Occupied'
  BY DEF PageInOrder, NoYounger
<1>1. page # NoPage /\ item \in page.rows
  OBVIOUS
<1>2. item.token \in Tokens /\ item.row.entered \in Nat
  BY <1>1 DEF Inv, TypeOK, Pages, Rows
<1>3. NoYounger(item.row.entered, item.token)
  BY <1>1 DEF Inv, PageInOrder
<1>4. /\ item.row.entered <= Len(entry')
      /\ inbox'[item.token] # NoRow => item.row.entered <= inbox'[item.token].entered
  BY <1>2, <1>3, NoYoungerStays DEF Inv
<1>5. Occupied \subseteq Occupied'
  BY StaysMet DEF Inv, TypeOK, Steady
<1>. QED  BY <1>1, <1>4, <1>5 DEF Inv, PageInOrder, NoYounger

LEMMA RowsStay ==
    ASSUME Inv, TypeOK', Steady,
           \A t \in Tokens : inbox'[t] # NoRow /\ inbox'[t] # inbox[t] =>
              /\ inbox'[t].entered <= Len(entry) /\ CodeInOrder(inbox'[t].code)
              /\ TakingANewKey(inbox'[t].code) => t \in Occupied
    PROVE  RowsInOrder'
<1> SUFFICES ASSUME NEW t \in Tokens, inbox'[t] # NoRow
             PROVE  /\ inbox'[t].entered <= Len(entry')
                    /\ CodeInOrder(inbox'[t].code)
                    /\ TakingANewKey(inbox'[t].code) => t \in Occupied'
  BY DEF RowsInOrder, CodeInOrder, TakingANewKey
<1>1. Occupied \subseteq Occupied'
  BY StaysMet DEF Inv, TypeOK, Steady
<1>2. Len(entry) <= Len(entry') /\ Len(entry) \in Nat /\ Len(entry') \in Nat
      /\ inbox'[t].entered \in Nat
  BY DEF Inv, TypeOK, Rows, Steady
<1>3. /\ inbox'[t].entered <= Len(entry) /\ CodeInOrder(inbox'[t].code)
      /\ TakingANewKey(inbox'[t].code) => t \in Occupied
  BY DEF Inv, RowsInOrder
<1>. QED  BY <1>1, <1>2, <1>3

LEMMA KeysStay ==
    ASSUME Inv, TypeOK', Steady, stored' = stored
    PROVE  KeysInOrder'
<1>1. Shut \subseteq Shut'
  BY StaysMet DEF Inv, TypeOK, Steady
<1>. QED  BY <1>1 DEF Inv, KeysInOrder

-----------------------------------------------------------------------------
(* The rows.                                                                  *)
LEMMA PlainIs ==
    \A k \in {"ready", "conflict", "stopped", "denied"} :
        /\ Plain(k) \in Codes /\ CodeInOrder(Plain(k)) /\ Plain(k).tries = 0
        /\ Plain(k).tries <= DEFER_ATTEMPTS
        /\ TakingANewKey(Plain(k)) <=> k = "conflict"
BY InboxAssumption DEF Plain, Codes, CodeInOrder, TakingANewKey

LEMMA SetCodeIs ==
    ASSUME TypeOK, NEW t \in Tokens, NEW code \in Codes
    PROVE  /\ SetCode(t, code) \in [Tokens -> Rows \cup {NoRow}]
           /\ \A u \in Tokens : u # t => SetCode(t, code)[u] = inbox[u]
           /\ SetCode(t, code)[t] # NoRow <=> inbox[t] # NoRow
           /\ SetCode(t, code)[t] # NoRow =>
                 /\ SetCode(t, code)[t].entered = inbox[t].entered
                 /\ SetCode(t, code)[t].code = code
<1>1. inbox \in [Tokens -> Rows \cup {NoRow}]
  BY DEF TypeOK
<1>2. CASE inbox[t] = NoRow
  BY <1>1, <1>2 DEF SetCode
<1>3. CASE inbox[t] # NoRow
  <2>1. inbox[t] \in Rows
    BY <1>1, <1>3
  <2>2. SetCode(t, code) = [inbox EXCEPT ![t] = [inbox[t] EXCEPT !.code = code]]
    BY <1>1, <1>3 DEF SetCode
  <2>3. /\ [inbox[t] EXCEPT !.code = code] \in Rows
        /\ [inbox[t] EXCEPT !.code = code].entered = inbox[t].entered
        /\ [inbox[t] EXCEPT !.code = code].code = code
    BY <2>1 DEF Rows
  <2>4. [inbox[t] EXCEPT !.code = code] # NoRow
    BY <2>3, Nothing
  <2>. QED  BY <1>1, <1>3, <2>2, <2>3, <2>4
<1>. QED  BY <1>2, <1>3

(* A row whose code is written, or that goes, leaves the rows in order.       *)
RowsGoOn ==
    /\ inbox' \in [Tokens -> Rows \cup {NoRow}] /\ Steady
    /\ TypeOK' => RowsInOrder'
    /\ (forgotten \cap Waiting)' = {}

LEMMA CodeWritten ==
    ASSUME Inv, NEW t \in Tokens, NEW code \in Codes, CodeInOrder(code),
           TakingANewKey(code) => t \in Occupied,
           inbox' = SetCode(t, code), UNCHANGED <<stored, private, entry, forgotten>>
    PROVE  RowsGoOn
<1>1. /\ inbox' \in [Tokens -> Rows \cup {NoRow}]
      /\ \A u \in Tokens : u # t => inbox'[u] = inbox[u]
      /\ inbox'[t] # NoRow <=> inbox[t] # NoRow
      /\ inbox'[t] # NoRow => inbox'[t].entered = inbox[t].entered /\ inbox'[t].code = code
  BY SetCodeIs DEF Inv
<1>2. Steady
  BY <1>1, SteadyIf DEF Inv
<1>3. ASSUME NEW u \in Tokens, inbox'[u] # NoRow, inbox'[u] # inbox[u]
      PROVE  /\ inbox'[u].entered <= Len(entry) /\ CodeInOrder(inbox'[u].code)
             /\ TakingANewKey(inbox'[u].code) => u \in Occupied
  BY <1>1, <1>3 DEF Inv, RowsInOrder
<1>4. TypeOK' => RowsInOrder'
  BY <1>2, <1>3, RowsStay
<1>5. Waiting' = Waiting
  BY <1>1 DEF Waiting
<1>. QED  BY <1>1, <1>2, <1>4, <1>5 DEF Inv, RowsGoOn

LEMMA RowGone ==
    ASSUME Inv, NEW t \in Tokens,
           inbox' = [inbox EXCEPT ![t] = NoRow], UNCHANGED <<stored, private, entry, forgotten>>
    PROVE  RowsGoOn
<1>1. /\ inbox' \in [Tokens -> Rows \cup {NoRow}]
      /\ \A u \in Tokens : inbox'[u] # NoRow => inbox'[u] = inbox[u]
  BY DEF Inv, TypeOK
<1>2. Steady
  BY <1>1, SteadyIf DEF Inv
<1>3. TypeOK' => RowsInOrder'
  BY <1>1, <1>2, RowsStay
<1>4. Waiting' \subseteq Waiting
  BY <1>1 DEF Waiting
<1>. QED  BY <1>1, <1>2, <1>3, <1>4 DEF Inv, RowsGoOn

LEMMA RowsUntouched ==
    ASSUME Inv, UNCHANGED <<stored, inbox, private, entry, forgotten>>
    PROVE  /\ Steady
           /\ TypeOK' => RowsInOrder' /\ KeysInOrder'
           /\ (forgotten \cap Waiting)' = {}
<1>1. Steady
  BY SteadyIf DEF Inv
<1>2. TypeOK' => RowsInOrder' /\ KeysInOrder'
  BY <1>1, RowsStay, KeysStay
<1>. QED  BY <1>1, <1>2 DEF Inv, Waiting

-----------------------------------------------------------------------------
(* A capture comes, and its commit.                                           *)
LEMMA EnqueueInv ==
    ASSUME Inv, NEW h \in Hook, NEW c \in Capture, Enqueue(h, c)
    PROVE  Inv'
<1> DEFINE t == TokenOf(c)
           row == [moment |-> c.moment, entered |-> Len(entry), code |-> Plain("ready")]
<1>1. c \in Captures /\ t \in Tokens /\ c.moment \in Moment /\ h \in Process /\ h # Worker
  BY InboxAssumption, TokenIs DEF Process, Captures
<1>2. row \in Rows /\ row # NoRow /\ row.entered = Len(entry) /\ row.code = Plain("ready")
  BY <1>1, PlainIs, Nothing DEF Rows, Inv, TypeOK
<1>3. /\ inbox \in [Tokens -> Rows \cup {NoRow}]
      /\ inbox' = IF inbox[t] # NoRow THEN inbox ELSE [inbox EXCEPT ![t] = row]
  BY <1>1 DEF Enqueue, Waiting, Inv, TypeOK
<1>4. /\ inbox' \in [Tokens -> Rows \cup {NoRow}]
      /\ \A u \in Tokens : u # t => inbox'[u] = inbox[u]
      /\ inbox'[t] # NoRow
      /\ inbox[t] # NoRow => inbox' = inbox
      /\ inbox[t] = NoRow => inbox'[t] = row
  BY <1>1, <1>2, <1>3
<1>5. Steady
  <2>1. Grown
    BY DEF Enqueue, Grown
  <2>2. RuleRevision' = RuleRevision /\ Barred' = Barred /\ RuleRevision \in Nat
        /\ RuleRevision <= MaxActs /\ entry' = entry /\ Len(entry) \in Nat
    BY InboxAssumption DEF Enqueue, RuleRevision, Barred, Covered, Inv, TypeOK
  <2>3. \A u \in Tokens : inbox'[u] # NoRow =>
            \/ inbox[u] # NoRow /\ inbox'[u].entered = inbox[u].entered
            \/ inbox[u] = NoRow /\ inbox'[u].entered = Len(entry)
    BY <1>2, <1>4
  <2>. QED  BY <2>1, <2>2, <2>3 DEF Steady
<1> DEFINE kept == IF t \in Waiting THEN PriorRow(c, inbox[t]) ELSE NewRow(c)
           new == [step |-> "commit", token |-> t, moment |-> kept.moment,
                   dated |-> kept.moment, key |-> HostKey,
                   path |-> "original", entered |-> kept.entered, rules |-> kept.rules,
                   code |-> Plain("ready")]
<1>6. /\ kept.moment \in Moment /\ kept.rules \in 0 .. Unchecked /\ kept.entered \in Nat
      /\ kept.entered = inbox'[t].entered /\ kept.entered <= Len(entry)
      /\ kept.rules = Unchecked \/ (kept.rules = RuleRevision /\ kept.moment \notin Barred)
  <2>1. RuleRevision \in 0 .. MaxActs /\ MaxActs \in Nat /\ Unchecked = MaxActs + 1
    BY InboxAssumption DEF Inv, TypeOK, RuleRevision, Unchecked
  <2>2. CASE inbox[t] # NoRow
    <3>1. kept = [moment |-> inbox[t].moment, entered |-> inbox[t].entered, rules |-> Unchecked]
      BY <1>1, <2>2 DEF Waiting, PriorRow
    <3>2. inbox[t] \in Rows
      BY <1>1, <1>3, <2>2
    <3>3. inbox[t].moment \in Moment /\ inbox[t].entered \in Nat /\ inbox[t].entered <= Len(entry)
      BY <1>1, <2>2, <3>2 DEF Rows, Inv, RowsInOrder
    <3>4. kept.moment = inbox[t].moment /\ kept.entered = inbox[t].entered /\ kept.rules = Unchecked
      BY <3>1
    <3> HIDE DEF kept
    <3>. QED  BY <1>4, <2>1, <2>2, <3>3, <3>4
  <2>3. CASE inbox[t] = NoRow
    <3>1. kept = [moment |-> c.moment, entered |-> Len(entry), rules |-> RuleRevision]
      BY <2>3 DEF Waiting, NewRow
    <3>2. kept.moment = c.moment /\ kept.entered = Len(entry) /\ kept.rules = RuleRevision
      BY <3>1
    <3>3. c.moment \notin Barred /\ Len(entry) \in Nat
      BY DEF Enqueue, Barred, Inv, TypeOK
    <3> HIDE DEF kept
    <3>. QED  BY <1>1, <1>2, <1>4, <2>1, <2>3, <3>2, <3>3
  <2>. QED  BY <2>2, <2>3
<1>7. job' = [job EXCEPT ![h] = new]
  BY DEF Enqueue
<1> HIDE DEF kept
<1>8. /\ new \in Jobs /\ new.key = HostKey /\ new.path = "original" /\ new.token = t
      /\ new.entered = kept.entered /\ new.code = Plain("ready") /\ new.rules = kept.rules
      /\ new.dated = kept.moment /\ new.step = "commit"
  BY <1>1, <1>6, KeysDiffer, PlainIs DEF Jobs
<1> HIDE DEF new
<1>9. /\ job' \in [Process -> Jobs \cup {Idle}] /\ job'[h] = new
      /\ \A q \in Process : q # h => job'[q] = job[q]
  BY <1>1, <1>7, <1>8 DEF Inv, TypeOK, Process
<1>10. TypeOK'
  <2>1. UNCHANGED <<stored, page, now, private, entry, faults>> /\ acts' = acts + 1 /\ acts < MaxActs
    BY DEF Enqueue, Act
  <2>2. forgotten' \subseteq forgotten
    BY DEF Enqueue
  <2>3. acts' \in 0 .. MaxActs
    BY <2>1, InboxAssumption DEF Inv, TypeOK
  <2>. QED  BY <1>4, <1>9, <2>1, <2>2, <2>3 DEF Inv, TypeOK, Process
<1>11. Relies(job[h])' /\ Met(job[h])'
  <2>1. Len(entry') = Len(entry) /\ RuleRevision' = RuleRevision /\ Barred' = Barred
    BY DEF Enqueue, RuleRevision, Barred, Covered
  <2>2. RuleRevision \in 0 .. MaxActs /\ MaxActs \in Nat /\ Unchecked = MaxActs + 1
    BY InboxAssumption DEF Inv, TypeOK, RuleRevision, Unchecked
  <2>3. NoYounger(job[h].entered, job[h].token)'
    BY <1>6, <1>8, <1>9, <2>1 DEF NoYounger
  <2>4. job'[h].rules = Unchecked \/ (job'[h].rules <= RuleRevision' /\ job'[h].path = "original")
    BY <1>6, <1>8, <1>9, <2>1, <2>2
  <2>5. job'[h].rules = RuleRevision' => job'[h].dated \notin Barred'
    BY <1>6, <1>8, <1>9, <2>1, <2>2
  <2>6. job'[h].key = HostKey /\ job'[h].path = "original" /\ job'[h].code.tries <= DEFER_ATTEMPTS
    BY <1>8, <1>9, PlainIs
  <2>7. Relies(job[h])'
    BY <2>3, <2>4, <2>5, <2>6 DEF Relies
  <2>. QED  BY <1>8, <1>9, <2>7, PlainIs DEF Met
<1>12. JobsInOrder'
  <2>1. job'[Worker] # Idle => page' # NoPage
    BY <1>1, <1>9 DEF Enqueue, Inv, JobsInOrder, Process
  <2>. QED  BY <1>1, <1>5, <1>9, <1>10, <1>11, <2>1, OthersStay
<1>13. PageInOrder'
  BY <1>5, <1>10, PageStays DEF Enqueue
<1>14. RowsInOrder'
  <2>1. \A u \in Tokens : inbox'[u] # NoRow /\ inbox'[u] # inbox[u] =>
            /\ inbox'[u].entered <= Len(entry) /\ CodeInOrder(inbox'[u].code)
            /\ TakingANewKey(inbox'[u].code) => u \in Occupied
    <3>1. Len(entry) \in Nat
      BY DEF Inv, TypeOK
    <3>. QED  BY <1>2, <1>4, <3>1, PlainIs
  <2>. QED  BY <1>5, <1>10, <2>1, RowsStay
<1>15. KeysInOrder'
  BY <1>5, <1>10, KeysStay DEF Enqueue
<1>16. RuleRevision' <= acts' /\ (forgotten \cap Waiting)' = {}
  <2>1. RuleRevision' = RuleRevision /\ acts' = acts + 1 /\ RuleRevision \in Nat /\ acts \in Nat
    BY InboxAssumption DEF Enqueue, Act, RuleRevision, Inv, TypeOK
  <2>2. forgotten' = IF inbox[t] # NoRow THEN forgotten ELSE forgotten \ {t}
    BY <1>1 DEF Enqueue, Waiting
  <2>3. Waiting' \subseteq Waiting \cup {t} /\ (inbox[t] # NoRow => Waiting' = Waiting)
    BY <1>4 DEF Waiting
  <2>. QED  BY <2>1, <2>2, <2>3 DEF Inv
<1>. QED  BY <1>10, <1>12, <1>13, <1>14, <1>15, <1>16 DEF Inv

-----------------------------------------------------------------------------
(* The transaction of a commit: what each verdict says of the key it met.     *)
LEMMA VerdictIs ==
    ASSUME Inv, NEW j \in Jobs, Relies(j), Met(j)
    PROVE  /\ Verdict(j) \in {"deleted", "conflict", "inserted", "duplicate"}
           /\ Verdict(j) = "inserted" =>
                 \A r \in Under(j.key) : /\ ~r.blocked /\ r.session = j.token.session
                                         /\ r.revision # j.token.revision
           /\ Verdict(j) = "duplicate" => \E r \in stored : TokenOf(r) = j.token
           /\ Verdict(j) = "deleted" => j.token \in Deleted
           /\ Verdict(j) = "conflict" => j.token \in Occupied
           /\ Verdict(j) = "conflict" /\ j.step = "again" => j.token \in Shut
<1> DEFINE group == Under(j.key)
           deleted == {r \in group : r.blocked}
           same == {r \in group : r.revision = j.token.revision}
<1>1. /\ stored \subseteq Sources /\ j.token \in Tokens /\ j.token.words \in Words
      /\ j.moment \in Moment /\ group \subseteq stored
      /\ \A r \in group : r.key = j.key
  BY DEF Inv, TypeOK, Jobs, Tokens, Under
<1>2. \/ j.key = HostKey
      \/ j.path = "rekeyed" /\ j.key # HostKey /\ j.key.words = j.token.words
  BY <1>1, KeysDiffer DEF Relies
<1>3. Verdict(j) =
        IF deleted # {}
        THEN IF \/ \A r \in deleted : r.revision # j.token.revision
                \/ \E r \in deleted : Holds(j.token.words, r)
             THEN "deleted" ELSE "conflict"
        ELSE IF \E r \in group : r.session # j.token.session THEN "conflict"
        ELSE IF same = {} THEN "inserted"
        ELSE IF \E r \in same : r.words = j.token.words /\ r.moment = j.dated
        THEN "duplicate" ELSE "conflict"
  BY DEF Verdict
<1>4. Verdict(j) \in {"deleted", "conflict", "inserted", "duplicate"}
  BY <1>3
<1>5. Verdict(j) = "inserted" =>
         \A r \in group : /\ ~r.blocked /\ r.session = j.token.session
                          /\ r.revision # j.token.revision
  BY <1>3
<1>6. Verdict(j) = "duplicate" => \E r \in stored : TokenOf(r) = j.token
  <2> SUFFICES ASSUME Verdict(j) = "duplicate" PROVE \E r \in stored : TokenOf(r) = j.token
    OBVIOUS
  <2>1. PICK r \in group : /\ r.revision = j.token.revision /\ r.words = j.token.words
                           /\ r.session = j.token.session
    BY <1>3
  <2>. QED  BY <1>1, <2>1, TokenIs
<1>7. Verdict(j) = "deleted" => j.token \in Deleted
  <2> SUFFICES ASSUME Verdict(j) = "deleted" PROVE j.token \in Deleted
    OBVIOUS
  <2>1. PICK r \in deleted : r.revision # j.token.revision \/ Holds(j.token.words, r)
    BY <1>3
  <2>2. r \in stored /\ r.blocked /\ r.key = j.key
    BY <1>1, <2>1
  <2>3. CASE Holds(j.token.words, r)
    BY <1>1, <2>2, <2>3 DEF Holds, Deleted, HeldByADeleted
  <2>4. CASE r.revision # j.token.revision /\ j.key = HostKey
    BY <1>1, <2>2, <2>4 DEF Deleted, HeldByADeleted
  <2>5. CASE j.key # HostKey
    <3>1. r.words = j.token.words
      BY <1>2, <2>2, <2>5 DEF Inv, KeysInOrder
    <3>. QED  BY <1>1, <2>2, <3>1 DEF Deleted, HeldByADeleted
  <2>. QED  BY <2>1, <2>3, <2>4, <2>5
<1>8. Verdict(j) = "conflict" => j.token \in Occupied
  <2>1. CASE j.key = HostKey
    <3> SUFFICES ASSUME Verdict(j) = "conflict" PROVE j.token \in Occupied
      OBVIOUS
    <3>1. \E r \in group : r.blocked \/ r.session # j.token.session \/ r.revision = j.token.revision
      BY <1>3
    <3>. QED  BY <1>1, <2>1, <3>1 DEF Occupied
  <2>2. CASE j.path = "rekeyed"
    BY <2>2 DEF Met, Shut
  <2>. QED  BY <1>2, <2>1, <2>2
<1>9. Verdict(j) = "conflict" /\ j.step = "again" => j.token \in Shut
  <2>1. CASE j.path = "rekeyed"
    BY <2>1 DEF Met
  <2>2. CASE j.key = HostKey /\ Verdict(j) = "conflict" /\ j.step = "again"
    <3>1. PICK q \in stored : /\ q.key = HostKey /\ q.revision = j.token.revision
                              /\ q.words = j.token.words /\ q.moment = j.dated
      BY <2>2, TextIs DEF Met
    <3>2. q \in group /\ q \in same
      BY <2>2, <3>1 DEF Under
    <3>3. \A r \in group : r.blocked = q.blocked /\ r.session = q.session
      BY <1>1, <2>2, <3>1 DEF Inv, KeysInOrder
    <3>4. q.blocked \/ q.session # j.token.session
      BY <1>3, <2>2, <3>1, <3>2, <3>3
    <3>5. \A r \in group : TokenOf(r) = j.token => r.blocked
      <4> SUFFICES ASSUME NEW r \in group, TokenOf(r) = j.token PROVE r.blocked
        OBVIOUS
      <4>1. r.session = j.token.session
        BY <1>1, TokenIs
      <4>. QED  BY <3>3, <3>4, <4>1
    <3>. QED  BY <1>8, <2>2, <3>5 DEF Shut
  <2>. QED  BY <1>2, <2>1, <2>2
<1> HIDE DEF group, deleted, same
<1>10. group = Under(j.key)
  BY DEF group
<1>. QED  BY <1>4, <1>5, <1>6, <1>7, <1>8, <1>9, <1>10

(* What is stored under a key of its own, or the host's, keeps the keys in    *)
(* order.                                                                     *)
LEMMA StoredIs ==
    ASSUME Inv, NEW j \in Jobs, Relies(j), Met(j), Verdict(j) = "inserted", stored' = Stored(j)
    PROVE  stored' \subseteq Sources /\ Grown /\ (KeysInOrder)'
<1> DEFINE new == [key |-> j.key, revision |-> j.token.revision, session |-> j.token.session,
                   words |-> j.token.words, moment |-> j.dated,
                   blocked |-> FALSE, purged |-> FALSE]
<1>1. /\ new \in Sources /\ new.key = j.key /\ new.session = j.token.session /\ ~new.blocked
      /\ new.words = j.token.words /\ new.revision = j.token.revision
  BY DEF Jobs, Tokens, Sources
<1>2. stored' = stored \cup {new}
  BY DEF Stored
<1> HIDE DEF new
<1>3. TokenOf(new) = j.token /\ j.token \in Tokens /\ j.moment \in Moment /\ j.token.words \in Words
  BY <1>1, TokenIs DEF Jobs, Tokens
<1>4. \A r \in Under(j.key) : ~r.blocked /\ r.session = j.token.session /\ r.revision # j.token.revision
  BY VerdictIs
<1>5. stored' \subseteq Sources
  BY <1>1, <1>2 DEF Inv, TypeOK
<1>6. Grown
  <2>1. j.key = HostKey => j.token \notin Occupied
    BY <1>4 DEF Occupied
  <2>. QED  BY <1>1, <1>2, <1>3, <2>1 DEF Grown
<1>7. KeysInOrder'
  <2>1. \A r \in stored : r.key = j.key => r.session = j.token.session /\ r.blocked = FALSE
    <3>1. \A r \in stored : r.blocked \in BOOLEAN
      BY DEF Inv, TypeOK, Sources
    <3>. QED  BY <1>4, <3>1 DEF Under
  <2>2. \A r, s \in stored' : r.key = s.key => r.session = s.session /\ r.blocked = s.blocked
    <3>1. new.blocked = FALSE
      BY DEF new
    <3>. QED  BY <1>1, <1>2, <2>1, <3>1 DEF Inv, KeysInOrder
  <2>3. Shut \subseteq Shut'
    BY <1>6, StaysMet DEF Inv, TypeOK
  <2>4. j.key # HostKey => j.token \in Shut /\ j.key.words = j.token.words
    BY <1>3, KeysDiffer DEF Relies, Met
  <2>5. \A r \in stored' : r.key # HostKey => r.words = r.key.words /\ TokenOf(r) \in Shut'
    BY <1>1, <1>2, <1>3, <2>3, <2>4 DEF Inv, KeysInOrder
  <2>. QED  BY <2>2, <2>5 DEF KeysInOrder, TokenOf
<1>. QED  BY <1>5, <1>6, <1>7

(* A job that goes on with what it has: the same capture, under the same key. *)
LEMMA JobTurns ==
    ASSUME Inv, NEW p \in Process, job[p] # Idle, NEW new \in Jobs,
           job' = [job EXCEPT ![p] = new]
    PROVE  /\ job' \in [Process -> Jobs \cup {Idle}]
           /\ job'[p] = new
           /\ \A q \in Process : q # p => job'[q] = job[q]
BY DEF Inv, TypeOK, Process

LEMMA GoesOn ==
    ASSUME Inv, NEW p \in Process, job[p] # Idle,
           UNCHANGED <<private, entry>>,
           \A t \in Tokens : inbox'[t] # NoRow => inbox[t] # NoRow /\ inbox'[t].entered = inbox[t].entered,
           job'[p].token = job[p].token, job'[p].path = job[p].path, job'[p].key = job[p].key,
           job'[p].dated = job[p].dated, job'[p].moment = job[p].moment,
           job'[p].entered = job[p].entered, job'[p].rules = job[p].rules,
           job'[p].code.tries <= DEFER_ATTEMPTS
    PROVE  Relies(job[p])'
<1>1. job[p] \in Jobs /\ job[p].token \in Tokens
  BY DEF Inv, TypeOK, Process, Jobs
<1>2. RuleRevision' = RuleRevision /\ Barred' = Barred /\ Len(entry') = Len(entry)
  BY DEF RuleRevision, Barred, Covered
<1>3. Relies(job[p])
  BY DEF Inv, JobsInOrder
<1>. QED  BY <1>1, <1>2, <1>3 DEF Relies, NoYounger

LEMMA RecordInv ==
    ASSUME Inv, NEW p \in Process, Record(p)
    PROVE  Inv'
<1> DEFINE j == job[p]
           out == Outcome(j)
<1>1. j \in Jobs /\ j.token \in Tokens /\ j # Idle /\ j.code \in Codes
      /\ Relies(j) /\ Met(j) /\ j.step \in {"commit", "again"}
  <2>1. j # Idle
    BY DEF Record, Idle
  <2>. QED  BY <2>1 DEF Record, Inv, TypeOK, JobsInOrder, Process, Jobs
<1>2. /\ out \in {"cancelled", "withheld", "deleted", "conflict", "inserted", "duplicate"}
      /\ out \notin {"cancelled", "withheld"} => out = Verdict(j)
  BY <1>1, VerdictIs DEF Outcome
<1>3. /\ stored' = IF out = "inserted" THEN Stored(j) ELSE stored
      /\ inbox' = IF out \in {"withheld", "inserted", "duplicate"}
                  THEN [inbox EXCEPT ![j.token] = NoRow] ELSE inbox
      /\ UNCHANGED <<page, now, private, entry, acts, faults, forgotten>>
  BY DEF Record, world
<1> HIDE DEF out
<1>4. stored' \subseteq Sources /\ Grown /\ (stored' = stored \/ KeysInOrder')
  <2>1. CASE out = "inserted"
    BY <1>1, <1>2, <1>3, <2>1, StoredIs
  <2>2. CASE out # "inserted"
    BY <1>3, <2>2 DEF Grown, Inv, TypeOK
  <2>. QED  BY <2>1, <2>2
<1>5. /\ inbox' \in [Tokens -> Rows \cup {NoRow}]
      /\ \A t \in Tokens : inbox'[t] # NoRow => inbox'[t] = inbox[t]
  BY <1>1, <1>3 DEF Inv, TypeOK
<1>6. Steady
  <2>1. Len(entry) \in Nat /\ RuleRevision \in Nat /\ RuleRevision <= MaxActs
    BY InboxAssumption DEF Inv, TypeOK, RuleRevision
  <2>2. RuleRevision' = RuleRevision /\ Barred' = Barred
    BY <1>3 DEF RuleRevision, Barred, Covered
  <2>. QED  BY <1>3, <1>4, <1>5, <2>1, <2>2 DEF Steady
<1>7. /\ job' \in [Process -> Jobs \cup {Idle}]
      /\ \A q \in Process : q # p => job'[q] = job[q]
      /\ job'[p] = Idle \/ (Relies(job[p])' /\ Met(job[p])')
  <2>0. /\ Occupied \subseteq Occupied' /\ Shut \subseteq Shut'
        /\ Deleted \subseteq Deleted' /\ Texts \subseteq Texts'
    BY <1>4, StaysMet DEF Inv, TypeOK
  <2>c. /\ j.code.tries <= DEFER_ATTEMPTS /\ job \in [Process -> Jobs \cup {Idle}]
        /\ private' = private /\ entry' = entry
        /\ \A t \in Tokens : inbox'[t] # NoRow => inbox[t] # NoRow /\ inbox'[t].entered = inbox[t].entered
    BY <1>1, <1>3, <1>5 DEF Relies, Inv, TypeOK, Process
  <2>m. j.path = "recheck" => j.token \in Occupied'
    BY <1>1, <2>0 DEF Met
  <2>n. j.path = "rekeyed" => j.token \in Shut'
    BY <1>1, <2>0 DEF Met
  <2>1. CASE out = "cancelled"
    <3> DEFINE new == [j EXCEPT !.step = "write", !.code = Plain("denied")]
    <3>1. job' = [job EXCEPT ![p] = new]
      BY <1>1, <2>1 DEF Record, out, Jobs
    <3>2. /\ new \in Jobs /\ new.step = "write" /\ new.token = j.token /\ new.path = j.path
          /\ new.key = j.key /\ new.dated = j.dated /\ new.moment = j.moment
          /\ new.entered = j.entered /\ new.rules = j.rules
          /\ new.code = Plain("denied") /\ new.code.tries <= DEFER_ATTEMPTS
      BY <1>1, <2>c, PlainIs DEF Jobs
    <3> HIDE DEF new
    <3>3. /\ job' \in [Process -> Jobs \cup {Idle}]
          /\ \A q \in Process : q # p => job'[q] = job[q]
          /\ job'[p] = new
      BY <1>1, <2>c, <3>1, <3>2
    <3>4. Relies(job[p])'
      BY <1>1, <2>c, <3>2, <3>3, GoesOn
    <3>6. Met(job[p])'
      BY <2>m, <2>n, <3>2, <3>3, PlainIs DEF Met
    <3>. QED  BY <3>3, <3>4, <3>6
  <2>2. CASE out = "deleted"
    <3> DEFINE new == [j EXCEPT !.step = "remove"]
    <3>1. job' = [job EXCEPT ![p] = new]
      BY <1>1, <2>2 DEF Record, out, Jobs
    <3>2. /\ new \in Jobs /\ new.step = "remove" /\ new.token = j.token /\ new.path = j.path
          /\ new.key = j.key /\ new.dated = j.dated /\ new.moment = j.moment
          /\ new.entered = j.entered /\ new.rules = j.rules
          /\ new.code = j.code /\ new.code.tries <= DEFER_ATTEMPTS
      BY <1>1, <2>c DEF Jobs
    <3> HIDE DEF new
    <3>3. /\ job' \in [Process -> Jobs \cup {Idle}]
          /\ \A q \in Process : q # p => job'[q] = job[q]
          /\ job'[p] = new
      BY <1>1, <2>c, <3>1, <3>2
    <3>4. Relies(job[p])'
      BY <1>1, <2>c, <3>2, <3>3, GoesOn
    <3>5. j.token \in Deleted'
      BY <1>1, <1>2, <2>0, <2>2, VerdictIs
    <3>6. Met(job[p])'
      BY <2>m, <2>n, <3>2, <3>3, <3>5 DEF Met
    <3>. QED  BY <3>3, <3>4, <3>6
  <2>3. CASE out = "conflict"
    <3> DEFINE new == [j EXCEPT !.step = IF j.step = "again" THEN "refused" ELSE "compare"]
    <3>1. job' = [job EXCEPT ![p] = new]
      BY <1>1, <2>3 DEF Record, out, Jobs
    <3>2. /\ new \in Jobs /\ new.step = (IF j.step = "again" THEN "refused" ELSE "compare") /\ new.token = j.token /\ new.path = j.path
          /\ new.key = j.key /\ new.dated = j.dated /\ new.moment = j.moment
          /\ new.entered = j.entered /\ new.rules = j.rules
          /\ new.code = j.code /\ new.code.tries <= DEFER_ATTEMPTS
      BY <1>1, <2>c DEF Jobs
    <3> HIDE DEF new
    <3>3. /\ job' \in [Process -> Jobs \cup {Idle}]
          /\ \A q \in Process : q # p => job'[q] = job[q]
          /\ job'[p] = new
      BY <1>1, <2>c, <3>1, <3>2
    <3>4. Relies(job[p])'
      BY <1>1, <2>c, <3>2, <3>3, GoesOn
    <3>5. j.token \in Occupied' /\ (j.step = "again" => j.token \in Shut')
      BY <1>1, <1>2, <2>0, <2>3, VerdictIs
    <3>6. Met(job[p])'
      BY <2>m, <2>n, <3>2, <3>3, <3>5 DEF Met
    <3>. QED  BY <3>3, <3>4, <3>6
  <2>4. CASE out \in {"withheld", "inserted", "duplicate"}
    <3>1. job' = [job EXCEPT ![p] = Idle]
      BY <2>4 DEF Record, out
    <3>. QED  BY <2>c, <3>1
  <2>. QED  BY <1>2, <2>1, <2>2, <2>3, <2>4
<1>8. TypeOK'
  BY <1>3, <1>4, <1>5, <1>7 DEF Inv, TypeOK, Process
<1>9. JobsInOrder'
  <2>1. job'[Worker] # Idle => job[Worker] # Idle
    BY <1>1, <1>7 DEF Process
  <2>2. job'[Worker] # Idle => page' # NoPage
    BY <1>3, <2>1 DEF Inv, JobsInOrder
  <2>. QED  BY <1>6, <1>7, <1>8, <2>2, OthersStay
<1>10. PageInOrder' /\ RowsInOrder'
  BY <1>3, <1>5, <1>6, <1>8, PageStays, RowsStay
<1>11. KeysInOrder'
  BY <1>4, <1>6, <1>8, KeysStay
<1>12. RuleRevision' <= acts' /\ (forgotten \cap Waiting)' = {}
  BY <1>3, <1>5 DEF Inv, RuleRevision, Waiting
<1>. QED  BY <1>8, <1>9, <1>10, <1>11, <1>12 DEF Inv

-----------------------------------------------------------------------------
(* A collision takes a key of its own, or is left.                            *)
LEMMA UnmatchedStays ==
    ASSUME Inv, NEW p \in Process, job[p] # Idle,
           job[p].token \in Occupied, job[p].path = "recheck" => job[p].token \in Shut,
           job' = [job EXCEPT ![p] = Unmatched(job[p])],
           UNCHANGED <<stored, private, entry>>,
           \A t \in Tokens : inbox'[t] # NoRow => inbox[t] # NoRow /\ inbox'[t].entered = inbox[t].entered
    PROVE  /\ job' \in [Process -> Jobs \cup {Idle}]
           /\ \A q \in Process : q # p => job'[q] = job[q]
           /\ Relies(job[p])' /\ Met(job[p])'
<1> DEFINE j == job[p]
<1>1. /\ j \in Jobs /\ j.token \in Tokens /\ j.path \in {"original", "recheck", "rekeyed"}
      /\ j.token.words \in Words /\ j.moment \in Moment /\ Relies(j) /\ Met(j)
      /\ j.code.tries <= DEFER_ATTEMPTS
  BY DEF Inv, TypeOK, JobsInOrder, Relies, Process, Jobs, Tokens
<1>2. Occupied' = Occupied /\ Shut' = Shut /\ RuleRevision' = RuleRevision /\ Barred' = Barred
      /\ Len(entry') = Len(entry)
  BY DEF Occupied, Shut, Under, RuleRevision, Barred, Covered
<1>3. CASE j.path = "recheck"
  <2> DEFINE new == [j EXCEPT !.step = "check", !.path = "rekeyed", !.dated = j.moment,
                              !.key = Rekeyed(j.token.words, j.moment)]
  <2>1. job' = [job EXCEPT ![p] = new]
    BY <1>3 DEF Unmatched
  <2>2. /\ new \in Jobs /\ new.step = "check" /\ new.path = "rekeyed" /\ new.dated = j.moment
        /\ new.key = Rekeyed(j.token.words, j.moment) /\ new.token = j.token
        /\ new.moment = j.moment /\ new.entered = j.entered /\ new.rules = j.rules
        /\ new.code = j.code
    BY <1>1, KeysDiffer DEF Jobs
  <2> HIDE DEF new
  <2>3. /\ job' \in [Process -> Jobs \cup {Idle}] /\ job'[p] = new
        /\ \A q \in Process : q # p => job'[q] = job[q]
    BY <2>1, <2>2, JobTurns
  <2>4. j.rules = Unchecked /\ Unchecked # RuleRevision
    <3>1. RuleRevision \in 0 .. MaxActs /\ MaxActs \in Nat
      BY InboxAssumption DEF Inv, TypeOK, RuleRevision
    <3>. QED  BY <1>1, <1>3, <3>1 DEF Relies, Unchecked
  <2>5. Relies(job[p])'
    BY <1>1, <1>2, <2>2, <2>3, <2>4 DEF Relies, NoYounger
  <2>6. Met(job[p])'
    BY <1>2, <1>3, <2>2, <2>3 DEF Met
  <2>. QED  BY <2>3, <2>5, <2>6
<1>4. CASE j.path # "recheck"
  <2>0. PICK k \in {"conflict", "stopped"} :
            Unmatched(j) = [j EXCEPT !.step = "write", !.code = Plain(k)]
    BY <1>1, <1>4 DEF Unmatched
  <2> DEFINE new == [j EXCEPT !.step = "write", !.code = Plain(k)]
  <2>1. job' = [job EXCEPT ![p] = new]
    BY <2>0
  <2>2. /\ new \in Jobs /\ new.step = "write" /\ new.code = Plain(k)
        /\ new.token = j.token /\ new.path = j.path /\ new.key = j.key /\ new.dated = j.dated
        /\ new.moment = j.moment /\ new.entered = j.entered /\ new.rules = j.rules
    BY <1>1, PlainIs DEF Jobs
  <2> HIDE DEF new
  <2>3. /\ job' \in [Process -> Jobs \cup {Idle}] /\ job'[p] = new
        /\ \A q \in Process : q # p => job'[q] = job[q]
    BY <2>1, <2>2, JobTurns
  <2>4. new.code.tries <= DEFER_ATTEMPTS
    BY <2>2, PlainIs
  <2>5. Relies(job[p])'
    BY <2>2, <2>3, <2>4, GoesOn
  <2>6. Met(job[p])'
    BY <1>1, <1>2, <1>4, <2>2, <2>3 DEF Met
  <2>. QED  BY <2>3, <2>5, <2>6
<1>. QED  BY <1>3, <1>4

(* A step that changes one job and nothing the others look at.                *)
LEMMA JobStepInv ==
    ASSUME Inv, NEW p \in Process, UNCHANGED <<stored, inbox, world, forgotten, faults>>,
           \A q \in Process : q # p => job'[q] = job[q],
           job' \in [Process -> Jobs \cup {Idle}],
           job'[p] = Idle \/ (Relies(job[p])' /\ Met(job[p])'),
           page' = page \/ (PageInOrder' /\ page' \in Pages \cup {NoPage}),
           job'[Worker] # Idle => page' # NoPage
    PROVE  Inv'
<1>1. TypeOK'
  BY DEF Inv, TypeOK, Process, world
<1>2. Steady /\ RowsInOrder' /\ KeysInOrder' /\ (forgotten \cap Waiting)' = {}
  BY <1>1, RowsUntouched DEF world
<1>3. JobsInOrder'
  BY <1>1, <1>2, OthersStay
<1>4. PageInOrder'
  BY <1>1, <1>2, PageStays
<1>5. RuleRevision' <= acts'
  BY DEF world, RuleRevision, Inv
<1>. QED  BY <1>1, <1>2, <1>3, <1>4, <1>5 DEF Inv

LEMMA CompareInv ==
    ASSUME Inv, NEW p \in Process, Compare(p)
    PROVE  Inv'
<1> DEFINE j == job[p]
<1>1. /\ j \in Jobs /\ j.token \in Tokens /\ j # Idle /\ Relies(j) /\ Met(j)
      /\ j.step = "compare" /\ j.token \in Occupied
  <2>1. j.step = "compare"
    BY DEF Compare
  <2>2. j # Idle
    BY <2>1 DEF Idle
  <2>. QED  BY <2>1, <2>2 DEF Inv, TypeOK, JobsInOrder, Process, Jobs, Met
<1>2. /\ UNCHANGED <<stored, inbox, world, forgotten, faults>> /\ page' = page
      /\ UNCHANGED <<stored, private, entry>>
      /\ \A t \in Tokens : inbox'[t] # NoRow => inbox[t] # NoRow /\ inbox'[t].entered = inbox[t].entered
  BY DEF Compare, world
<1>3. CASE Matching(j) = {} /\ job' = [job EXCEPT ![p] = Unmatched(j)]
  <2>1. j.path = "recheck" => j.token \in Shut
    <3> SUFFICES ASSUME j.path = "recheck", NEW r \in Under(HostKey), TokenOf(r) = j.token
                 PROVE  r.blocked
      BY <1>1 DEF Shut
    <3>1. j.key = HostKey /\ r \in Sources /\ r.blocked \in BOOLEAN
      BY <1>1 DEF Relies, Under, Inv, TypeOK, Sources
    <3>2. r.revision = j.token.revision /\ r.words = j.token.words
      BY <3>1, TokenIs
    <3>. QED  BY <1>3, <3>1, <3>2 DEF Matching
  <2>2. /\ job' \in [Process -> Jobs \cup {Idle}]
        /\ \A q \in Process : q # p => job'[q] = job[q]
        /\ Relies(job[p])' /\ Met(job[p])'
    BY <1>1, <1>2, <1>3, <2>1, UnmatchedStays
  <2>3. job'[Worker] # Idle => page' # NoPage
    BY <1>1, <1>2, <2>2 DEF Inv, JobsInOrder, Process
  <2>. QED  BY <1>2, <2>2, <2>3, JobStepInv
<1>4. ASSUME NEW r \in Matching(j),
             job' = [job EXCEPT ![p] = [j EXCEPT !.step = "again", !.dated = r.moment,
                                                 !.rules = Unchecked]]
      PROVE  Inv'
  <2> DEFINE new == [j EXCEPT !.step = "again", !.dated = r.moment, !.rules = Unchecked]
  <2>1. /\ r \in stored /\ r.key = j.key /\ r.revision = j.token.revision /\ r.words = j.token.words
        /\ r.moment \in Moment
    BY DEF Matching, Under, Inv, TypeOK, Sources
  <2>2. Unchecked \in 0 .. Unchecked /\ Unchecked # RuleRevision
    BY InboxAssumption DEF Unchecked, Inv, TypeOK, RuleRevision
  <2>3. /\ new \in Jobs /\ new.step = "again" /\ new.dated = r.moment /\ new.rules = Unchecked
        /\ new.token = j.token /\ new.path = j.path /\ new.key = j.key /\ new.code = j.code
        /\ new.moment = j.moment /\ new.entered = j.entered
    BY <1>1, <2>1, <2>2 DEF Jobs
  <2> HIDE DEF new
  <2>4. /\ job' \in [Process -> Jobs \cup {Idle}] /\ job'[p] = new
        /\ \A q \in Process : q # p => job'[q] = job[q]
    BY <1>1, <1>4, <2>3, JobTurns DEF new
  <2>5. /\ Occupied' = Occupied /\ Shut' = Shut /\ Texts' = Texts
        /\ RuleRevision' = RuleRevision /\ Len(entry') = Len(entry) /\ inbox' = inbox
    BY <1>2 DEF Occupied, Shut, Under, Texts, RuleRevision
  <2>6. Relies(job[p])'
    BY <1>1, <2>2, <2>3, <2>4, <2>5 DEF Relies, NoYounger
  <2>7. Text(new.key, new.token.revision, new.token.words, new.dated) \in Texts
    BY <2>1, <2>3, TextIs
  <2>8. Met(job[p])'
    BY <1>1, <2>3, <2>4, <2>5, <2>7 DEF Met
  <2>9. job'[Worker] # Idle => page' # NoPage
    BY <1>1, <1>2, <2>4 DEF Inv, JobsInOrder, Process
  <2>. QED  BY <1>2, <2>4, <2>6, <2>8, <2>9, JobStepInv
<1>. QED  BY <1>3, <1>4 DEF Compare

(* A step that changes one job and a row's code, or takes the row away.       *)
LEMMA RowStepInv ==
    ASSUME Inv, NEW p \in Process, UNCHANGED <<stored, page, world, forgotten, faults>>,
           RowsGoOn,
           \A q \in Process : q # p => job'[q] = job[q],
           job' \in [Process -> Jobs \cup {Idle}],
           job[p] # Idle, job'[p] = Idle \/ (Relies(job[p])' /\ Met(job[p])')
    PROVE  Inv'
<1>1. TypeOK'
  BY DEF Inv, TypeOK, Process, world, RowsGoOn
<1>2. RowsInOrder' /\ KeysInOrder'
  BY <1>1, KeysStay DEF RowsGoOn
<1>3. job'[Worker] # Idle => page' # NoPage
  BY DEF Inv, JobsInOrder, Process
<1>4. JobsInOrder'
  BY <1>1, <1>3, OthersStay DEF RowsGoOn
<1>5. PageInOrder'
  BY <1>1, PageStays DEF RowsGoOn
<1>6. RuleRevision' <= acts'
  BY DEF world, RuleRevision, Inv
<1>. QED  BY <1>1, <1>2, <1>4, <1>5, <1>6 DEF Inv, RowsGoOn

LEMMA SettleInv ==
    ASSUME Inv, NEW p \in Process, Settle(p)
    PROVE  Inv'
<1> DEFINE j == job[p]
<1>0. /\ UNCHANGED <<stored, page, world, forgotten, faults>>
      /\ UNCHANGED <<stored, private, entry, forgotten>> /\ UNCHANGED <<stored, private, entry>>
  BY DEF Settle, world
<1>1. j.step \in {"write", "remove", "refused"}
  BY DEF Settle
<1>2. j # Idle
  BY <1>1 DEF Idle
<1>3. /\ j \in Jobs /\ j.token \in Tokens /\ j.code \in Codes /\ Relies(j) /\ Met(j)
      /\ CodeInOrder(j.code)
  BY <1>2 DEF Inv, TypeOK, JobsInOrder, Process, Jobs, Relies, CodeInOrder
<1>4. ASSUME job' = [job EXCEPT ![p] = Idle]
      PROVE  /\ \A q \in Process : q # p => job'[q] = job[q]
             /\ job' \in [Process -> Jobs \cup {Idle}] /\ job'[p] = Idle
  BY <1>4 DEF Inv, TypeOK, Process
<1>5. CASE j.step = "write" /\ inbox' = SetCode(j.token, j.code) /\ job' = [job EXCEPT ![p] = Idle]
  <2>1. TakingANewKey(j.code) => j.token \in Occupied
    BY <1>3, <1>5 DEF Met
  <2>2. RowsGoOn
    BY <1>0, <1>3, <1>5, <2>1, CodeWritten
  <2>. QED  BY <1>0, <1>2, <1>4, <1>5, <2>2, RowStepInv
<1>6. CASE inbox' = [inbox EXCEPT ![j.token] = NoRow] /\ job' = [job EXCEPT ![p] = Idle]
  <2>1. RowsGoOn
    BY <1>0, <1>3, <1>6, RowGone
  <2>. QED  BY <1>0, <1>2, <1>4, <1>6, <2>1, RowStepInv
<1>7. CASE /\ j.step = "refused" /\ inbox' = SetCode(j.token, Plain("conflict"))
           /\ job' = [job EXCEPT ![p] = Unmatched(j)]
  <2>1. j.token \in Shut /\ j.token \in Occupied
    BY <1>3, <1>7 DEF Met, Shut
  <2>2. RowsGoOn
    BY <1>0, <1>3, <1>7, <2>1, CodeWritten, PlainIs
  <2>3. \A t \in Tokens : inbox'[t] # NoRow => inbox[t] # NoRow /\ inbox'[t].entered = inbox[t].entered
    BY <1>3, <1>7, SetCodeIs, PlainIs DEF Inv
  <2>4. /\ job' \in [Process -> Jobs \cup {Idle}]
        /\ \A q \in Process : q # p => job'[q] = job[q]
        /\ Relies(job[p])' /\ Met(job[p])'
    BY <1>0, <1>2, <1>7, <2>1, <2>3, UnmatchedStays
  <2>. QED  BY <1>0, <1>2, <2>2, <2>4, RowStepInv
<1>. QED  BY <1>5, <1>6, <1>7 DEF Settle

LEMMA InterruptedInv ==
    ASSUME Inv, NEW p \in Process, Interrupted(p)
    PROVE  Inv'
<1>1. /\ UNCHANGED <<stored, inbox, world, forgotten>> /\ job[p] # Idle
      /\ UNCHANGED <<stored, inbox, private, entry, forgotten>>
      /\ job' = [job EXCEPT ![p] = Idle] /\ faults' = faults + 1 /\ faults < MaxFaults
      /\ page' \in IF p = Worker THEN {page, [page EXCEPT !.rows = {}], NoPage} ELSE {page}
  BY DEF Interrupted, world
<1>2. /\ \A q \in Process : q # p => job'[q] = job[q]
      /\ job' \in [Process -> Jobs \cup {Idle}] /\ job'[p] = Idle
  BY <1>1 DEF Inv, TypeOK, Process
<1>3. /\ page' \in Pages \cup {NoPage}
      /\ page' # NoPage => page # NoPage /\ page'.rows \subseteq page.rows /\ page'.step = page.step
      /\ p # Worker => page' = page
  <2>1. page \in Pages \/ (page = NoPage /\ p # Worker)
    BY <1>1 DEF Inv, TypeOK, JobsInOrder
  <2>. QED  BY <1>1, <2>1, Nothing DEF Pages
<1>4. faults' \in 0 .. MaxFaults
  BY <1>1, InboxAssumption DEF Inv, TypeOK
<1>5. TypeOK'
  BY <1>1, <1>2, <1>3, <1>4 DEF Inv, TypeOK, Process, world
<1>6. Steady /\ RowsInOrder' /\ KeysInOrder' /\ (forgotten \cap Waiting)' = {}
  BY <1>1, <1>5, RowsUntouched
<1>7. job'[Worker] # Idle => page' # NoPage
  BY <1>2, <1>3 DEF Inv, JobsInOrder, Process
<1>8. JobsInOrder'
  BY <1>2, <1>5, <1>6, <1>7, OthersStay
<1>9. PageInOrder'
  BY <1>3, <1>5, <1>6, PageStays
<1>10. RuleRevision' <= acts'
  BY <1>1 DEF world, RuleRevision, Inv
<1>. QED  BY <1>5, <1>6, <1>8, <1>9, <1>10 DEF Inv

-----------------------------------------------------------------------------
(* The worker's pass.                                                         *)
LEMMA PageRead ==
    ASSUME Inv, UNCHANGED <<stored, inbox, job, world, faults, forgotten>>,
           NEW step \in {"replay", "resolve"}, NEW S \in SUBSET Waiting,
           \A t \in S : /\ inbox[t].code.kind # "given_up"
                        /\ step = "resolve" => TakingANewKey(inbox[t].code),
           page' = [step |-> step, rows |-> {[token |-> t, row |-> inbox[t]] : t \in S}]
    PROVE  Inv'
<1>1. \A t \in S : /\ t \in Tokens /\ inbox[t] \in Rows /\ inbox[t] # NoRow
                   /\ [token |-> t, row |-> inbox[t]] \in [token : Tokens, row : Rows]
  BY DEF Waiting, Inv, TypeOK
<1>2. page' \in Pages /\ page' # NoPage /\ page'.step = step
      /\ page'.rows = {[token |-> t, row |-> inbox[t]] : t \in S}
  BY <1>1, Nothing DEF Pages
<1>3. \A item \in page'.rows : item.token \in S /\ item.row = inbox[item.token]
  BY <1>2
<1>4. Occupied' = Occupied /\ inbox' = inbox /\ entry' = entry
  BY DEF Occupied, Under, world
<1>5. ASSUME NEW item \in page'.rows
      PROVE  /\ NoYounger(item.row.entered, item.token)'
             /\ item.row.code.tries <= DEFER_ATTEMPTS
             /\ step = "resolve" => item.token \in Occupied
  <2>1. item.token \in S /\ item.row = inbox[item.token] /\ item.token \in Tokens
        /\ inbox[item.token] \in Rows /\ inbox[item.token] # NoRow
    BY <1>1, <1>3
  <2>2. /\ inbox[item.token].entered <= Len(entry) /\ CodeInOrder(inbox[item.token].code)
        /\ TakingANewKey(inbox[item.token].code) => item.token \in Occupied
    BY <2>1 DEF Inv, RowsInOrder
  <2>3. inbox[item.token].entered \in Nat
    BY <2>1 DEF Rows
  <2>. QED  BY <1>4, <2>1, <2>2, <2>3 DEF NoYounger, CodeInOrder
<1>6. PageInOrder'
  BY <1>2, <1>4, <1>5 DEF PageInOrder, NoYounger
<1>7. Worker \in Process /\ \A q \in Process : job'[q] = job[q]
  BY DEF Process
<1>8. TypeOK'
  BY <1>2 DEF Inv, TypeOK, world
<1>9. Steady /\ RowsInOrder' /\ KeysInOrder' /\ (forgotten \cap Waiting)' = {}
  BY <1>8, RowsUntouched DEF world
<1>10. JobsInOrder'
  BY <1>2, <1>7, <1>8, <1>9, OthersStay
<1>11. RuleRevision' <= acts'
  BY DEF world, RuleRevision, Inv
<1>. QED  BY <1>6, <1>8, <1>9, <1>10, <1>11 DEF Inv

LEMMA ReadPageInv == Inv /\ ReadPage => Inv'
<1> SUFFICES ASSUME Inv, ReadPage PROVE Inv'
  OBVIOUS
<1>1. UNCHANGED <<stored, inbox, job, world, faults, forgotten>> /\ job[Worker] = Idle
  BY DEF ReadPage
<1>2. CASE page' = [step |-> "replay", rows |-> Taken(Replayable)]
  <2> DEFINE S == {u \in Waiting : Replayable(inbox[u].code)}
  <2>1. page' = [step |-> "replay", rows |-> {[token |-> t, row |-> inbox[t]] : t \in S}]
    BY <1>2 DEF Taken
  <2>2. \A t \in S : inbox[t].code.kind # "given_up"
    BY DEF Replayable
  <2> HIDE DEF S
  <2>3. S \in SUBSET Waiting
    BY DEF S
  <2>. QED  BY <1>1, <2>1, <2>2, <2>3, PageRead
<1>3. CASE page' = [step |-> "resolve", rows |-> Taken(Resolvable)]
  <2> DEFINE S == {u \in Waiting : Resolvable(inbox[u].code)}
  <2>1. page' = [step |-> "resolve", rows |-> {[token |-> t, row |-> inbox[t]] : t \in S}]
    BY <1>3 DEF Taken
  <2>2. \A t \in S : inbox[t].code.kind # "given_up" /\ TakingANewKey(inbox[t].code)
    BY DEF Resolvable, TakingANewKey
  <2> HIDE DEF S
  <2>3. S \in SUBSET Waiting
    BY DEF S
  <2>. QED  BY <1>1, <2>1, <2>2, <2>3, PageRead
<1>4. CASE page' = NoPage
  <2>1. Worker \in Process /\ job'[Worker] = Idle /\ job' \in [Process -> Jobs \cup {Idle}]
        /\ \A q \in Process : job'[q] = job[q]
    BY <1>1 DEF Process, Inv, TypeOK
  <2>2. PageInOrder' /\ page' \in Pages \cup {NoPage}
    BY <1>4 DEF PageInOrder
  <2>. QED  BY <1>1, <2>1, <2>2, JobStepInv
<1>. QED  BY <1>2, <1>3, <1>4 DEF ReadPage

LEMMA TakeRowInv == Inv /\ TakeRow => Inv'
<1> SUFFICES ASSUME Inv, TakeRow PROVE Inv'
  OBVIOUS
<1>1. /\ UNCHANGED <<stored, inbox, world, forgotten, faults>> /\ page # NoPage
      /\ UNCHANGED <<stored, inbox, private, entry, forgotten>>
  BY DEF TakeRow, world
<1>2. PICK item \in page.rows :
         /\ page' = [page EXCEPT !.rows = @ \ {item}]
         /\ job' = [job EXCEPT ![Worker] =
                       [step |-> "check", token |-> item.token, moment |-> item.row.moment,
                        dated |-> item.row.moment, key |-> HostKey,
                        path |-> IF page.step = "replay" THEN "original" ELSE "recheck",
                        entered |-> item.row.entered, rules |-> Unchecked,
                        code |-> item.row.code]]
  BY DEF TakeRow
<1> DEFINE new == [step |-> "check", token |-> item.token, moment |-> item.row.moment,
                   dated |-> item.row.moment, key |-> HostKey,
                   path |-> IF page.step = "replay" THEN "original" ELSE "recheck",
                   entered |-> item.row.entered, rules |-> Unchecked,
                   code |-> item.row.code]
<1>3. page \in Pages /\ page.step \in {"replay", "resolve"}
  BY <1>1 DEF Inv, TypeOK, Pages
<1>4. /\ item.token \in Tokens /\ item.row.moment \in Moment /\ item.row.entered \in Nat
      /\ item.row.code \in Codes
  BY <1>2, <1>3 DEF Pages, Rows
<1>5. /\ NoYounger(item.row.entered, item.token) /\ item.row.code.tries <= DEFER_ATTEMPTS
      /\ page.step = "resolve" => item.token \in Occupied
  BY <1>1, <1>2 DEF Inv, PageInOrder
<1>6. Unchecked \in 0 .. Unchecked /\ Unchecked # RuleRevision
  BY InboxAssumption DEF Unchecked, Inv, TypeOK, RuleRevision
<1>7. /\ page' \in Pages /\ page' # NoPage /\ page'.rows \subseteq page.rows
      /\ page'.step = page.step
  BY <1>2, <1>3, Nothing DEF Pages
<1>8. /\ new \in Jobs /\ new.step = "check" /\ new.token = item.token /\ new.key = HostKey
      /\ new.path \in {"original", "recheck"} /\ (new.path = "recheck" => page.step = "resolve")
      /\ new.entered = item.row.entered /\ new.rules = Unchecked /\ new.code = item.row.code
  BY <1>3, <1>4, <1>6, KeysDiffer DEF Jobs
<1>9. job' = [job EXCEPT ![Worker] = new]
  BY <1>2
<1> HIDE DEF new
<1>10. /\ job' \in [Process -> Jobs \cup {Idle}] /\ job'[Worker] = new /\ Worker \in Process
       /\ \A q \in Process : q # Worker => job'[q] = job[q]
  BY <1>8, <1>9 DEF Inv, TypeOK, Process
<1>11. TypeOK'
  BY <1>1, <1>7, <1>10 DEF Inv, TypeOK, Process, world, TakeRow
<1>12. Steady /\ RowsInOrder' /\ KeysInOrder' /\ (forgotten \cap Waiting)' = {}
  BY <1>1, <1>11, RowsUntouched
<1>13. Occupied' = Occupied /\ inbox' = inbox /\ Len(entry') = Len(entry)
       /\ RuleRevision' = RuleRevision
  BY <1>1 DEF Occupied, Under, RuleRevision
<1>14. Relies(job[Worker])'
  BY <1>5, <1>6, <1>8, <1>10, <1>13 DEF Relies, NoYounger
<1>15. Met(job[Worker])'
  BY <1>5, <1>8, <1>10, <1>13 DEF Met
<1>16. JobsInOrder'
  BY <1>7, <1>10, <1>11, <1>12, <1>14, <1>15, OthersStay
<1>17. PageInOrder'
  BY <1>1, <1>7, <1>11, <1>12, PageStays
<1>18. RuleRevision' <= acts'
  BY <1>1, <1>13 DEF world, Inv
<1>. QED  BY <1>11, <1>12, <1>16, <1>17, <1>18 DEF Inv

(* A row put off has tries left, or it is given up.                           *)
LEMMA DeferralIs ==
    ASSUME NEW j \in Jobs, j.code.tries <= DEFER_ATTEMPTS
    PROVE  /\ Deferral(j) \in Codes /\ CodeInOrder(Deferral(j))
           /\ TakingANewKey(Deferral(j)) => j.path # "original"
<1>1. j.code.tries \in 0 .. DEFER_ATTEMPTS /\ DEFER_ATTEMPTS \in Nat
  BY InboxAssumption DEF Jobs, Codes
<1> DEFINE tries == j.code.tries + 1
           kind == IF tries > DEFER_ATTEMPTS THEN "given_up" ELSE "deferred"
<1>2. tries \in 0 .. DEFER_ATTEMPTS + 1 /\ (kind # "given_up" => tries <= DEFER_ATTEMPTS)
      /\ kind \in {"given_up", "deferred"}
  BY <1>1
<1>3. CASE j.path = "original"
  <2>1. (j.path # "original") = FALSE
    BY <1>3
  <2>2. Deferral(j) = [kind |-> kind, tries |-> tries, rekey |-> FALSE, due |-> FALSE]
    BY <2>1, Zenon DEF Deferral
  <2> HIDE DEF tries, kind
  <2>. QED  BY <1>2, <2>2 DEF Codes, CodeInOrder, TakingANewKey
<1>4. CASE j.path # "original"
  <2>1. (j.path # "original") = TRUE
    BY <1>4
  <2>2. Deferral(j) = [kind |-> kind, tries |-> tries, rekey |-> TRUE, due |-> FALSE]
    BY <2>1, Zenon DEF Deferral
  <2> HIDE DEF tries, kind
  <2>. QED  BY <1>2, <1>4, <2>2 DEF Codes, CodeInOrder, TakingANewKey
<1>. QED  BY <1>3, <1>4

LEMMA RevalidateInv == Inv /\ Revalidate => Inv'
<1> SUFFICES ASSUME Inv, Revalidate PROVE Inv'
  OBVIOUS
<1> DEFINE j == job[Worker]
<1>0. /\ UNCHANGED <<stored, page, world, forgotten, faults>>
      /\ UNCHANGED <<stored, private, entry, forgotten>> /\ UNCHANGED <<private, entry>>
  BY DEF Revalidate, world
<1>1. Worker \in Process /\ j.step = "check"
  BY DEF Revalidate, Process
<1>2. j # Idle
  BY <1>1 DEF Idle
<1>3. /\ j \in Jobs /\ j.token \in Tokens /\ j.code \in Codes /\ Relies(j) /\ Met(j)
      /\ j.code.tries <= DEFER_ATTEMPTS /\ j.path \in {"original", "recheck", "rekeyed"}
  BY <1>2 DEF Inv, TypeOK, JobsInOrder, Process, Jobs, Relies
<1>4. ASSUME job' = [job EXCEPT ![Worker] = Idle]
      PROVE  /\ \A q \in Process : q # Worker => job'[q] = job[q]
             /\ job' \in [Process -> Jobs \cup {Idle}] /\ job'[Worker] = Idle
  BY <1>4 DEF Inv, TypeOK, Process
<1>5. CASE /\ job' = [job EXCEPT ![Worker].step = IF j.path = "recheck" THEN "compare" ELSE "commit"]
           /\ inbox' = inbox
  <2> DEFINE new == [j EXCEPT !.step = IF j.path = "recheck" THEN "compare" ELSE "commit"]
  <2>1. job' = [job EXCEPT ![Worker] = new]
    BY <1>1, <1>5 DEF Inv, TypeOK, Process
  <2>2. /\ new \in Jobs /\ new.token = j.token /\ new.path = j.path /\ new.key = j.key
        /\ new.dated = j.dated /\ new.moment = j.moment /\ new.entered = j.entered
        /\ new.rules = j.rules /\ new.code = j.code
        /\ new.step = IF j.path = "recheck" THEN "compare" ELSE "commit"
    BY <1>3 DEF Jobs
  <2> HIDE DEF new
  <2>3. /\ job' \in [Process -> Jobs \cup {Idle}] /\ job'[Worker] = new
        /\ \A q \in Process : q # Worker => job'[q] = job[q]
    BY <1>1, <1>2, <2>1, <2>2, JobTurns
  <2>4. \A t \in Tokens : inbox'[t] # NoRow => inbox[t] # NoRow /\ inbox'[t].entered = inbox[t].entered
    BY <1>5
  <2>5. Relies(job[Worker])'
    BY <1>0, <1>1, <1>2, <1>3, <2>2, <2>3, <2>4, GoesOn
  <2>6. Occupied' = Occupied /\ Shut' = Shut
    BY <1>0 DEF Occupied, Shut, Under
  <2>7. Met(job[Worker])'
    BY <1>3, <2>2, <2>3, <2>6 DEF Met
  <2>8. job'[Worker] # Idle => page' # NoPage
    BY <1>0, <1>2 DEF Inv, JobsInOrder
  <2>9. UNCHANGED <<stored, inbox, world, forgotten, faults>> /\ page' = page
    BY <1>0, <1>5
  <2>. QED  BY <1>1, <2>3, <2>5, <2>7, <2>8, <2>9, JobStepInv
<1>6. CASE inbox' = [inbox EXCEPT ![j.token] = NoRow] /\ job' = [job EXCEPT ![Worker] = Idle]
  <2>1. RowsGoOn
    BY <1>0, <1>3, <1>6, RowGone
  <2>. QED  BY <1>0, <1>1, <1>2, <1>4, <1>6, <2>1, RowStepInv
<1>7. CASE inbox' = SetCode(j.token, Deferral(j)) /\ job' = [job EXCEPT ![Worker] = Idle]
  <2>1. j.path # "original" => j.token \in Occupied
    BY <1>3 DEF Met, Shut
  <2>2. RowsGoOn
    BY <1>0, <1>3, <1>7, <2>1, DeferralIs, CodeWritten
  <2>. QED  BY <1>0, <1>1, <1>2, <1>4, <1>7, <2>2, RowStepInv
<1>. QED  BY <1>5, <1>6, <1>7 DEF Revalidate

(* A step that changes codes only, each to one of the same standing.          *)
LEMMA CodesStepInv ==
    ASSUME Inv, UNCHANGED <<stored, job, page, world, faults, forgotten>>,
           inbox' \in [Tokens -> Rows \cup {NoRow}],
           \A t \in Tokens : inbox'[t] # NoRow =>
              /\ inbox[t] # NoRow /\ inbox'[t].entered = inbox[t].entered
              /\ CodeInOrder(inbox'[t].code)
              /\ TakingANewKey(inbox'[t].code) => TakingANewKey(inbox[t].code)
    PROVE  Inv'
<1>1. TypeOK'
  BY DEF Inv, TypeOK, world
<1>2. Steady
  BY SteadyIf DEF Inv, world
<1>3. RowsInOrder'
  <2>1. \A t \in Tokens : inbox'[t] # NoRow /\ inbox'[t] # inbox[t] =>
           /\ inbox'[t].entered <= Len(entry) /\ CodeInOrder(inbox'[t].code)
           /\ TakingANewKey(inbox'[t].code) => t \in Occupied
    BY DEF Inv, RowsInOrder
  <2>. QED  BY <1>1, <1>2, <2>1, RowsStay
<1>4. JobsInOrder' /\ PageInOrder' /\ KeysInOrder'
  BY <1>1, <1>2, JobsStay, PageStays, KeysStay
<1>5. RuleRevision' <= acts'
  BY DEF world, RuleRevision, Inv
<1>6. (forgotten \cap Waiting)' = {}
  BY DEF Waiting, Inv
<1>. QED  BY <1>1, <1>3, <1>4, <1>5, <1>6 DEF Inv

LEMMA DueInv ==
    ASSUME Inv, NEW t \in Tokens, Due(t)
    PROVE  Inv'
<1>1. t \in Waiting /\ inbox[t].code.kind = "deferred"
      /\ inbox' = [inbox EXCEPT ![t].code.due = TRUE]
      /\ UNCHANGED <<stored, job, page, world, faults, forgotten>>
  BY DEF Due
<1>2. inbox[t] \in Rows /\ inbox[t] # NoRow /\ CodeInOrder(inbox[t].code)
      /\ inbox \in [Tokens -> Rows \cup {NoRow}]
  BY <1>1 DEF Waiting, Inv, TypeOK, RowsInOrder
<1> DEFINE new == [inbox[t] EXCEPT !.code.due = TRUE]
<1>3. inbox' = [inbox EXCEPT ![t] = new]
  BY <1>1, <1>2
<1>4. /\ new \in Rows /\ new.entered = inbox[t].entered /\ new.code.kind = inbox[t].code.kind
      /\ new.code.tries = inbox[t].code.tries /\ new.code.rekey = inbox[t].code.rekey
  BY <1>2 DEF Rows, Codes
<1> HIDE DEF new
<1>5. CodeInOrder(new.code) /\ (TakingANewKey(new.code) => TakingANewKey(inbox[t].code))
  BY <1>2, <1>4 DEF CodeInOrder, TakingANewKey
<1>6. /\ inbox' \in [Tokens -> Rows \cup {NoRow}]
      /\ \A u \in Tokens : inbox'[u] # NoRow =>
            /\ inbox[u] # NoRow /\ inbox'[u].entered = inbox[u].entered
            /\ CodeInOrder(inbox'[u].code)
            /\ TakingANewKey(inbox'[u].code) => TakingANewKey(inbox[u].code)
  BY <1>2, <1>3, <1>4, <1>5 DEF Inv, RowsInOrder
<1>. QED  BY <1>1, <1>6, CodesStepInv

LEMMA RetryFailuresInv == Inv /\ RetryFailures => Inv'
<1> SUFFICES ASSUME Inv, RetryFailures PROVE Inv'
  OBVIOUS
<1> DEFINE Failed(t) == t \in Waiting /\ inbox[t].code.kind \in {"given_up", "denied"}
           code(t) == Plain(IF inbox[t].code.rekey THEN "conflict" ELSE "ready")
<1>1. inbox' = [t \in Tokens |-> IF Failed(t) THEN [inbox[t] EXCEPT !.code = code(t)] ELSE inbox[t]]
  BY DEF RetryFailures, Waiting
<1>2. ASSUME NEW t \in Tokens
      PROVE  /\ inbox'[t] \in Rows \cup {NoRow}
             /\ inbox'[t] # NoRow =>
                  /\ inbox[t] # NoRow /\ inbox'[t].entered = inbox[t].entered
                  /\ CodeInOrder(inbox'[t].code)
                  /\ TakingANewKey(inbox'[t].code) => TakingANewKey(inbox[t].code)
  <2>1. CASE ~Failed(t)
    BY <1>1, <2>1 DEF Inv, TypeOK, RowsInOrder
  <2>2. CASE Failed(t)
    <3>1. inbox[t] \in Rows /\ inbox[t] # NoRow
      BY <2>2 DEF Waiting, Inv, TypeOK
    <3>2. /\ code(t) \in Codes /\ CodeInOrder(code(t))
          /\ TakingANewKey(code(t)) => inbox[t].code.rekey
      BY PlainIs
    <3>3. inbox'[t] = [inbox[t] EXCEPT !.code = code(t)]
      BY <1>1, <2>2
    <3> HIDE DEF code
    <3>4. inbox'[t] \in Rows /\ inbox'[t].entered = inbox[t].entered /\ inbox'[t].code = code(t)
      BY <3>1, <3>2, <3>3 DEF Rows
    <3>. QED  BY <3>1, <3>2, <3>4 DEF TakingANewKey
  <2>. QED  BY <2>1, <2>2
<1>3. inbox' \in [Tokens -> Rows \cup {NoRow}]
  <2> HIDE DEF Failed, code
  <2>. QED  BY <1>1, <1>2
<1>4. UNCHANGED <<stored, job, page, world, faults, forgotten>>
  BY DEF RetryFailures
<1>. QED  BY <1>2, <1>3, <1>4, CodesStepInv

-----------------------------------------------------------------------------
(* What the owner does.                                                       *)

(* s is r, after a delete or a purge.                                         *)
Forgets(r, s) ==
    /\ s.key = r.key /\ s.revision = r.revision /\ s.session = r.session
    /\ s.words = r.words /\ s.moment = r.moment /\ s.blocked = TRUE

LEMMA MessageForgotten ==
    ASSUME Inv, NEW key \in Keys, stored' \subseteq Sources,
           \A r \in stored : IF r.key = key THEN \E s \in stored' : Forgets(r, s) ELSE r \in stored',
           \A s \in stored' : \/ s \in stored /\ s.key # key
                              \/ s.key = key /\ \E r \in Under(key) : Forgets(r, s)
    PROVE  Grown /\ KeysInOrder'
<1>1. Grown
  <2>1. \A r \in stored : \E s \in stored' :
          /\ s.key = r.key /\ s.revision = r.revision /\ s.session = r.session
          /\ s.words = r.words /\ s.moment = r.moment /\ (r.blocked => s.blocked)
    BY DEF Forgets
  <2>2. \A s \in stored' : ~s.blocked => s \in stored
    BY DEF Forgets
  <2>. QED  BY <2>1, <2>2 DEF Grown
<1>2. Shut \subseteq Shut'
  BY <1>1, StaysMet DEF Inv, TypeOK
<1>3. ASSUME NEW r \in stored', NEW s \in stored', r.key = s.key
      PROVE  r.session = s.session /\ r.blocked = s.blocked
  <2>1. CASE r.key = key
    <3>1. PICK u \in Under(key) : Forgets(u, r)
      BY <2>1
    <3>2. PICK v \in Under(key) : Forgets(v, s)
      BY <1>3, <2>1
    <3>3. u.session = v.session
      BY DEF Under, Inv, KeysInOrder
    <3>. QED  BY <3>1, <3>2, <3>3 DEF Forgets
  <2>2. CASE r.key # key
    BY <1>3, <2>2 DEF Inv, KeysInOrder
  <2>. QED  BY <2>1, <2>2
<1>4. ASSUME NEW s \in stored', s.key # HostKey
      PROVE  s.words = s.key.words /\ TokenOf(s) \in Shut'
  <2>1. PICK r \in stored : r.key = s.key /\ r.words = s.words /\ TokenOf(r) = TokenOf(s)
    BY DEF Forgets, Under, TokenOf
  <2>2. r.words = r.key.words /\ TokenOf(r) \in Shut
    BY <1>4, <2>1 DEF Inv, KeysInOrder
  <2>. QED  BY <1>2, <2>1, <2>2
<1>. QED  BY <1>1, <1>3, <1>4 DEF KeysInOrder, TokenOf

LEMMA ForgetInv ==
    ASSUME Inv, NEW key \in Keys, stored' \subseteq Sources, Grown, KeysInOrder', Act,
           UNCHANGED <<job, page, now, private, entry, faults>>,
           inbox' \in [Tokens -> Rows \cup {NoRow}],
           \A t \in Tokens : inbox'[t] # NoRow => inbox'[t] = inbox[t] /\ t \notin forgotten',
           forgotten' \subseteq Tokens
    PROVE  Inv'
<1>1. acts' \in 0 .. MaxActs /\ acts' = acts + 1 /\ acts \in Nat
  BY InboxAssumption DEF Act, Inv, TypeOK
<1>2. TypeOK'
  BY <1>1 DEF Inv, TypeOK
<1>3. RuleRevision' = RuleRevision /\ Barred' = Barred /\ RuleRevision \in Nat
      /\ RuleRevision <= MaxActs /\ Len(entry) \in Nat
  BY InboxAssumption DEF RuleRevision, Barred, Covered, Inv, TypeOK
<1>4. Steady
  BY <1>3 DEF Steady
<1>5. RowsInOrder' /\ JobsInOrder' /\ PageInOrder'
  BY <1>2, <1>4, RowsStay, JobsStay, PageStays
<1>6. RuleRevision' <= acts' /\ (forgotten \cap Waiting)' = {}
  <2>1. RuleRevision <= acts
    BY DEF Inv
  <2>2. (forgotten \cap Waiting)' = {}
    BY DEF Waiting
  <2>. QED  BY <1>1, <1>3, <2>1, <2>2
<1>. QED  BY <1>2, <1>5, <1>6 DEF Inv

LEMMA DeleteInv ==
    ASSUME Inv, NEW key \in Keys, Delete(key)
    PROVE  Inv'
<1>1. /\ Act /\ UNCHANGED <<job, page, now, private, entry, faults>>
      /\ stored' = (stored \ Under(key)) \cup {[r EXCEPT !.blocked = TRUE] : r \in Under(key)}
      /\ inbox' = [t \in Tokens |-> IF t \in Waiting /\ Cancelled(key, t) THEN NoRow ELSE inbox[t]]
      /\ forgotten' = forgotten \cup {t \in Waiting : \E r \in Under(key) : Holds(t.words, r)}
  BY DEF Delete
<1>2. \A r \in Under(key) : r \in stored /\ r.key = key /\ r \in Sources
  BY DEF Under, Inv, TypeOK
<1>3. \A r \in Under(key) : [r EXCEPT !.blocked = TRUE] \in Sources
                            /\ Forgets(r, [r EXCEPT !.blocked = TRUE])
  BY <1>2 DEF Sources, Forgets
<1>4. stored' \subseteq Sources
  BY <1>1, <1>3 DEF Inv, TypeOK
<1>5. Grown /\ KeysInOrder'
  <2>1. \A r \in stored : IF r.key = key THEN \E s \in stored' : Forgets(r, s) ELSE r \in stored'
    BY <1>1, <1>3 DEF Under
  <2>2. ASSUME NEW s \in stored'
        PROVE  \/ s \in stored /\ s.key # key
               \/ s.key = key /\ \E r \in Under(key) : Forgets(r, s)
    <3>1. CASE s \in stored \ Under(key)
      BY <3>1 DEF Under
    <3>2. CASE s \notin stored \ Under(key)
      <4>1. PICK r \in Under(key) : s = [r EXCEPT !.blocked = TRUE]
        BY <1>1, <3>2
      <4>2. Forgets(r, s) /\ r.key = key
        BY <1>3, <4>1, <1>2
      <4>. QED  BY <4>2 DEF Forgets
    <3>. QED  BY <3>1, <3>2
  <2>. QED  BY <1>4, <2>1, <2>2, MessageForgotten
<1>6. inbox' \in [Tokens -> Rows \cup {NoRow}]
  BY <1>1 DEF Inv, TypeOK
<1>7. ASSUME NEW t \in Tokens, inbox'[t] # NoRow
      PROVE  inbox'[t] = inbox[t] /\ t \notin forgotten'
  <2>1. inbox'[t] = inbox[t] /\ t \in Waiting /\ ~Cancelled(key, t)
    BY <1>1, <1>7 DEF Waiting
  <2>2. ~ \E r \in Under(key) : Holds(t.words, r)
    BY <2>1 DEF Cancelled
  <2>. QED  BY <1>1, <2>1, <2>2 DEF Inv
<1>8. forgotten' \subseteq Tokens
  BY <1>1 DEF Waiting, Inv, TypeOK
<1>. QED  BY <1>1, <1>4, <1>5, <1>6, <1>7, <1>8, ForgetInv

LEMMA PurgeInv ==
    ASSUME Inv, NEW key \in Keys, Purge(key)
    PROVE  Inv'
<1>1. /\ Act /\ UNCHANGED <<job, page, now, private, entry, faults>>
      /\ UNCHANGED <<inbox, forgotten>>
      /\ stored' = (stored \ Under(key)) \cup {[r EXCEPT !.purged = TRUE] : r \in Under(key)}
  BY DEF Purge
<1>2. PICK d \in Under(key) : d.blocked
  BY DEF Purge
<1>3. \A r \in Under(key) : r \in stored /\ r.key = key /\ r \in Sources /\ r.blocked = TRUE
  BY <1>2 DEF Under, Inv, TypeOK, KeysInOrder, Sources
<1>4. \A r \in Under(key) : [r EXCEPT !.purged = TRUE] \in Sources
                            /\ Forgets(r, [r EXCEPT !.purged = TRUE])
  BY <1>3 DEF Sources, Forgets
<1>5. stored' \subseteq Sources
  BY <1>1, <1>4 DEF Inv, TypeOK
<1>6. Grown /\ KeysInOrder'
  <2>1. \A r \in stored : IF r.key = key THEN \E s \in stored' : Forgets(r, s) ELSE r \in stored'
    BY <1>1, <1>4 DEF Under
  <2>2. ASSUME NEW s \in stored'
        PROVE  \/ s \in stored /\ s.key # key
               \/ s.key = key /\ \E r \in Under(key) : Forgets(r, s)
    <3>1. CASE s \in stored \ Under(key)
      BY <3>1 DEF Under
    <3>2. CASE s \notin stored \ Under(key)
      <4>1. PICK r \in Under(key) : s = [r EXCEPT !.purged = TRUE]
        BY <1>1, <3>2
      <4>2. Forgets(r, s) /\ r.key = key
        BY <1>4, <4>1, <1>3
      <4>. QED  BY <4>2 DEF Forgets
    <3>. QED  BY <3>1, <3>2
  <2>. QED  BY <1>5, <2>1, <2>2, MessageForgotten
<1>7. /\ inbox' \in [Tokens -> Rows \cup {NoRow}] /\ forgotten' \subseteq Tokens
      /\ \A t \in Tokens : inbox'[t] # NoRow => inbox'[t] = inbox[t] /\ t \notin forgotten'
  BY <1>1 DEF Inv, TypeOK, Waiting
<1>. QED  BY <1>1, <1>5, <1>6, <1>7, ForgetInv

(* A step of the rules or of the clock.                                       *)
LEMMA RulesStepInv ==
    ASSUME Inv, UNCHANGED <<stored, inbox, job, page, faults, forgotten>>,
           now' \in Moment, acts' \in 0 .. MaxActs,
           private' \in Seq([from : Moment, until : Moment \cup {Forever}]),
           entry' \in Seq({"normal", "paused"}), Len(entry) <= Len(entry'),
           RuleRevision <= RuleRevision', RuleRevision' <= acts',
           RuleRevision' = RuleRevision => Barred' \subseteq Barred
    PROVE  Inv'
<1>1. TypeOK'
  BY DEF Inv, TypeOK
<1>2. Steady
  <2>1. Grown
    BY DEF Grown
  <2>2. RuleRevision' \in Nat /\ acts' \in Nat /\ acts' <= MaxActs /\ MaxActs \in Nat
    BY <1>1, InboxAssumption DEF RuleRevision, TypeOK
  <2>3. RuleRevision' <= MaxActs
    BY <2>2
  <2>. QED  BY <2>1, <2>3 DEF Steady
<1>3. RowsInOrder' /\ JobsInOrder' /\ PageInOrder' /\ KeysInOrder'
  BY <1>1, <1>2, RowsStay, JobsStay, PageStays, KeysStay
<1>4. (forgotten \cap Waiting)' = {}
  BY DEF Waiting, Inv
<1>. QED  BY <1>1, <1>3, <1>4 DEF Inv

LEMMA SetPrivateInv == Inv /\ SetPrivate => Inv'
<1> SUFFICES ASSUME Inv, SetPrivate PROVE Inv'
  OBVIOUS
<1> DEFINE I == [from : Moment, until : Moment \cup {Forever}]
<1>1. /\ UNCHANGED <<stored, inbox, job, page, now, entry, faults, forgotten>>
      /\ acts' = acts + 1 /\ acts < MaxActs
  BY DEF SetPrivate, Act
<1>2. /\ private \in Seq(I) /\ now \in Moment /\ acts \in 0 .. MaxActs /\ MaxActs \in Nat
      /\ entry \in Seq({"normal", "paused"}) /\ RuleRevision <= acts
      /\ Len(private) \in Nat /\ RuleRevision = Len(private)
  BY InboxAssumption DEF Inv, TypeOK, RuleRevision
<1>3. acts' \in 0 .. MaxActs
  BY <1>1, <1>2
<1>4. CASE \E from \in {now, now - 1} \cap Moment :
              private' = Append(private, [from |-> from, until |-> Forever])
  <2>1. PICK from \in Moment : private' = Append(private, [from |-> from, until |-> Forever])
    BY <1>4
  <2>2. [from |-> from, until |-> Forever] \in I
    OBVIOUS
  <2> HIDE DEF I
  <2>3. private' \in Seq(I) /\ Len(private') = Len(private) + 1
    BY <1>2, <2>1, <2>2
  <2>4. RuleRevision' = RuleRevision + 1
    BY <1>2, <2>3 DEF RuleRevision
  <2>. QED  BY <1>1, <1>2, <1>3, <2>3, <2>4, RulesStepInv DEF I
<1>5. CASE private' = [i \in DOMAIN private |->
                IF private[i].until > now THEN [private[i] EXCEPT !.until = now] ELSE private[i]]
  <2>0. \A i \in DOMAIN private : private[i] \in I
    <3> HIDE DEF I
    <3>. QED  BY <1>2
  <2>1. ASSUME NEW i \in DOMAIN private
        PROVE  /\ private'[i] \in I /\ private'[i].from = private[i].from
               /\ private'[i].until = IF private[i].until > now THEN now ELSE private[i].until
    <3>1. private[i] \in I
      BY <2>0
    <3>. QED  BY <1>2, <1>5, <3>1
  <2>2. DOMAIN private = 1 .. Len(private) /\ DOMAIN private' = 1 .. Len(private)
    BY <1>2, <1>5
  <2> DEFINE closed == [i \in 1 .. Len(private) |->
                IF private[i].until > now THEN [private[i] EXCEPT !.until = now] ELSE private[i]]
  <2>3. private' = closed /\ closed \in [1 .. Len(private) -> I]
    <3>1. private' = closed
      BY <1>5, <2>2
    <3>2. \A i \in 1 .. Len(private) : closed[i] \in I
      BY <2>1, <2>2, <3>1
    <3>. QED  BY <3>1, <3>2
  <2>4. private' \in Seq(I) /\ Len(private') = Len(private)
    <3> HIDE DEF closed, I
    <3>. QED  BY <1>2, <2>2, <2>3
  <2>5. RuleRevision' = RuleRevision
    BY <1>2, <2>4 DEF RuleRevision
  <2>6. Barred' \subseteq Barred
    <3> SUFFICES ASSUME NEW m \in Moment, NEW i \in DOMAIN private',
                        private'[i].from <= m, m < private'[i].until
                 PROVE  m \in Barred
      BY DEF Barred, Covered
    <3>1. i \in DOMAIN private /\ private[i] \in I /\ private[i].from <= m
      BY <2>0, <2>1, <2>2
    <3>2. m < private[i].until
      <4>1. m \in Nat /\ now \in Nat /\ private[i].until \in Nat
        BY <1>2, <3>1, InboxAssumption DEF Moment, Forever
      <4>2. private'[i].until = IF private[i].until > now THEN now ELSE private[i].until
        BY <2>1, <3>1
      <4>. QED  BY <4>1, <4>2
    <3>. QED  BY <3>1, <3>2 DEF Barred, Covered
  <2>7. RuleRevision' <= acts' /\ RuleRevision <= RuleRevision'
    BY <1>1, <1>2, <2>5
  <2>. QED  BY <1>1, <1>2, <1>3, <2>4, <2>5, <2>6, <2>7, RulesStepInv
<1>. QED  BY <1>4, <1>5 DEF SetPrivate

LEMMA SetEntryInv == Inv /\ SetEntry => Inv'
<1> SUFFICES ASSUME Inv, SetEntry PROVE Inv'
  OBVIOUS
<1>1. /\ UNCHANGED <<stored, inbox, job, page, faults, forgotten>>
      /\ UNCHANGED <<now, private>> /\ acts' = acts + 1 /\ acts < MaxActs
  BY DEF SetEntry, Act
<1>2. /\ now \in Moment /\ acts \in 0 .. MaxActs /\ MaxActs \in Nat /\ RuleRevision <= acts
      /\ private \in Seq([from : Moment, until : Moment \cup {Forever}])
      /\ RuleRevision \in Nat /\ entry \in Seq({"normal", "paused"})
  BY InboxAssumption DEF Inv, TypeOK, RuleRevision
<1>3. entry' \in Seq({"normal", "paused"}) /\ Len(entry') = Len(entry) + 1 /\ Len(entry) \in Nat
  <2>1. PICK e \in {"normal", "paused"} : entry' = Append(entry, e)
    BY DEF SetEntry
  <2>. QED  BY <1>2, <2>1
<1>4. RuleRevision' = RuleRevision /\ Barred' = Barred
  BY <1>1 DEF RuleRevision, Barred, Covered
<1>5. acts' \in 0 .. MaxActs /\ RuleRevision' <= acts' /\ RuleRevision <= RuleRevision'
      /\ Len(entry) <= Len(entry')
  BY <1>1, <1>2, <1>3, <1>4
<1>. QED  BY <1>1, <1>2, <1>3, <1>4, <1>5, RulesStepInv

LEMMA TickInv == Inv /\ Tick => Inv'
<1> SUFFICES ASSUME Inv, Tick PROVE Inv'
  OBVIOUS
<1>1. /\ UNCHANGED <<stored, inbox, job, page, faults, forgotten>>
      /\ UNCHANGED <<private, entry, acts>> /\ now' = now + 1 /\ now < MaxNow
  BY DEF Tick
<1>2. /\ now' \in Moment /\ acts' \in 0 .. MaxActs /\ RuleRevision <= acts
      /\ private' \in Seq([from : Moment, until : Moment \cup {Forever}])
      /\ RuleRevision \in Nat /\ entry' \in Seq({"normal", "paused"}) /\ Len(entry') \in Nat
  BY <1>1, InboxAssumption DEF Inv, TypeOK, RuleRevision, Moment
<1>3. RuleRevision' = RuleRevision /\ Barred' = Barred
  BY <1>1 DEF RuleRevision, Barred, Covered
<1>4. RuleRevision' <= acts' /\ RuleRevision <= RuleRevision' /\ Len(entry) <= Len(entry')
  BY <1>1, <1>2, <1>3
<1>. QED  BY <1>1, <1>2, <1>3, <1>4, RulesStepInv

-----------------------------------------------------------------------------
LEMMA InitInv == Init => Inv
<1> SUFFICES ASSUME Init PROVE Inv
  OBVIOUS
<1>1. TypeOK
  BY InboxAssumption DEF Init, TypeOK, Moment
<1>2. KeysInOrder /\ RowsInOrder /\ PageInOrder /\ JobsInOrder
  BY DEF Init, KeysInOrder, RowsInOrder, PageInOrder, JobsInOrder, Process
<1>3. RuleRevision <= acts /\ forgotten \cap Waiting = {}
  BY DEF Init, RuleRevision, Waiting
<1>. QED  BY <1>1, <1>2, <1>3 DEF Inv

LEMMA StutterInv == Inv /\ UNCHANGED vars => Inv'
<1> SUFFICES ASSUME Inv, UNCHANGED vars PROVE Inv'
  OBVIOUS
<1>1. UNCHANGED <<stored, job, page, world, faults, forgotten>> /\ inbox' = inbox
  BY DEF vars, world
<1>2. /\ inbox' \in [Tokens -> Rows \cup {NoRow}]
      /\ \A t \in Tokens : inbox'[t] # NoRow =>
            /\ inbox[t] # NoRow /\ inbox'[t].entered = inbox[t].entered
            /\ CodeInOrder(inbox'[t].code)
            /\ TakingANewKey(inbox'[t].code) => TakingANewKey(inbox[t].code)
  BY <1>1 DEF Inv, TypeOK, RowsInOrder
<1>. QED  BY <1>1, <1>2, CodesStepInv

(* One step for each action.                                                  *)
LEMMA NextInv == Inv /\ [Next]_vars => Inv'
<1> SUFFICES ASSUME Inv, [Next]_vars PROVE Inv'
  OBVIOUS
<1>1. ASSUME NEW h \in Hook, NEW c \in Capture, Enqueue(h, c) PROVE Inv'
  BY <1>1, EnqueueInv
<1>2. ASSUME NEW p \in Hook \cup {Worker}, Step(p) \/ Interrupted(p) PROVE Inv'
  <2>1. p \in Process
    BY DEF Process
  <2>. QED  BY <1>2, <2>1, RecordInv, CompareInv, SettleInv, InterruptedInv DEF Step
<1>3. CASE ReadPage \/ TakeRow \/ Revalidate \/ RetryFailures
  BY <1>3, ReadPageInv, TakeRowInv, RevalidateInv, RetryFailuresInv
<1>4. ASSUME NEW t \in Tokens, Due(t) PROVE Inv'
  BY <1>4, DueInv
<1>5. ASSUME NEW key \in Keys, Delete(key) \/ Purge(key) PROVE Inv'
  BY <1>5, DeleteInv, PurgeInv
<1>6. CASE SetPrivate \/ SetEntry \/ Tick
  BY <1>6, SetPrivateInv, SetEntryInv, TickInv
<1>7. CASE UNCHANGED vars
  BY <1>7, StutterInv
<1>. QED  BY <1>1, <1>2, <1>3, <1>4, <1>5, <1>6, <1>7 DEF Next

(* Everything below rests on this.                                            *)
THEOREM InvHolds == Spec => []Inv
<1>1. Init => Inv
  BY InitInv
<1>2. Inv /\ [Next]_vars => Inv'
  BY NextInv
<1>. QED  BY <1>1, <1>2, PTL DEF Spec

(* Every variable keeps its type: in particular no row is put off more often  *)
(* than DEFER_ATTEMPTS and once more (core/capture_inbox.py, deferral).       *)
THEOREM TypeCorrect == Spec => []TypeOK
<1>1. Inv => TypeOK
  BY DEF Inv
<1>. QED  BY <1>1, InvHolds, PTL

(* A message under its host's key is stored once, because what takes a key of *)
(* its own met a host's key that refuses it and does not hold it (`Shut`),    *)
(* and that lasts (core/capture_inbox.py, `_as_stored`).                      *)
THEOREM KeyHolderStoredOnceHolds == Spec => []KeyHolderStoredOnce
<1>1. Inv => KeyHolderStoredOnce
  <2> SUFFICES ASSUME Inv, NEW r \in stored, NEW s \in stored, ~r.blocked, r.key = HostKey,
                      s.key # HostKey, TokenOf(r) = TokenOf(s)
               PROVE  FALSE
    BY DEF KeyHolderStoredOnce
  <2>1. TokenOf(s) \in Shut /\ r \in Under(HostKey)
    BY DEF Inv, KeysInOrder, Under
  <2>. QED  BY <2>1 DEF Shut
<1>. QED  BY <1>1, InvHolds, PTL

-----------------------------------------------------------------------------
(* Who may take a row away.                                                   *)
LEMMA WhoRemoves ==
    ASSUME Inv, Next, NEW t \in Tokens, inbox[t] # NoRow, inbox'[t] = NoRow
    PROVE  \/ \E p \in Process : (Record(p) \/ Settle(p)) /\ job[p] # Idle /\ job[p].token = t
           \/ Revalidate /\ job[Worker] # Idle /\ job[Worker].token = t
           \/ \E key \in Keys : Delete(key)
<1>1. inbox \in [Tokens -> Rows \cup {NoRow}] /\ inbox[t] \in Rows
  BY DEF Inv, TypeOK
<1>2. ASSUME NEW h \in Hook, NEW c \in Capture, Enqueue(h, c) PROVE FALSE
  <2> DEFINE u == TokenOf(c)
             row == [moment |-> c.moment, entered |-> Len(entry), code |-> Plain("ready")]
  <2>1. inbox' = [inbox EXCEPT ![u] = IF u \in Waiting THEN @ ELSE row]
    BY <1>2 DEF Enqueue
  <2>2. row \in Rows
    BY InboxAssumption, PlainIs DEF Captures, Rows, Inv, TypeOK
  <2>3. row # NoRow
    BY <2>2, Nothing
  <2> HIDE DEF row
  <2>4. CASE u = t
    <3>1. inbox'[t] = inbox[t]
      BY <1>1, <2>1, <2>4 DEF Waiting
    <3>. QED  BY <3>1
  <2>5. CASE u # t
    <3>1. inbox'[t] = inbox[t]
      BY <1>1, <2>1, <2>5
    <3>. QED  BY <3>1
  <2>. QED  BY <2>4, <2>5
<1>3. ASSUME NEW p \in Hook \cup {Worker}, Step(p) \/ Interrupted(p)
      PROVE  (Record(p) \/ Settle(p)) /\ job[p] # Idle /\ job[p].token = t
  <2>1. Record(p) \/ Settle(p)
    BY <1>3 DEF Step, Compare, Interrupted
  <2>2. job[p].step \in {"commit", "again", "write", "remove", "refused"}
    BY <2>1 DEF Record, Settle
  <2>3. job[p] # Idle
    BY <2>2 DEF Idle
  <2>4. job[p] \in Jobs /\ job[p].token \in Tokens /\ job[p].code \in Codes
    BY <2>3 DEF Inv, TypeOK, Jobs
  <2>5. inbox' # inbox /\ (\/ inbox' = [inbox EXCEPT ![job[p].token] = NoRow]
                           \/ inbox' = inbox
                           \/ inbox' = SetCode(job[p].token, job[p].code)
                           \/ inbox' = SetCode(job[p].token, Plain("conflict")))
    BY <2>1 DEF Record, Settle
  <2>6. \A u \in Tokens : u # job[p].token => inbox'[u] = inbox[u]
    BY <1>1, <2>4, <2>5, SetCodeIs, PlainIs DEF Inv
  <2>. QED  BY <2>1, <2>3, <2>6
<1>4. CASE ReadPage \/ TakeRow \/ RetryFailures
  <2>1. RetryFailures
    BY <1>4 DEF ReadPage, TakeRow
  <2>2. \E code : inbox'[t] = inbox[t] \/ inbox'[t] = [inbox[t] EXCEPT !.code = code]
    BY <2>1 DEF RetryFailures
  <2>3. PICK code : inbox'[t] = inbox[t] \/ inbox'[t] = [inbox[t] EXCEPT !.code = code]
    BY <2>2
  <2>4. DOMAIN inbox'[t] = DOMAIN inbox[t]
    BY <2>3
  <2>. QED  BY <1>1, <2>4 DEF Rows, NoRow
<1>5. CASE Revalidate
  <2>1. job[Worker].step = "check"
    BY <1>5 DEF Revalidate
  <2>2. job[Worker] # Idle
    BY <2>1 DEF Idle
  <2>3. job[Worker] \in Jobs /\ job[Worker].token \in Tokens /\ job[Worker].code.tries <= DEFER_ATTEMPTS
    <3>1. Worker \in Process
      BY DEF Process
    <3>. QED  BY <2>2, <3>1 DEF Inv, TypeOK, Process, Jobs, JobsInOrder, Relies
  <2>4. inbox' # inbox /\ (\/ inbox' = [inbox EXCEPT ![job[Worker].token] = NoRow]
                           \/ inbox' = inbox
                           \/ inbox' = SetCode(job[Worker].token, Deferral(job[Worker])))
    BY <1>5 DEF Revalidate
  <2>5. Deferral(job[Worker]) \in Codes
    BY <2>3, DeferralIs
  <2>6. \A u \in Tokens : u # job[Worker].token => inbox'[u] = inbox[u]
    BY <1>1, <2>3, <2>4, <2>5, SetCodeIs DEF Inv
  <2>. QED  BY <1>5, <2>2, <2>6
<1>6. ASSUME NEW u \in Tokens, Due(u) PROVE FALSE
  <2>1. inbox' = [inbox EXCEPT ![u].code.due = TRUE]
    BY <1>6 DEF Due
  <2>2. DOMAIN inbox'[t] = DOMAIN inbox[t]
    BY <1>1, <2>1
  <2>. QED  BY <1>1, <2>2 DEF Rows, NoRow
<1>7. ASSUME NEW key \in Keys, Delete(key) \/ Purge(key) PROVE Delete(key)
  BY <1>7 DEF Purge
<1>8. ~SetPrivate /\ ~SetEntry /\ ~Tick
  BY DEF SetPrivate, SetEntry, Tick
<1>. QED  BY <1>2, <1>3, <1>4, <1>5, <1>6, <1>7, <1>8 DEF Next, Process

(* A capture leaves the inbox because it is stored, because someone forbade   *)
(* it, or because what it says was deleted.                                   *)
THEOREM LeavesForCauseHolds == Spec => LeavesForCause
<1> DEFINE Left == \A t \in Waiting : inbox'[t] = NoRow =>
          \/ StoredAs(t)' \/ HeldByADeleted(t)'
          \/ \E p \in DOMAIN job :
                /\ job[p] # Idle /\ job[p].token = t
                /\ \/ p = Worker /\ job[p].step = "check"
                   \/ Refuses(job[p].entered) \/ Covered(job[p].dated)
<1>1. Inv /\ [Next]_vars => [Left]_vars
  <2> SUFFICES ASSUME Inv, Next, NEW t \in Waiting, inbox'[t] = NoRow
               PROVE  \/ StoredAs(t)' \/ HeldByADeleted(t)'
                      \/ \E p \in DOMAIN job :
                            /\ job[p] # Idle /\ job[p].token = t
                            /\ \/ p = Worker /\ job[p].step = "check"
                               \/ Refuses(job[p].entered) \/ Covered(job[p].dated)
    BY DEF StoredAs, HeldByADeleted
  <2>1. t \in Tokens /\ inbox[t] # NoRow /\ DOMAIN job = Process /\ stored \subseteq Sources
    BY DEF Waiting, Inv, TypeOK, Process
  <2>2. ASSUME NEW p \in Process, Record(p), job[p] # Idle, job[p].token = t
        PROVE  \/ StoredAs(t)'
               \/ Refuses(job[p].entered) \/ Covered(job[p].dated)
    <3> DEFINE j == job[p]
    <3>1. j \in Jobs /\ Relies(j) /\ Met(j)
      BY <2>2 DEF Inv, TypeOK, JobsInOrder, Process
    <3>2. Outcome(j) \in {"withheld", "inserted", "duplicate"}
      BY <2>1, <2>2 DEF Record
    <3>3. /\ Outcome(j) = "withheld" => Refuses(j.entered) \/ Covered(j.dated)
          /\ Outcome(j) # "withheld" => Outcome(j) = Verdict(j)
      BY <3>1, <3>2, VerdictIs DEF Outcome
    <3>4. CASE Outcome(j) = "duplicate"
      <4>1. PICK r \in stored : TokenOf(r) = t
        BY <2>2, <3>1, <3>3, <3>4, VerdictIs
      <4>2. stored' = stored
        BY <2>2, <3>4 DEF Record
      <4>. QED  BY <4>1, <4>2 DEF StoredAs, TokenOf
    <3>5. CASE Outcome(j) = "inserted"
      <4>1. stored' = Stored(j)
        BY <2>2, <3>5 DEF Record
      <4> DEFINE new == [key |-> j.key, revision |-> j.token.revision, session |-> j.token.session,
                         words |-> j.token.words, moment |-> j.dated,
                         blocked |-> FALSE, purged |-> FALSE]
      <4>2. new \in stored' /\ TokenOf(new) = t
        BY <2>1, <2>2, <4>1 DEF Stored, TokenOf, Tokens
      <4>. QED  BY <4>2 DEF StoredAs, TokenOf
    <3>. QED  BY <3>2, <3>3, <3>4, <3>5
  <2>3. ASSUME NEW p \in Process, Settle(p), job[p] # Idle, job[p].token = t
        PROVE  HeldByADeleted(t)'
    <3> DEFINE j == job[p]
    <3>1. /\ j.code \in Codes /\ Met(j) /\ stored' = stored
      BY <2>3 DEF Inv, TypeOK, JobsInOrder, Process, Jobs, Settle
    <3>2. j.step = "remove"
      <4>1. inbox' # SetCode(t, j.code) /\ inbox' # SetCode(t, Plain("conflict"))
        BY <2>1, <3>1, SetCodeIs, PlainIs DEF Inv
      <4>. QED  BY <2>3, <4>1 DEF Settle
    <3>3. t \in Deleted
      BY <2>3, <3>1, <3>2 DEF Met
    <3>. QED  BY <3>1, <3>3 DEF Deleted, HeldByADeleted
  <2>4. CASE Revalidate /\ job[Worker] # Idle /\ job[Worker].token = t
    <3>1. Worker \in DOMAIN job /\ job[Worker].step = "check"
      BY <2>1, <2>4 DEF Revalidate, Process
    <3>. QED  BY <2>4, <3>1
  <2>5. ASSUME NEW key \in Keys, Delete(key)
        PROVE  HeldByADeleted(t)'
    <3>1. Cancelled(key, t) /\ (\E r \in Under(key) : ~r.blocked)
          /\ stored' = (stored \ Under(key)) \cup {[r EXCEPT !.blocked = TRUE] : r \in Under(key)}
      BY <2>1, <2>5 DEF Delete
    <3>2. PICK r \in Under(key) : Holds(t.words, r) \/ (key = HostKey /\ r.revision # t.revision)
      BY <3>1 DEF Cancelled
    <3>3. r \in Sources /\ r.key = key
      BY <2>1 DEF Under
    <3> DEFINE s == [r EXCEPT !.blocked = TRUE]
    <3>4. s \in stored' /\ s.blocked /\ s.words = r.words /\ s.key = r.key /\ s.revision = r.revision
      BY <3>1, <3>3 DEF Sources
    <3>5. \/ t.words = s.words \/ <<t.words, s.words>> \in Quotes
          \/ s.key = HostKey /\ s.revision # t.revision
      BY <3>2, <3>3, <3>4 DEF Holds
    <3>. QED  BY <3>4, <3>5 DEF HeldByADeleted
  <2>. QED  BY <2>1, <2>2, <2>3, <2>4, <2>5, WhoRemoves
<1>2. LeavesForCause <=> [][Left]_vars
  BY DEF LeavesForCause
<1> HIDE DEF Left
<1>. QED  BY <1>1, <1>2, InvHolds, PTL DEF Spec

-----------------------------------------------------------------------------
(* Who may store what was not stored: a commit that found its row, nothing    *)
(* that refuses it, and a key that lets it in.                                *)
LEMMA WhoStores ==
    ASSUME Inv, Next, NEW r \in stored', TokenOf(r) \notin {TokenOf(s) : s \in stored}
    PROVE  /\ TokenOf(r) \in Tokens /\ inbox[TokenOf(r)] # NoRow
           /\ ~Refuses(inbox[TokenOf(r)].entered) /\ ~Covered(r.moment)
<1>1. \E p \in Process : Record(p) /\ stored' = Stored(job[p]) /\ Outcome(job[p]) = "inserted"
  <2>1. stored' # stored
    OBVIOUS
  <2>2. ASSUME NEW key \in Keys, Delete(key) \/ Purge(key) PROVE FALSE
    <3>1. PICK s \in stored : TokenOf(r) = TokenOf(s)
      <4>1. CASE Delete(key)
        <5>1. stored' = (stored \ Under(key)) \cup {[u EXCEPT !.blocked = TRUE] : u \in Under(key)}
          BY <4>1 DEF Delete
        <5>2. \A u \in Under(key) : u \in stored /\ TokenOf([u EXCEPT !.blocked = TRUE]) = TokenOf(u)
          BY DEF Under, Inv, TypeOK, Sources, TokenOf
        <5>. QED  BY <5>1, <5>2
      <4>2. CASE Purge(key)
        <5>1. stored' = (stored \ Under(key)) \cup {[u EXCEPT !.purged = TRUE] : u \in Under(key)}
          BY <4>2 DEF Purge
        <5>2. \A u \in Under(key) : u \in stored /\ TokenOf([u EXCEPT !.purged = TRUE]) = TokenOf(u)
          BY DEF Under, Inv, TypeOK, Sources, TokenOf
        <5>. QED  BY <5>1, <5>2
      <4>. QED  BY <2>2, <4>1, <4>2
    <3>. QED  BY <3>1
  <2>3. /\ \A h \in Hook, c \in Capture : ~Enqueue(h, c)
        /\ \A p \in Process : ~Compare(p) /\ ~Settle(p) /\ ~Interrupted(p)
    BY <2>1 DEF Enqueue, Compare, Settle, Interrupted
  <2>4. /\ ~ReadPage /\ ~TakeRow /\ ~Revalidate /\ ~RetryFailures
        /\ \A t \in Tokens : ~Due(t)
        /\ ~SetPrivate /\ ~SetEntry /\ ~Tick
    BY <2>1 DEF ReadPage, TakeRow, Revalidate, RetryFailures, Due, SetPrivate, SetEntry, Tick
  <2>5. PICK p \in Process : Record(p)
    BY <2>2, <2>3, <2>4 DEF Next, Step, Process
  <2>6. Outcome(job[p]) = "inserted" /\ stored' = Stored(job[p])
    BY <2>1, <2>5 DEF Record
  <2>. QED  BY <2>5, <2>6
<1>2. PICK p \in Process : Record(p) /\ stored' = Stored(job[p]) /\ Outcome(job[p]) = "inserted"
  BY <1>1
<1> DEFINE j == job[p]
<1>3. j.step \in {"commit", "again"}
  BY <1>2 DEF Record
<1>4. j # Idle
  BY <1>3 DEF Idle
<1>5. j \in Jobs /\ j.token \in Tokens /\ Relies(j) /\ j.dated \in Moment /\ j.entered \in Nat
  BY <1>4 DEF Inv, TypeOK, JobsInOrder, Process, Jobs
<1>6. TokenOf(r) = j.token /\ r.moment = j.dated
  BY <1>2, <1>5 DEF Stored, TokenOf, Tokens
<1>7. /\ inbox[j.token] # NoRow /\ ~Refuses(j.entered)
      /\ CheckedSince(j) \/ ~Covered(j.dated)
  BY <1>2 DEF Outcome
<1>8. ~Covered(j.dated)
  BY <1>5, <1>7 DEF CheckedSince, Relies, Barred
<1>9. ~Refuses(inbox[j.token].entered)
  <2>1. j.entered <= inbox[j.token].entered /\ inbox[j.token].entered \in Nat
    BY <1>5, <1>7 DEF Relies, NoYounger, Inv, TypeOK, Rows
  <2>2. Len(entry) \in Nat
    BY DEF Inv, TypeOK
  <2>. QED  BY <1>5, <1>7, <2>1, <2>2 DEF Refuses
<1>. QED  BY <1>5, <1>6, <1>7, <1>8, <1>9

(* What was forgotten while it waited has no row any more, and only a capture *)
(* with a row is stored: until the host says it again, which ends being       *)
(* forgotten, no commit or replay under way can bring it back.                *)
THEOREM NotStoredOnceForgottenHolds == Spec => NotStoredOnceForgotten
<1> DEFINE Stays == \A r \in stored' : TokenOf(r) \in forgotten
                                          => TokenOf(r) \in {TokenOf(s) : s \in stored}
<1>1. Inv /\ [Next]_vars => [Stays]_vars
  <2> SUFFICES ASSUME Inv, Next, NEW r \in stored', TokenOf(r) \in forgotten
               PROVE  TokenOf(r) \in {TokenOf(s) : s \in stored}
    OBVIOUS
  <2>1. inbox[TokenOf(r)] # NoRow => TokenOf(r) \notin Tokens
    BY DEF Inv, Waiting
  <2>. QED  BY <2>1, WhoStores
<1>2. NotStoredOnceForgotten <=> [][Stays]_vars
  BY DEF NotStoredOnceForgotten
<1> HIDE DEF Stays
<1>. QED  BY <1>1, <1>2, InvHolds, PTL DEF Spec

(* A commit's check of the private intervals stands only under the revision   *)
(* it was made at, and what a job was sent under is no later than what its    *)
(* row was: so nothing is stored that is private, or that its own row refuses *)
(* (core/private.py, capture_blocked; core/entry_control.py, capture_refusal).*)
THEOREM WithheldNeverStoredHolds == Spec => WithheldNeverStored
<1> DEFINE Heeded == \A r \in stored' : TokenOf(r) \notin {TokenOf(s) : s \in stored} =>
          /\ ~Covered(r.moment)
          /\ inbox[TokenOf(r)] # NoRow /\ ~Refuses(inbox[TokenOf(r)].entered)
<1>1. Inv /\ [Next]_vars => [Heeded]_vars
  BY WhoStores
<1>2. WithheldNeverStored <=> [][Heeded]_vars
  BY DEF WithheldNeverStored
<1> HIDE DEF Heeded
<1>. QED  BY <1>1, <1>2, InvHolds, PTL DEF Spec
=============================================================================
