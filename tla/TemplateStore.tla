--------------------------- MODULE TemplateStore ---------------------------
(***************************************************************************)
(* One mail template: its row, which is what is sent, the history of its   *)
(* versions, and everyone who writes it: operators with drafts, operators  *)
(* in the old panel, which has none, and the Template seed of the repo     *)
(* (internal/database/template_drafts.go, template_seed.go,                *)
(* template_versions.go, internal/handlers/template.go).                   *)
(*                                                                         *)
(* Every write holds the row's lock from its first statement to its        *)
(* commit, so it is one step; what a request reads before it has the lock  *)
(* is a step of its own (desk). A source is named by the body it renders   *)
(* to. A subject stands for the name and the subject.                      *)
(***************************************************************************)
EXTENDS Naturals, Sequences, FiniteSets

CONSTANTS
  Operators,    \* who drafts, publishes and edits
  Seeds,        \* runs of the Template seed in progress
  Subjects,
  MailBodies,
  Vars,         \* variables a mail may reference
  Refs,         \* the variables a body references
  LockedKey,    \* does the template's key name a credential mail?
  Contents,     \* what operators send as a draft: subject, main, body
  Edits,        \* what the old panel sends: subject, body, jsx, keyed
  SeedPayloads, \* what a seed sends
  MaxVersions,  \* bound: versions of the template
  None          \* no body, no subject, nobody

Modes == {"jsx", "visual", "html"}
Sensitive == {"unset", "shown", "hidden"}
Sources == [Modes -> MailBodies \union {None}]
Ids == 0..MaxVersions        \* a version's seq; 0 is no version

ASSUME TemplateAssumption ==
  /\ Refs \in [MailBodies -> SUBSET Vars]
  /\ LockedKey \in BOOLEAN
  /\ MaxVersions \in Nat \ {0} /\ "seed" \notin Operators
  /\ None \notin MailBodies \union Subjects \union Operators
  /\ Contents \subseteq [subject : Subjects, main : Modes, body : MailBodies]
  /\ Edits \subseteq [subject : Subjects, body : MailBodies, jsx : BOOLEAN, keyed : BOOLEAN]
  /\ SeedPayloads \subseteq [subject : Subjects, body : MailBodies, jsx : BOOLEAN, force : BOOLEAN,
                         system : BOOLEAN, role : BOOLEAN, contract : SUBSET Vars, sent : BOOLEAN,
                         sensitive : Sensitive]

Row == [exists : BOOLEAN, keyed : BOOLEAN, system : BOOLEAN, sensitive : Sensitive,
        archived : BOOLEAN, subject : Subjects \union {None}, body : MailBodies \union {None},
        react : MailBodies \union {None}, contract : SUBSET Vars, operator : SUBSET Vars,
        published : Ids, refused : BOOLEAN]

Version == [author : Operators \union {"seed"}, base : Ids, subject : Subjects, sources : Sources,
            main : Modes, body : MailBodies, state : {"draft", "published", "discarded"},
            requested : Subjects \union {None}]

\* What a request has read and still goes by: the row's marks, or that no
\* template has the key.
Desk == [at : {"idle", "editing", "seeding", "inserting"}, system : BOOLEAN, keyed : BOOLEAN]
Idle == [at |-> "idle", system |-> FALSE, keyed |-> FALSE]

VARIABLES
  template,   \* templates
  versions,   \* template_versions, by seq
  desk,       \* each request that read before it locks
  shown,      \* the version the last stale_base conflict showed each operator
  forced,     \* history: the versions seeds were forced to write
  blind       \* history: the versions of seeds that had found no template

templateVars == <<template, versions, desk, shown, forced, blind>>
editHistory == <<forced, blind>>

Absent == [exists |-> FALSE, keyed |-> FALSE, system |-> FALSE, sensitive |-> "unset",
           archived |-> FALSE, subject |-> None, body |-> None, react |-> None, contract |-> {},
           operator |-> {}, published |-> 0, refused |-> FALSE]

\* A template written before versions were kept, with the first version the
\* migration made of it: the seed's, asked for with a subject nobody knows.
Migrated(s, b) ==
  /\ template = [Absent EXCEPT !.exists = TRUE, !.keyed = TRUE, !.subject = s, !.body = b,
                          !.sensitive = IF LockedKey THEN "hidden" ELSE "unset", !.published = 1]
  /\ versions = <<[author |-> "seed", base |-> 0, subject |-> s, main |-> "html", body |-> b,
                   sources |-> [m \in Modes |-> IF m = "html" THEN b ELSE None],
                   state |-> "published", requested |-> None]>>

TemplateAbsent ==
  /\ template = Absent /\ versions = <<>>
  /\ desk = [w \in Operators \union Seeds |-> Idle]
  /\ shown = [o \in Operators |-> 0]
  /\ forced = {} /\ blind = {}

TemplateInit ==
  \/ TemplateAbsent
  \/ /\ \E s \in Subjects, b \in MailBodies : Migrated(s, b)
     /\ desk = [w \in Operators \union Seeds |-> Idle]
     /\ shown = [o \in Operators |-> 0]
     /\ forced = {} /\ blind = {}
-----------------------------------------------------------------------------
Seqs == 1..Len(versions)
Required == template.contract \union template.operator
\* CheckBody: the body references every Required variable of the row.
CheckBody(r, b) == r.contract \union r.operator \subseteq Refs[b]
InUse == template.exists /\ ~template.archived     \* LockTemplate finds it
Room == Len(versions) < MaxVersions

\* An operator's newest version, while it is neither published nor discarded.
InProgress(o) ==
  {v \in Seqs : /\ versions[v].author = o /\ versions[v].state = "draft"
                /\ \A w \in Seqs : versions[w].author = o => w <= v}

\* The version o's next draft from base continues, 0 for none.
Continued(o, base) ==
  LET mine == {v \in InProgress(o) : versions[v].base = base} IN
  IF mine # {} THEN CHOOSE v \in mine : TRUE ELSE base

PublishedBase(base) ==
  IF base = 0 THEN template.published = 0 ELSE base \in Seqs /\ versions[base].state = "published"

\* A draft's sources: the one sent, and the others from the version it continues.
Keeping(from, c) ==
  [m \in Modes |-> IF m = c.main THEN c.body ELSE IF from = 0 THEN None ELSE versions[from].sources[m]]

SameContent(v, s, srcs, m, b) ==
  v # 0 /\ versions[v].subject = s /\ versions[v].sources = srcs
        /\ versions[v].main = m /\ versions[v].body = b

\* RecordTemplateDraft, and a repeat that records nothing.
WriteDraft(o, base, continued, s, srcs, m, b) ==
  /\ InUse /\ PublishedBase(base)
  /\ srcs[m] # None                \* checkSources
  /\ CheckBody(template, b)             \* checkVersion
  /\ IF SameContent(continued, s, srcs, m, b) THEN UNCHANGED versions
     ELSE /\ Room
          /\ versions' = Append(versions,
               [author |-> o, base |-> base, subject |-> s, sources |-> srcs, main |-> m, body |-> b,
                state |-> "draft", requested |-> None])
  /\ UNCHANGED <<template, desk, shown, editHistory>>

SaveTemplateDraft(o, base, c) ==
  LET from == Continued(o, base) IN WriteDraft(o, base, from, c.subject, Keeping(from, c), c.main, c.body)

SaveDraft(o) == \E base \in Ids, c \in Contents : SaveTemplateDraft(o, base, c)

\* A draft of what version c held, from what is sent now.
RestoreTemplateVersion(o, c) ==
  LET base == template.published IN
  WriteDraft(o, base, Continued(o, base), c.subject, c.sources, c.main, c.body)

RestoreVersion(o) == \E v \in Seqs : RestoreTemplateVersion(o, versions[v])

\* A draft whose base is what is sent, or the version its operator chose to
\* replace is.
Fresh_Forced(v, over) == versions[v].base = template.published \/ over # 0
Fresh(v, over) == versions[v].base = template.published \/ (over # 0 /\ over = template.published)

\* checkVersion as PublishTemplateDraft runs it, on the row as it is locked.
StillComplete_AsSaved(v) == TRUE
StillComplete(v) == CheckBody(template, versions[v].body)

\* react_email_content of a row that is a copy of version v.
ReactOf_AnyJSX(v) == v.sources["jsx"]
ReactOf(v) == IF v.main = "jsx" THEN v.sources["jsx"] ELSE None

\* The row becomes a copy of version v.
Copied(v) == [template EXCEPT !.subject = versions[v].subject, !.body = versions[v].body,
                              !.react = ReactOf(versions[v]), !.published = v]

PublishTemplateDraft(v, over) ==
  /\ InUse /\ versions[v].state = "draft"
  /\ Fresh(v, over) /\ StillComplete(v)
  /\ versions' = [versions EXCEPT ![v].state = "published"]
  /\ template' = Copied(v)

\* The operator names no version to replace, or the one they were shown.
PublishDraft(o) ==
  /\ \E v \in Seqs, over \in {0, shown[o]} : PublishTemplateDraft(v, over)
  /\ UNCHANGED <<desk, shown, editHistory>>

\* StaleBaseError: nothing changes, and the operator sees what is sent now.
PublishRefused(o) ==
  \E v \in Seqs, over \in {0, shown[o]} :
    /\ InUse /\ versions[v].state = "draft" /\ ~Fresh(v, over)
    /\ shown' = [shown EXCEPT ![o] = template.published]
    /\ UNCHANGED <<template, versions, desk, editHistory>>

DiscardTemplateDraft(v) ==
  /\ InUse /\ versions[v].state = "draft"
  /\ versions' = [versions EXCEPT ![v].state = "discarded"]

DiscardDraft(o) ==
  /\ \E v \in Seqs : DiscardTemplateDraft(v)
  /\ UNCHANGED <<template, desk, shown, editHistory>>
-----------------------------------------------------------------------------
(* Writers of the row itself: the old panel and the seed. *)

\* RecordTemplateRowAsVersion: what the written row w holds, as a version that
\* starts from the published one. A body that is the published one's leaves
\* every source as it was; else a JSX source, or the HTML itself, is the Main
\* source.
Candidate(w, author, requested) ==
  LET old  == w.published # 0
      p    == versions[w.published]
      kept == old /\ w.body = p.body /\ w.react = p.sources["jsx"]
      Of(m) == IF old THEN p.sources[m] ELSE None IN
  [author |-> author, base |-> w.published, subject |-> w.subject, body |-> w.body,
   sources |-> [m \in Modes |->
      CASE m = "jsx" -> IF w.react # None THEN w.react ELSE Of("jsx")
        [] m = "visual" -> Of("visual")
        [] m = "html" -> IF kept \/ w.react # None THEN Of("html") ELSE w.body],
   main |-> IF kept THEN p.main ELSE IF w.react # None THEN "jsx" ELSE "html",
   state |-> "published", requested |-> requested]

Recorded(w, author) ==
  LET c == Candidate(w, author, None) IN
  ~SameContent(w.published, c.subject, c.sources, c.main, c.body)

RecordWrite(w, author, requested) ==
  IF Recorded(w, author)
  THEN /\ Room
       /\ versions' = Append(versions, Candidate(w, author, requested))
       /\ template' = [w EXCEPT !.published = Len(versions) + 1]
  ELSE template' = w /\ UNCHANGED versions

\* Is a row with this key, or none, kept hidden for good?
ContentSensitiveLocked(keyed) == LockedKey /\ keyed

\* lockSensitive: a row with a locked key is hidden.
LockSensitive_Never(w) == w
LockSensitive(w) ==
  IF ContentSensitiveLocked(w.keyed) THEN [w EXCEPT !.sensitive = "hidden"] ELSE w

Edited(r, e) ==
  LockSensitive([r EXCEPT !.subject = e.subject, !.body = e.body, !.keyed = e.keyed,
                          !.react = IF e.jsx THEN e.body ELSE None])

CreateTemplate(o) ==
  \E e \in Edits :
    LET w == Edited([Absent EXCEPT !.exists = TRUE], e) IN
    /\ ~template.exists
    /\ RecordWrite(w, o, None)
    /\ UNCHANGED <<desk, shown, editHistory>>

\* UpdateTemplate reads the row, without its lock, to judge the key.
BeginEdit(o) ==
  /\ desk[o] = Idle /\ InUse
  /\ desk' = [desk EXCEPT ![o] = [at |-> "editing", system |-> template.system, keyed |-> template.keyed]]
  /\ UNCHANGED <<template, versions, shown, editHistory>>

KeyStays(d, e) == (d.system \/ ContentSensitiveLocked(d.keyed)) => e.keyed = d.keyed

CheckedWrite(w) == CheckBody(w, w.body)

CommitEdit(o) ==
  \E e \in Edits :
    LET w == Edited(template, e) IN
    /\ desk[o].at = "editing" /\ InUse
    /\ KeyStays(desk[o], e)
    /\ CheckedWrite(w)
    /\ RecordWrite(w, o, None)
    /\ desk' = [desk EXCEPT ![o] = Idle]
    /\ UNCHANGED <<shown, editHistory>>

\* A request that is refused, or whose client or process is gone.
Abandon(w) ==
  /\ desk[w] # Idle
  /\ desk' = [desk EXCEPT ![w] = Idle]
  /\ UNCHANGED <<template, versions, shown, editHistory>>

LastSeed == CHOOSE v \in Seqs \union {0} :
              /\ v = 0 \/ versions[v].author = "seed"
              /\ \A w \in Seqs : versions[w].author = "seed" => w <= v

\* ListOperatorVersionsAfter: an operator's versions after the last seed.
OperatorWork_Published == {v \in Seqs : v > LastSeed /\ versions[v].author # "seed"
                                         /\ versions[v].state = "published"}
OperatorWork == {v \in Seqs : v > LastSeed /\ versions[v].author # "seed"
                               /\ versions[v].state # "discarded"}

KeptAnOperatorsSubject(requested) ==
  /\ LastSeed # 0 /\ template.subject # requested
  /\ versions[LastSeed].requested \in {None} \/ template.subject # versions[LastSeed].requested

\* seedConflict: published_by_operator, newer_operator_version, operator_subject.
SeedConflict(requested) ==
  \/ template.published # LastSeed
  \/ OperatorWork # {}
  \/ KeptAnOperatorsSubject(requested)

\* The contract set a seed sent, or the row's when it sent none.
ContractSet(r, p) == IF p.sent THEN p.contract ELSE r.contract

\* UpsertTemplateByKey, over the row r.
Upserted(r, p) ==
  LET contract == ContractSet(r, p) IN
  [r EXCEPT !.exists = TRUE, !.keyed = TRUE, !.archived = FALSE, !.refused = FALSE,
            !.subject = p.subject, !.body = p.body, !.react = IF p.jsx THEN p.body ELSE None,
            !.system = p.system, !.contract = contract, !.operator = @ \ contract,
            !.sensitive = IF ContentSensitiveLocked(TRUE) THEN "hidden"
                          ELSE IF p.sensitive = "unset" THEN @ ELSE p.sensitive]

\* Only the role of the seed's own account changes the system mark.
MayMark(p, mark) == p.system = mark \/ p.role

\* A seed in an operator's way that would overwrite something, not forced.
SeedRefused(w, p, conflict) == conflict /\ Recorded(w, "seed") /\ ~p.force

RecordSeedRefusal == template' = [template EXCEPT !.refused = TRUE] /\ UNCHANGED <<versions, editHistory>>

\* The upsert and the version it leaves; refused, it is undone to its
\* savepoint and only the refusal is kept.
SeedWrites(s, p, mark, conflict) ==
  LET w == Upserted(template, p) IN
  /\ MayMark(p, mark) /\ CheckedWrite(w)
  /\ IF SeedRefused(w, p, conflict) THEN RecordSeedRefusal
     ELSE /\ RecordWrite(w, "seed", p.subject)
          /\ forced' = IF Recorded(w, "seed") /\ p.force THEN forced \union {Len(versions) + 1} ELSE forced
          /\ blind' = IF Recorded(w, "seed") /\ desk[s] # Idle THEN blind \union {Len(versions) + 1} ELSE blind
  /\ desk' = [desk EXCEPT ![s] = Idle]
  /\ UNCHANGED shown

\* SeedTemplate on a template that is there: judged and written under its lock.
SeedKnown(s) ==
  /\ desk[s] = Idle /\ template.exists /\ template.keyed
  /\ \E p \in SeedPayloads : SeedWrites(s, p, template.system, SeedConflict(p.subject))

\* The key is new: there is no row to lock.
SeedFindsNone(s) ==
  /\ desk[s] = Idle /\ ~template.exists
  /\ desk' = [desk EXCEPT ![s].at = "seeding"]
  /\ UNCHANGED <<template, versions, shown, editHistory>>

\* The write looks for the row again, for its mark.
SeedFindsNoneAgain(s) ==
  /\ desk[s].at = "seeding" /\ ~template.exists
  /\ desk' = [desk EXCEPT ![s].at = "inserting"]
  /\ UNCHANGED <<template, versions, shown, editHistory>>

SeedUpserts(s) ==
  /\ \/ desk[s].at = "seeding" /\ template.exists /\ template.keyed
        /\ \E p \in SeedPayloads : SeedWrites(s, p, template.system, FALSE)
     \/ desk[s].at = "inserting" /\ (template.exists => template.keyed)
        /\ \E p \in SeedPayloads : SeedWrites(s, p, FALSE, FALSE)
-----------------------------------------------------------------------------
(* Settings of the row: no version. *)

SetRow(r) == template' = r /\ UNCHANGED <<versions, desk, shown, editHistory>>

Archived == [template EXCEPT !.archived = TRUE]
ArchiveTemplate == template.exists /\ ~template.system /\ SetRow(Archived)

Restored == [template EXCEPT !.archived = FALSE]
RestoreTemplate == template.exists /\ SetRow(Restored)

Requiring(x) == IF x \in template.contract THEN template ELSE [template EXCEPT !.operator = @ \union {x}]
AddRequiredVariable(x) == InUse /\ CheckBody(Requiring(x), template.body) /\ SetRow(Requiring(x))

Released(x) == [template EXCEPT !.operator = @ \ {x}]
RemoveRequiredVariable(x) == InUse /\ x \notin template.contract /\ SetRow(Released(x))

Hidden(hide) == [template EXCEPT !.sensitive = IF hide THEN "hidden" ELSE "shown"]
SetContentSensitive(hide) ==
  InUse /\ (ContentSensitiveLocked(template.keyed) => hide) /\ SetRow(Hidden(hide))

TemplateNext ==
  \/ \E o \in Operators :
       \/ SaveDraft(o) \/ RestoreVersion(o) \/ PublishDraft(o) \/ PublishRefused(o)
       \/ DiscardDraft(o) \/ CreateTemplate(o) \/ BeginEdit(o) \/ CommitEdit(o)
  \/ \E s \in Seeds : SeedKnown(s) \/ SeedFindsNone(s) \/ SeedFindsNoneAgain(s) \/ SeedUpserts(s)
  \/ \E w \in Operators \union Seeds : Abandon(w)
  \/ ArchiveTemplate \/ RestoreTemplate
  \/ \E x \in Vars : AddRequiredVariable(x) \/ RemoveRequiredVariable(x)
  \/ \E hide \in BOOLEAN : SetContentSensitive(hide)

TemplateSpec == TemplateInit /\ [][TemplateNext]_templateVars
-----------------------------------------------------------------------------
TemplateTypeOK ==
  /\ template \in Row /\ template.contract \intersect template.operator = {}
  /\ versions \in Seq(Version) /\ Len(versions) <= MaxVersions
  /\ desk \in [Operators \union Seeds -> Desk]
  /\ shown \in [Operators -> Ids]
  /\ forced \subseteq Seqs /\ blind \subseteq Seqs

\* Live mail is whole: what is sent is the published version; a JSX source in
\* the row, which the old panel would render and send, renders to what is sent
\* already, so that no JSX kept beside another Main source reaches live mail
\* unchosen; and it references every Required variable, those marked or
\* declared after a draft was saved included.
LiveMailIsWhole ==
  template.exists =>
    /\ template.published \in Seqs /\ versions[template.published].state = "published"
    /\ template.subject = versions[template.published].subject
    /\ template.body = versions[template.published].body
    /\ template.react \in {None, template.body}
    /\ Required \subseteq Refs[template.body]

\* A mail with a credential in it is hidden however its template came by the
\* key: created, renamed, seeded.
CredentialsStayHidden == template.exists /\ template.keyed /\ LockedKey => template.sensitive = "hidden"

\* A draft goes over the version it started from, or over one its operator
\* could have been shown: nobody's publication is reverted unseen.
NoSilentRevert ==
  [][\A v \in Seqs :
       versions[v].state = "draft" /\ versions'[v].state = "published" =>
         \/ versions[v].base = template.published
         \/ \E o \in Operators : shown[o] = template.published]_templateVars

\* What was between a seed's version and the last one before it.
Between(v) == {u \in 1..v - 1 : \A w \in u..v - 1 : versions[w].author # "seed"}
Spares(v) ==
  /\ \A u \in Between(v) : versions[u].state = "discarded"
  /\ versions[v].base # 0 => versions[versions[v].base].author = "seed"

\* A seed nobody forced, of a template it found, passes over no operator's work:
\* all of it since the last seed was discarded.
SeedSparesWork ==
  \A v \in Seqs \ (forced \union blind) : versions[v].author = "seed" => Spares(v)
=============================================================================
