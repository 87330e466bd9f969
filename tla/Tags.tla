-------------------------------- MODULE Tags --------------------------------
(***************************************************************************)
(* One person's tags: rows that name their parent, made, moved, renamed    *)
(* and deleted by requests of which several may be under way - two windows *)
(* of the page that edits them, or one and an import.  A request works a   *)
(* statement at a time and in no transaction, so what it has read of one   *)
(* row may no longer be so when it writes another.                         *)
(***************************************************************************)
EXTENDS FiniteSets, Sequences

CONSTANTS
    Tags,       \* the tags there may ever be, by id
    Names,
    Filers,     \* requests at once
    Paths,      \* the paths an import may name, root first
    Root,       \* parent_id NULL
    New, Gone   \* a tag there is no row of yet, or no longer


TagRow == [name : Names, parent : Tags \cup {Root}]

ASSUME TagsAssumption ==
    /\ Root \notin Tags /\ Paths \subseteq Seq(Names)
    /\ New \notin TagRow \cup {Gone} /\ Gone \notin TagRow

VARIABLES
    tag,        \* tags: its row, New or Gone
    filing      \* what each request is at

tagVars == <<tag, filing>>

(***************************************************************************)
(* id, name and parent are what is to be written; up is the next row of    *)
(* the walk to the root and seen those it has met; path is what is left of *)
(* an import's path, below parent.                                         *)
(***************************************************************************)
Filing == [at : {"idle", "walk", "write", "insert", "list"},
           id : Tags \cup {Root}, name : Names \cup {Root}, parent : Tags \cup {Root},
           up : Tags \cup {Root}, seen : SUBSET Tags, path : Seq(Names)]

Unfiled == [at |-> "idle", id |-> Root, name |-> Root, parent |-> Root,
            up |-> Root, seen |-> {}, path |-> <<>>]

TagsInit ==
    /\ tag = [t \in Tags |-> New]
    /\ filing = [h \in Filers |-> Unfiled]

Filed(t) == tag[t] \notin {New, Gone}

TagByID(t) == t \in Tags /\ Filed(t)

ChildrenOf(p) == {t \in Tags : Filed(t) /\ tag[t].parent = p}

\* Mutant of Writable: with the index over parent_id alone, in which no NULL is
\* like another.
WritableAtTheRoot(t, n, p) ==
    /\ p = Root \/ TagByID(p)
    /\ \A u \in ChildrenOf(p) \ {t} : p # Root => tag[u].name # n

\* The schema lets a row be written: its parent is there, and no other row
\* beside it has its name.
Writable(t, n, p) ==
    /\ p = Root \/ TagByID(p)
    /\ \A u \in ChildrenOf(p) \ {t} : tag[u].name # n

Answers(h) == filing' = [filing EXCEPT ![h] = Unfiled]

(***************************************************************************)
(* CreateTag, alone or for what a path lacks.                              *)
(***************************************************************************)
CreateTag(h, n, p) ==
    /\ filing[h].at = "idle" /\ (p = Root \/ TagByID(p))
    /\ filing' = [filing EXCEPT ![h] = [Unfiled EXCEPT !.at = "insert", !.name = n, !.parent = p]]
    /\ UNCHANGED tag

\* Of a path, what is below the new tag comes next.
InsertTag(h, t) ==
    LET r == filing[h]
    IN /\ r.at = "insert" /\ tag[t] = New /\ Writable(t, r.name, r.parent)
       /\ tag' = [tag EXCEPT ![t] = [name |-> r.name, parent |-> r.parent]]
       /\ IF r.path = <<>> THEN Answers(h)
          ELSE filing' = [filing EXCEPT ![h] = [Unfiled EXCEPT !.at = "list", !.parent = t, !.path = r.path]]

\* The name was taken or the parent deleted since they were looked at.
InsertFails(h) ==
    LET r == filing[h]
    IN /\ r.at = "insert" /\ Answers(h) /\ UNCHANGED tag
       /\ \A t \in Tags : tag[t] = New => ~Writable(t, r.name, r.parent)

(***************************************************************************)
(* EnsureTagPath: a segment at a time, each by a list of its own.  Names   *)
(* are alike or not: two that differ by case alone are left out.           *)
(***************************************************************************)
EnsureTagPath(h, path) ==
    /\ filing[h].at = "idle" /\ path # <<>>
    /\ filing' = [filing EXCEPT ![h] = [Unfiled EXCEPT !.at = "list", !.path = path]]
    /\ UNCHANGED tag

NextSegment(h) ==
    LET r == filing[h]
        found == {t \in ChildrenOf(r.parent) : tag[t].name = Head(r.path)}
    IN /\ r.at = "list" /\ UNCHANGED tag
       /\ \/ \E t \in found :
                IF Len(r.path) = 1 THEN Answers(h)
                ELSE filing' = [filing EXCEPT ![h].parent = t, ![h].path = Tail(r.path)]
          \/ /\ found = {} /\ (r.parent = Root \/ TagByID(r.parent))
             /\ filing' = [filing EXCEPT ![h].at = "insert", ![h].name = Head(r.path),
                                         ![h].path = Tail(r.path)]
          \/ found = {} /\ r.parent # Root /\ ~TagByID(r.parent) /\ Answers(h)

(***************************************************************************)
(* UpdateTag: the row is read, a new parent's ancestors are, and all three *)
(* columns are written whichever of them the request was about.            *)
(***************************************************************************)
UpdateTag(h, t, n, p) ==
    /\ filing[h].at = "idle" /\ Filed(t)
    /\ n \in Names /\ p \in (Tags \cup {Root}) \ {t}
    /\ filing' = [filing EXCEPT ![h] =
                    [Unfiled EXCEPT !.at = IF p = Root THEN "write" ELSE "walk",
                        !.id = t, !.name = n, !.parent = p, !.up = p, !.seen = {t}]]
    /\ UNCHANGED tag

\* What was not passed is as it was read.
RenameTag(h, t, n) ==
    /\ filing[h].at = "idle" /\ Filed(t) /\ n \in Names
    /\ filing' = [filing EXCEPT ![h] =
                    [Unfiled EXCEPT !.at = "write", !.id = t, !.name = n, !.parent = tag[t].parent]]
    /\ UNCHANGED tag

\* Mutant of CheckTagParent: the immediate parent is all that is looked at.
CheckParentOnly(h) ==
    LET r == filing[h]
    IN /\ r.at = "walk" /\ UNCHANGED tag
       /\ IF r.up \in r.seen \/ ~Filed(r.up) THEN Answers(h)
          ELSE filing' = [filing EXCEPT ![h].at = "write", ![h].up = Root]

\* One row of the walk; refused where it meets the tag again, or nothing.
CheckTagParent(h) ==
    LET r == filing[h]
    IN /\ r.at = "walk" /\ UNCHANGED tag
       /\ IF r.up \in r.seen \/ ~Filed(r.up) THEN Answers(h)
          ELSE filing' = [filing EXCEPT ![h].at = IF tag[r.up].parent = Root THEN "write" ELSE "walk",
                              ![h].up = tag[r.up].parent, ![h].seen = @ \cup {r.up}]

WriteTag(h) ==
    LET r == filing[h]
    IN /\ r.at = "write" /\ Answers(h)
       /\ IF Filed(r.id) /\ Writable(r.id, r.name, r.parent)
          THEN tag' = [tag EXCEPT ![r.id] = [name |-> r.name, parent |-> r.parent]]
          ELSE UNCHANGED tag

(***************************************************************************)
(* DeleteTag: the schema makes the children roots, and refuses where that  *)
(* would put two of one name at the root.                                  *)
(***************************************************************************)
DeleteTag(h, t) ==
    /\ filing[h].at = "idle" /\ Filed(t) /\ UNCHANGED filing
    /\ \A u \in ChildrenOf(t), v \in ChildrenOf(Root) \ {t} : tag[u].name # tag[v].name
    /\ tag' = [u \in Tags |-> IF u = t THEN Gone
                              ELSE IF u \in ChildrenOf(t) THEN [tag[u] EXCEPT !.parent = Root]
                              ELSE tag[u]]

\* An error of the database, or the process stopping under a request.
Abandons(h) == filing[h].at # "idle" /\ Answers(h) /\ UNCHANGED tag

Files(h) ==
    \/ \E n \in Names, p \in Tags \cup {Root} : CreateTag(h, n, p)
    \/ \E t \in Tags : InsertTag(h, t) \/ DeleteTag(h, t)
    \/ \E path \in Paths : EnsureTagPath(h, path)
    \/ InsertFails(h) \/ NextSegment(h) \/ CheckTagParent(h) \/ WriteTag(h) \/ Abandons(h)
    \/ \E t \in Tags, n \in Names :
          RenameTag(h, t, n) \/ \E p \in Tags \cup {Root} : UpdateTag(h, t, n, p)

TagsNext == \E h \in Filers : Files(h)

TagsSpec == TagsInit /\ [][TagsNext]_tagVars

(***************************************************************************)
(* Properties.                                                             *)
(***************************************************************************)
\* Rows and requests; what a row is nested under is a row, and names differ
\* among those that stand side by side.
TagsTypeOK ==
    /\ tag \in [Tags -> TagRow \cup {New, Gone}]
    /\ filing \in [Filers -> Filing]
    /\ \A t \in Tags : Filed(t) => tag[t].parent = Root \/ TagByID(tag[t].parent)
    /\ \A t, u \in Tags : Filed(t) /\ Filed(u) /\ tag[t] = tag[u] => t = u

\* "A cycle cannot be written - see checkTagParent" (store/tags.go:198): from
\* every tag the way up ends at the root, so of any tags there are some one is
\* not under another of them.
TagsAreATree ==
    \A S \in SUBSET {t \in Tags : Filed(t)} : S # {} => \E t \in S : tag[t].parent \notin S
=============================================================================
