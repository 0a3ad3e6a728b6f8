------------------------------- MODULE Install -------------------------------
(***************************************************************************)
(* `sodamem install` (sodamem_cli/install.py): one configuration file of a *)
(* coding tool, which its user and other tools write too, and the commands *)
(* that put our server, or our hooks, into it.  Nothing locks the file; it *)
(* is truncated and written again, and the command may die in between.     *)
(*                                                                         *)
(* What a file says stands at places, numbers of which some may be left    *)
(* out: an entry of the user is one item, and so is our entry in JSON.  In *)
(* TOML ours is written as text and found again by a pattern, so there it  *)
(* is as many items as the pattern tells apart.                            *)
(***************************************************************************)
EXTENDS Integers, FiniteSets, FiniteSetsExt, Sequences, Functions

CONSTANTS
    Commands,   \* invocations of install for this file
    Entries,    \* what the user may have in it
    Naming,     \* those in which the word sodamem occurs
    MaxCrashes  \* bound: commands that die

InstallAssumption == Naming \subseteq Entries /\ MaxCrashes \in Nat

VARIABLES
    kind,      \* "servers" (JSON), "hooks" (JSON), "toml"
    file, backup,
    at,        \* how far a command is
    doc,       \* what it read of the file
    mine,      \* history: what the user has put in the file, in order
    first,     \* history: mine when the first command began
    created,   \* history: there was no file then
    overlapped,\* history: a command ran while another did, or the user saved
    crashes

vars == <<kind, file, backup, at, doc, mine, first, created, overlapped, crashes>>

User(e) == [is |-> "user", of |-> e]
Ours(c) == [is |-> "ours", of |-> c]
NoFile == [there |-> FALSE, says |-> <<>>, torn |-> FALSE]
Whole(says) == [there |-> TRUE, says |-> says, torn |-> FALSE]

End(says) == Max({0} \cup DOMAIN says) + 1
With(says, x) ==
    [p \in DOMAIN says \cup {End(says)} |-> IF p \in DOMAIN says THEN says[p] ELSE x]
UserPlaces(says) == {p \in DOMAIN says : says[p].is = "user"}
Busy(c) == at[c] \in {"look", "copy", "copying", "load", "write", "writing"}
Goto(c, step) == at' = [at EXCEPT ![c] = step]
-----------------------------------------------------------------------------
(* to_toml_table: the header of our table, the keys up to the bracket of   *)
(* args, from there on, the header of the table env, and its keys.         *)
Table(c) == [i \in 1..5 |-> [is |-> <<"table", "keys", "list", "env", "vars">>[i], of |-> c]]
Stops(x) == x.is \in {"table", "list", "user"}

(* The pattern: our header and all up to the next bracket, which is one of *)
(* our own, and then every table env.  What follows it moves on.           *)
Start(says) == Min({p \in DOMAIN says : says[p].is = "table"} \cup {End(says)})
After(says) ==
    {p \in DOMAIN says : \E q \in DOMAIN says : Start(says) < q /\ q <= p /\ Stops(says[q])}

Spliced(says, c) ==
    LET i == Start(says)
    IN [p \in {q \in DOMAIN says : q < i} \cup (i..(i + 4)) \cup {q + 5 : q \in After(says)} |->
            IF p < i THEN says[p] ELSE IF p < i + 5 THEN Table(c)[p - i + 1] ELSE says[p - 5]]

(* _is_ours: of the hooks, every entry that contains our name.             *)
IsOurs(x) == x.is = "ours" \/ (kind = "hooks" /\ x.of \in Naming)

Merged(says, c) ==
    IF kind = "toml" THEN Spliced(says, c)
    ELSE With(Restrict(says, {p \in DOMAIN says : ~IsOurs(says[p])}), Ours(c))

-----------------------------------------------------------------------------
Init ==
    /\ kind \in {"servers", "hooks", "toml"}
    /\ mine \in {<<>>} \cup {<<e>> : e \in Entries}
    /\ file = (IF mine = <<>> THEN NoFile ELSE Whole([i \in DOMAIN mine |-> User(mine[i])]))
    /\ backup = NoFile
    /\ at = [c \in Commands |-> "idle"] /\ doc = [c \in Commands |-> <<>>]
    /\ first = <<>> /\ created = FALSE
    /\ overlapped = FALSE /\ crashes = 0

(* The user, or another tool, saves the file with one more entry.          *)
Save ==
    /\ ~file.torn /\ Cardinality(UserPlaces(file.says)) = Len(mine)
    /\ \E e \in Entries :
        /\ \A i \in DOMAIN mine : mine[i] # e
        /\ file' = Whole(With(file.says, User(e)))
        /\ mine' = Append(mine, e)
    /\ overlapped' = (overlapped \/ \E c \in Commands : Busy(c))
    /\ UNCHANGED <<kind, backup, at, doc, first, created, crashes>>

Begin(c) ==
    /\ at[c] = "idle"
    /\ Goto(c, IF file.there THEN "look" ELSE "load")
    /\ overlapped' = (overlapped \/ \E d \in Commands : Busy(d))
    /\ IF \A d \in Commands : at[d] = "idle"
       THEN first' = mine /\ created' = ~file.there
       ELSE UNCHANGED <<first, created>>
    /\ UNCHANGED <<kind, file, backup, doc, mine, crashes>>

MutBacksUpAgain == TRUE
BacksUp == ~backup.there

(* _back_up_once.                                                          *)
Look(c) ==
    /\ at[c] = "look" /\ Goto(c, IF BacksUp THEN "copy" ELSE "load")
    /\ UNCHANGED <<kind, file, backup, doc, mine, first, created, overlapped, crashes>>

CopyBegins(c) ==
    /\ at[c] = "copy" /\ Goto(c, "copying")
    /\ backup' = [Whole(<<>>) EXCEPT !.torn = TRUE]
    /\ UNCHANGED <<kind, file, doc, mine, first, created, overlapped, crashes>>

CopyEnds(c) ==
    /\ at[c] = "copying" /\ Goto(c, "load")
    /\ backup' = file
    /\ UNCHANGED <<kind, file, doc, mine, first, created, overlapped, crashes>>

Refuses == kind # "toml" /\ file.torn

(* _load_json does not touch what it cannot read; an empty file is read as *)
(* an empty document, and TOML is not read at all.                         *)
Load(c) ==
    /\ at[c] = "load"
    /\ IF Refuses THEN Goto(c, "refused") /\ UNCHANGED doc
       ELSE Goto(c, "write") /\ doc' = [doc EXCEPT ![c] = Merged(file.says, c)]
    /\ UNCHANGED <<kind, file, backup, mine, first, created, overlapped, crashes>>

(* path.write_text.                                                        *)
WriteBegins(c) ==
    /\ at[c] = "write" /\ Goto(c, "writing")
    /\ file' = Whole(<<>>)
    /\ UNCHANGED <<kind, backup, doc, mine, first, created, overlapped, crashes>>

WriteEnds(c) ==
    /\ at[c] = "writing" /\ Goto(c, "done")
    /\ file' = Whole(doc[c])
    /\ UNCHANGED <<kind, backup, doc, mine, first, created, overlapped, crashes>>

(* What was not written yet is missing.                                    *)
Die(c) ==
    /\ Busy(c) /\ crashes < MaxCrashes /\ crashes' = crashes + 1
    /\ Goto(c, "dead")
    /\ IF at[c] # "writing" THEN UNCHANGED file
       ELSE \E p \in DOMAIN doc[c] :
            LET came == {q \in DOMAIN doc[c] : q < p}
            IN file' = [there |-> TRUE, says |-> Restrict(doc[c], came), torn |-> came # {}]
    /\ UNCHANGED <<kind, backup, doc, mine, first, created, overlapped>>

Next ==
    \/ Save
    \/ \E c \in Commands :
        \/ Begin(c) \/ Look(c) \/ CopyBegins(c) \/ CopyEnds(c) \/ Load(c)
        \/ WriteBegins(c) \/ WriteEnds(c) \/ Die(c)

Spec == Init /\ [][Next]_vars
-----------------------------------------------------------------------------
Items == [is : {"user"}, of : Entries]
         \cup [is : {"ours", "table", "keys", "list", "env", "vars"}, of : Commands]
IsDocument(says) == DOMAIN says \subseteq Nat \ {0} /\ \A p \in DOMAIN says : says[p] \in Items
IsFile(d) == IsDocument(d.says) /\ d = [there |-> d.there, says |-> d.says, torn |-> d.torn]
             /\ {d.there, d.torn} \subseteq BOOLEAN

TypeOK ==
    /\ kind \in {"servers", "hooks", "toml"} /\ IsFile(file) /\ IsFile(backup)
    /\ at \in [Commands -> {"idle", "look", "copy", "copying", "load", "write", "writing",
                            "done", "refused", "dead"}]
    /\ \A c \in Commands : IsDocument(doc[c])
    /\ mine \in Seq(Entries) /\ first \in Seq(Entries)
    /\ created \in BOOLEAN /\ overlapped \in BOOLEAN /\ crashes \in 0..MaxCrashes

Settled == \A c \in Commands : ~Busy(c)
Spared(e) == ~(kind = "hooks" /\ e \in Naming)

(* Of the user's the document says what is to stay, once and in order.     *)
Keeps(says, entries) ==
    LET Places(i) == {p \in DOMAIN says : says[p] = User(entries[i])}
        Kept == {i \in DOMAIN entries : Spared(entries[i])}
    IN /\ \A p \in UserPlaces(says) :
            Spared(says[p].of) => \E i \in Kept : p \in Places(i)
       /\ \A i \in Kept : \E p \in DOMAIN says : Places(i) = {p}
       /\ \A i, j \in Kept : i < j => \A p \in Places(i), q \in Places(j) : p < q
Holds(d, e) == \E i \in DOMAIN d.says : d.says[i] = User(e)
Begun == \E c \in Commands : at[c] # "idle"

(* "Merge, never overwrite" and "back up before the first modification".   *)
(* While commands come one after the other and finish, the user's entries  *)
(* stay, in their order, though among the hooks those that name sodamem go.*)
(* One command may die at any point, and still what the user had before    *)
(* the first is in the file or in the backup, but for those hooks; the     *)
(* backup is of the state before us, unless we made the file.              *)
InstallKeepsTheUsers ==
    /\ Settled /\ Begun /\ ~overlapped /\ crashes = 0 =>
        Keeps(file.says, mine)
    /\ Settled /\ Begun /\ ~overlapped /\ crashes <= 1 =>
        \A i \in DOMAIN first :
            Spared(first[i]) => Holds(file, first[i]) \/ Holds(backup, first[i])
    /\ ~overlapped /\ ~created /\ crashes = 0 =>
        \A i \in DOMAIN backup.says : backup.says[i].is = "user"

(* "replaces exactly the sodamem entry": test_cli.py:188 calls it          *)
(* test_reinstalling_replaces_our_toml_table_instead_of_duplicating_it.    *)
ReinstallReplaces ==
    Settled /\ ~overlapped /\ crashes = 0 =>
        Cardinality({i \in DOMAIN file.says : file.says[i].is = "env"}) <= 1
=============================================================================
