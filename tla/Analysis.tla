------------------------------- MODULE Analysis -------------------------------
(***************************************************************************)
(* The ANALYZING phase of msgmv (zn_main.cpp): from the folder tree of the *)
(* account and the mails of its archive, the folder filters and mailbox    *)
(* filters compute the CREATE and APPEND commands for NSIM.                *)
(*                                                                         *)
(* A folder path is the sequence of its folder names, so the number of     *)
(* slashes that get_folder_level counts is its length and dirname is its   *)
(* Front.  A name that iconv or the 64-byte limit refuses is Unencodable;  *)
(* MaxDepth stands for the 248-byte limit of a path.                       *)
(***************************************************************************)
EXTENDS Integers, Sequences, FiniteSets, SequencesExt

CONSTANTS
    Pool,           \* the folders an account may have, [id, path]
    Always,         \* ids of the system folders every account has
    MailIds, Dates, \* the mails an archive may hold
    DefaultIds,     \* FOLDER_DEFAULT_ID
    CustomId,       \* FOLDER_CUSTOM_ID
    BackupId,       \* NSIM_BACKUP_FOLDER_ID
    BackupName,     \* NSIM_BACKUP_FOLDER_NAME
    StoreMax,       \* NSIM_MAIL_STORE_MAX
    Utf7,           \* modified UTF-7 of a folder name
    Unencodable,    \* names zn_convert_folder_path throws for
    MaxDepth        \* the longest path it takes

\* Folder ids are unique in an account, and those of the configuration are three
\* kinds: the default folders and the backup folder come before the custom ones.
ASSUME AnalysisAssumption ==
    /\ IsFiniteSet(Pool) /\ Pool \subseteq [id : Nat, path : Seq(DOMAIN Utf7) \ {<<>>}]
    /\ \A f, g \in Pool : f.id = g.id => f = g
    /\ {"Sent Messages", BackupName} \subseteq DOMAIN Utf7
    /\ CustomId \in Nat /\ BackupId \in Nat /\ BackupId < CustomId /\ BackupId \notin DefaultIds
    /\ MaxDepth \in Nat

VARIABLES
    phase,      \* the filter that is performed next
    tree,       \* history: the folders zn_xml found
    archive,    \* history: the mails of the archive
    folders,    \* zn_folder::_entries
    mails,      \* zn_mailbox::_entries, by id
    replaced,   \* _replacement_folderid
    counted     \* the keys of _mail_counter

vars == <<phase, tree, archive, folders, mails, replaced, counted>>

Ids(fs) == {f.id : f \in fs}
Entries == ToSet(folders)

\* The paths repeated dirname calls run through.
Ancestors(p) == {SubSeq(p, 1, n) : n \in 1 .. Len(p) - 1}

\* Folders in the order of their ids.
ById(fs) ==
    [i \in 1 .. Cardinality(fs) |->
        CHOOSE f \in fs : Cardinality({g \in fs : g.id < f.id}) = i - 1]

\* The list zn_xml hands over.  Its order is that of the elements; the first
\* filter sorts it by id, so one order stands for all of them.
AsEntries(fs) == ById({[id |-> f.id, name |-> f.path, utf7name |-> <<>>] : f \in fs})

\* What erasing the others from a vector leaves: the elements in S, in their order.
Only(s, S) ==
    LET kept[n \in 0 .. Len(s)] ==
            IF n = 0 THEN <<>>
            ELSE IF s[n] \in S THEN Append(kept[n - 1], s[n]) ELSE kept[n - 1]
    IN  kept[Len(s)]

\* A whole folder tree: what zn_xml collects from nested folder elements.
IsTree(fs) ==
    /\ Always \subseteq Ids(fs)
    /\ \A f \in fs : \A p \in Ancestors(f.path) : \E g \in fs : g.path = p

Init ==
    /\ phase = "remove"
    /\ tree \in {fs \in SUBSET Pool : IsTree(fs)}
    /\ \E ms \in SUBSET MailIds :
          archive \in [ms -> [folder_id : Ids(tree), date : Dates]]
    /\ folders = AsEntries(tree)
    /\ mails = archive
    /\ replaced = {} /\ counted = {}

-----------------------------------------------------------------------------
\* zn_folder_unnecessary_folder_remover: keep the default and custom folders,
\* in the order of their ids.
Necessary(f) == f.id >= CustomId \/ f.id \in DefaultIds

RemoveUnnecessary ==
    /\ phase = "remove"
    /\ folders' = ById({f \in Entries : Necessary(f)})
    /\ phase' = "limit"
    /\ UNCHANGED <<tree, archive, mails, replaced, counted>>

\* zn_mailbox_limiter: std::sort by date is not stable, so mails of one date
\* may be kept in any combination.  zn_mailbox_sorter orders them by id.
LimitMails ==
    /\ phase = "limit"
    /\ \E kept \in SUBSET DOMAIN mails :
          /\ IF Cardinality(DOMAIN mails) > StoreMax
             THEN /\ Cardinality(kept) = StoreMax
                  /\ \A m \in kept, n \in DOMAIN mails \ kept : mails[m].date <= mails[n].date
             ELSE kept = DOMAIN mails
          /\ mails' = [m \in kept |-> mails[m]]
    /\ phase' = "rename"
    /\ UNCHANGED <<tree, archive, folders, replaced, counted>>

\* zn_folder_name_changer: /Sent and what is below it become /Sent Messages.
SentMessages(p) == IF p[1] = "Sent" THEN [p EXCEPT ![1] = "Sent Messages"] ELSE p

\* Mutant: a folder below /Sent keeps its name.
ChangeOnlySent ==
    /\ phase = "rename"
    /\ folders' = [i \in DOMAIN folders |->
                      IF Len(folders[i].name) = 1
                      THEN [folders[i] EXCEPT !.name = SentMessages(@)] ELSE folders[i]]
    /\ phase' = "encode"
    /\ UNCHANGED <<tree, archive, mails, replaced, counted>>

ChangeNames ==
    /\ phase = "rename"
    /\ folders' = [i \in DOMAIN folders |-> [folders[i] EXCEPT !.name = SentMessages(@)]]
    /\ phase' = "encode"
    /\ UNCHANGED <<tree, archive, mails, replaced, counted>>

\* zn_convert_folder_path throws no zn_folder_name_encoder_exception.
Encodable(f) == Len(f.name) <= MaxDepth /\ \A i \in DOMAIN f.name : f.name[i] \notin Unencodable

Encoded(p) == [i \in DOMAIN p |-> Utf7[p[i]]]

Backup == [id |-> BackupId, name |-> <<BackupName>>, utf7name |-> Encoded(<<BackupName>>)]

\* zn_folder_name_encoder: a folder that cannot be encoded goes, and with the
\* first one the backup folder comes, at the end.  One of the system folders
\* has been removed before, so push_back finds room and it stays valid.
EncodeNames ==
    /\ phase = "encode"
    /\ LET bad  == {f \in Entries : ~Encodable(f)}
           good == Only(folders, Entries \ bad)
           enc  == [i \in DOMAIN good |-> [good[i] EXCEPT !.utf7name = Encoded(good[i].name)]]
       IN  /\ folders' = IF bad = {} THEN enc ELSE Append(enc, Backup)
           /\ replaced' = Ids(bad)
    /\ phase' = "replace"
    /\ UNCHANGED <<tree, archive, mails, counted>>

\* zn_mailbox_backup_folder_replacement, then zn_mailbox_mail_counter.
ReplaceAndCount ==
    /\ phase = "replace"
    /\ mails' = [m \in DOMAIN mails |->
                    IF mails[m].folder_id \in replaced
                    THEN [mails[m] EXCEPT !.folder_id = BackupId] ELSE mails[m]]
    /\ counted' = {mails'[m].folder_id : m \in DOMAIN mails}
    /\ phase' = "fill"
    /\ UNCHANGED <<tree, archive, folders, replaced>>

\* get_folder_info: the first entry, if there is one.
InfoById(id)     == folders[SelectInSeq(folders, LAMBDA f : f.id = id)]
InfoByName(name) == folders[SelectInSeq(folders, LAMBDA f : f.name = name)]
HasId(id)        == \E f \in Entries : f.id = id
HasName(name)    == \E f \in Entries : f.name = name

\* _fill_parent_folder_mail_counter looks up every folder that has mails and
\* all its ancestors; get_folder_info throws for one that is not there and
\* nothing catches it.
Lookups == \A id \in counted : HasId(id) /\ \A p \in Ancestors(InfoById(id).name) : HasName(p)

ParentIds == UNION {{InfoByName(p).id : p \in Ancestors(InfoById(id).name)} : id \in counted}

\* Mutant: the parents are looked up and not counted.
FillNoParents ==
    /\ phase = "fill"
    /\ phase' = IF Lookups THEN "sort" ELSE "dead"
    /\ UNCHANGED <<tree, archive, folders, mails, replaced, counted>>

FillParentFolderMailCounter ==
    /\ phase = "fill"
    /\ \/ Lookups /\ counted' = counted \cup ParentIds /\ phase' = "sort"
       \/ ~Lookups /\ phase' = "dead" /\ UNCHANGED counted
    /\ UNCHANGED <<tree, archive, folders, mails, replaced>>

\* folder_info_priority_cmp.  Its criteria are joined by ||, so both of a, b
\* may come before the other.
PriorityLess(a, b) ==
    /\ a.id # BackupId
    /\ \/ a.id \in counted /\ b.id \notin counted
       \/ Len(a.name) < Len(b.name)
       \/ a.id < b.id

\* std::sort of at most 16 elements is libstdc++'s insertion sort: an element
\* less than the first goes to the front, any other one moves left until the
\* element before it is not greater.  With this comparison the result depends
\* on the algorithm.
SortInsert(s, x) ==
    IF s = <<>> \/ PriorityLess(x, s[1]) THEN <<x>> \o s
    ELSE LET k == CHOOSE i \in DOMAIN s :
                     /\ ~PriorityLess(x, s[i])
                     /\ \A j \in DOMAIN s : j > i => PriorityLess(x, s[j])
         IN  InsertAt(s, k + 1, x)

\* zn_folder_priority_sorter: sort, then _remove_empty_default_folder.
PrioritySort ==
    /\ phase = "sort"
    /\ LET sorted[n \in 0 .. Len(folders)] ==
               IF n = 0 THEN <<>> ELSE SortInsert(sorted[n - 1], folders[n])
       IN  folders' = Only(sorted[Len(folders)],
                           {f \in Entries : f.id \in counted \/ f.id \notin DefaultIds})
    /\ phase' = "done"
    /\ UNCHANGED <<tree, archive, mails, replaced, counted>>

Next ==
    \/ RemoveUnnecessary \/ LimitMails \/ ChangeNames \/ EncodeNames
    \/ ReplaceAndCount \/ FillParentFolderMailCounter \/ PrioritySort

Spec == Init /\ [][Next]_vars

-----------------------------------------------------------------------------
\* The folder an entry of the mailbox is appended to, and whether it stands
\* before another one in the list the CREATEs follow.
FolderOf(m)  == InfoById(mails[m].folder_id)
Before(f, g) == \E i, j \in DOMAIN folders : i < j /\ folders[i] = f /\ folders[j] = g

\* The append loop finds the folder of every mail that the limiter kept, and
\* every folder above it is created too: no filter drops a folder that a later
\* step needs, and no mail is left behind by the replacement of folders.  The
\* backup folder that takes the place of others is there exactly when one could
\* not be encoded, and whatever the sort makes of the rest, it is created last.
TargetsComplete ==
    phase = "done" =>
        /\ \A m \in DOMAIN mails :
               /\ HasId(mails[m].folder_id)
               /\ \A p \in Ancestors(FolderOf(m).name) : HasName(p)
        /\ HasId(BackupId) <=> replaced # {}
        /\ \A f \in Entries : f.id # BackupId /\ HasId(BackupId) => Before(f, InfoById(BackupId))

\* The analysis only dies for a mail in, or below, a system folder that the
\* first filter removed (Trash): neither the renaming of /Sent nor folders that
\* cannot be encoded ever leave a parent that is not found.
DiesOnlyForRemovedFolder ==
    phase = "dead" =>
        \E m \in DOMAIN archive, f, g \in tree :
            /\ f.id = archive[m].folder_id
            /\ g = f \/ g.path \in Ancestors(f.path)
            /\ ~Necessary(g)

=============================================================================
