-------------------------------- MODULE Untar --------------------------------
(***************************************************************************)
(* Unpacking the mail archive (zn_mailbox_dump_stream over                 *)
(* zn_zimbra_untar_stream): a tar stream arrives in pieces of any length,  *)
(* is cut into blocks, and becomes files and the entries of the mailbox.   *)
(*                                                                         *)
(* The unit of length is a cell, BlockSize of them to a block.  The text   *)
(* of a file is a sequence of cells; a file name is a sequence of cells    *)
(* too, one for each directory and <<id, suffix>> for the rest.  SHA-1     *)
(* tells any two texts apart, so a digest is the text it was fed.          *)
(***************************************************************************)
EXTENDS Integers, Sequences, FiniteSets, SequencesExt

CONSTANTS
    BlockSize,  \* ZN_TAR_BLOCK_SIZE, in cells
    EndCount,   \* ZN_TAR_END_COUNT
    Chunks,     \* bound: the lengths one consume() of the gunzip stream returns
    Folders,    \* the directory of the i-th mail of an archive
    Sizes,      \* bound: the lengths of mails, in cells
    Texts,      \* bound: the texts of mails, of any length
    MetaSize    \* bound: the length of a meta file, which is never empty

VARIABLES
    mails,      \* history: the mails of the account, in the archive's order
    archive,    \* history: the blocks of the archive
    fed,        \* the cells fed so far
    st          \* zn_mailbox_dump_stream

vars == <<mails, archive, fed, st>>

-----------------------------------------------------------------------------
(* The archive, as the Zimbra server writes it.                            *)

NUL == <<>>

MailText(i) == [k \in 1 .. mails[i].size |-> <<mails[i].text, k>>]
MetaText(i) == [k \in 1 .. MetaSize |-> <<"meta", i, k>>]

Header(type, size, name) ==
    [kind |-> "header", type |-> type, size |-> size, name |-> name, cells |-> <<>>]
Zero == [kind |-> "zero", cells |-> <<>>]

\* A text in blocks, the last one padded.
DataBlocks(text) ==
    [b \in 1 .. (Len(text) + BlockSize - 1) \div BlockSize |->
        [kind |-> "data",
         cells |-> SubSeq(text, (b - 1) * BlockSize + 1, IF b * BlockSize < Len(text)
                                                         THEN b * BlockSize ELSE Len(text))]]

\* A file; a long name has an entry of its own before it, and is cut off in the
\* header proper.
FileBlocks(folder, id, suffix, text, long) ==
    LET name(s) == Append(folder, <<id, s>>)
    IN  IF long
        THEN <<Header("L", Len(name(suffix)) + 1, <<>>)>>
                \o DataBlocks(Append(name(suffix), NUL))
                \o <<Header("0", Len(text), name("cut"))>> \o DataBlocks(text)
        ELSE <<Header("0", Len(text), name(suffix))>> \o DataBlocks(text)

\* A mail: the meta file and, just behind it, the mail itself.  An entry of
\* another type, with a block of data, may come before them.
MailBlocks(m, i) ==
    (IF m.other THEN <<Header("x", 1, <<>>), [kind |-> "data", cells |-> <<<<"x">>>>]>> ELSE <<>>)
       \o FileBlocks(Folders[i], 1, "meta", MetaText(i), m.long)
       \o FileBlocks(Folders[i], 1, "eml", MailText(i), m.long)

Init ==
    /\ \E n \in 1 .. Len(Folders) :
          mails \in [1 .. n -> [size : Sizes, text : Texts, long : BOOLEAN, other : BOOLEAN]]
    /\ archive = FlattenSeq([i \in DOMAIN mails |-> MailBlocks(mails[i], i)]) \o <<Zero, Zero>>
    /\ fed = 0
    /\ st = [status |-> "HEADER", ends |-> 0, name |-> <<>>, left |-> 0, dirs |-> <<>>,
             digest |-> <<>>, mailbox |-> <<>>, files |-> <<>>]

-----------------------------------------------------------------------------
(* tar_filename_processor                                                  *)

\* directory_allocator: a number for every directory name, whatever its parent.
GetNewDirectoryName(dirs, d) ==
    IF d \in DOMAIN dirs THEN dirs ELSE dirs @@ (d :> Cardinality(DOMAIN dirs) + 1)

\* The directory names of a path; a leading "." is part of the first one.
Components(name) ==
    IF name[1] = <<".">> THEN <<<<".">> \o name[2]>> \o SubSeq(name, 3, Len(name) - 1)
    ELSE Front(name)

AllDirs(dirs, name) == FoldLeft(GetNewDirectoryName, dirs, Components(name))

\* process(): dirname of an empty name is ".".
Process(dirs, name) ==
    IF name = <<>> THEN <<<<".">>>>
    ELSE [i \in DOMAIN Components(name) |-> <<AllDirs(dirs, name)[Components(name)[i]]>>]
            \o <<Last(name)>>

\* _set_tar_info ends with the renaming.
Named(s, name) ==
    [s EXCEPT !.name = Process(s.dirs, name),
              !.dirs = IF name = <<>> THEN @ ELSE AllDirs(@, name)]

-----------------------------------------------------------------------------
(* zn_mailbox_dump_stream                                                  *)

\* load_meta: the mail whose meta file this is, 0 if it is none.
LoadMeta(text) ==
    IF \E i \in DOMAIN mails : MetaText(i) = text
    THEN CHOOSE i \in DOMAIN mails : MetaText(i) = text ELSE 0

\* Mutant: the digest is not compared.
FileDownloadedUnchecked(s) ==
    LET isMeta == Last(s.name)[2] = "meta"
    IN  [s EXCEPT
            !.digest = <<>>,
            !.mailbox =
                IF isMeta THEN Append(@, [mail |-> LoadMeta(s.files[s.name]), file |-> <<>>])
                ELSE IF @ # <<>> THEN [@ EXCEPT ![Len(@)].file = s.name]
                ELSE @]

\* The end of a file: a meta file is a new entry, any other file is bound to the
\* last entry if its digest is the one the meta file tells.  Archives begin with
\* a meta file, so last_entry() never reads an empty mailbox.
FileDownloaded(s) ==
    LET isMeta  == Last(s.name)[2] = "meta"
        matches == /\ s.mailbox # <<>> /\ Last(s.mailbox).mail # 0
                   /\ MailText(Last(s.mailbox).mail) = s.digest
    IN  [s EXCEPT
            !.digest = <<>>,
            !.mailbox =
                IF isMeta THEN Append(@, [mail |-> LoadMeta(s.files[s.name]), file |-> <<>>])
                ELSE IF matches THEN [@ EXCEPT ![Len(@)].file = s.name]
                ELSE @]

\* zn_untar_stream::on_write appends to the file.  (A write that fails throws and
\* ends the whole export.)
WriteFile(files, name, text) ==
    IF name \in DOMAIN files THEN [files EXCEPT ![name] = @ \o text]
    ELSE files @@ (name :> text)

\* on_write: the file, then the digest.
OnWrite(s, text) ==
    LET new == [s EXCEPT !.files = WriteFile(@, s.name, text), !.digest = @ \o text]
    IN  IF s.left = Len(text) THEN FileDownloaded(new) ELSE new

-----------------------------------------------------------------------------
(* zn_untar_stream                                                         *)

\* _set_tar_info: a block without the magic, or of another type, is skipped.
SetTarInfo(s, b) ==
    CASE b.kind # "header" -> s
      [] b.kind = "header" /\ b.type = "0" ->
            Named([s EXCEPT !.left = b.size, !.status = "CONTENT"],
                  IF s.status = "HEADER" THEN b.name ELSE s.name)
      [] b.kind = "header" /\ b.type = "L" ->
            Named([s EXCEPT !.left = b.size, !.status = "LONGNAME"], <<>>)
      [] OTHER -> [s EXCEPT !.left = b.size]

\* all_zero; the magic of such a block is 0, too.
AllZero(b) == b.kind # "header" /\ \A k \in DOMAIN b.cells : b.cells[k] = NUL

FeedHeader(s, b) ==
    IF AllZero(b) THEN [s EXCEPT !.ends = @ + 1] ELSE SetTarInfo(s, b)

\* Mutant: a last block that is full is taken for one that another follows.
FeedContentOffByOne(s, b) ==
    IF s.left >= BlockSize
    THEN [OnWrite(s, b.cells) EXCEPT !.left = @ - BlockSize]
    ELSE [OnWrite(s, SubSeq(b.cells, 1, s.left)) EXCEPT
             !.name = <<>>, !.left = 0, !.status = "HEADER"]

FeedContent(s, b) ==
    IF s.left > BlockSize
    THEN [OnWrite(s, b.cells) EXCEPT !.left = @ - BlockSize]
    ELSE [OnWrite(s, SubSeq(b.cells, 1, s.left)) EXCEPT
             !.name = <<>>, !.left = 0, !.status = "HEADER"]

FeedLongname(s, b) ==
    IF s.left > BlockSize
    THEN [s EXCEPT !.name = @ \o b.cells, !.left = @ - BlockSize]
    ELSE [s EXCEPT !.name = @ \o SelectSeq(b.cells, LAMBDA c : c # NUL),
                   !.left = 0, !.status = "LONGNAME_HEADER"]

\* One turn of the loop in feed().
FeedBlock(s, b) ==
    CASE s.ends = EndCount -> s
      [] s.ends # EndCount /\ s.status \in {"HEADER", "LONGNAME_HEADER"} -> FeedHeader(s, b)
      [] s.ends # EndCount /\ s.status = "CONTENT" -> FeedContent(s, b)
      [] s.ends # EndCount /\ s.status = "LONGNAME" -> FeedLongname(s, b)

\* The blocks shift() hands out when n cells are appended to _buf; what does not
\* fill a block stays there.
Shifted(n) == SubSeq(archive, fed \div BlockSize + 1, (fed + n) \div BlockSize)

Feed(n) ==
    /\ fed + n <= Len(archive) * BlockSize
    /\ fed' = fed + n
    /\ st' = FoldLeft(FeedBlock, st, Shifted(n))
    /\ UNCHANGED <<mails, archive>>

Next == \E n \in Chunks : Feed(n)

Spec == Init /\ [][Next]_vars

-----------------------------------------------------------------------------
\* An empty file has no block, so feed() takes the header that follows for its
\* text: the meta file behind an empty mail is lost, unless an entry of another
\* type stands between them.
Survives(i) == i = 1 \/ mails[i - 1].size > 0 \/ mails[i].other

\* However the stream is cut, the mailbox has an entry for every mail, in the
\* order of the archive, each with a file that holds the whole mail; an empty
\* mail costs the one behind it and nothing else.
UnpacksExactly ==
    fed = Len(archive) * BlockSize =>
        /\ [k \in DOMAIN st.mailbox |-> st.mailbox[k].mail]
              = SelectSeq([i \in DOMAIN mails |-> i], Survives)
        /\ \A k \in DOMAIN st.mailbox : st.mailbox[k].file # <<>>

\* An entry is never bound to a file with another mail's text, not even when a
\* header was lost and the files that follow belong to no entry, and no later
\* file is written to a name that is bound: wherever the stream breaks off, what
\* is appended to NSIM for an entry is its mail or nothing.
BoundRight ==
    \A k \in DOMAIN st.mailbox :
        LET e == st.mailbox[k]
        IN  e.file # <<>> => e.mail # 0 /\ st.files[e.file] = MailText(e.mail)
=============================================================================
