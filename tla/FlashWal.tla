------------------------------ MODULE FlashWal ------------------------------
(***************************************************************************)
(* The write-ahead log of the microcontroller runtime                      *)
(* (evorule-mcu/src/{wal,wal_flash}.rs): JSON lines in a ring of flash     *)
(* pages.  A byte of the medium is a cell: free (0xFF), or byte `at` of    *)
(* line `line`; the last byte of a line is its newline.  Programming can   *)
(* only take free cells (or write what is there already); power may fail   *)
(* after any byte.                                                         *)
(*                                                                         *)
(* `written` lists the different lines there have been; a line on the      *)
(* medium is its number in that list, and so is its chain_hash, for a line *)
(* holds what chain_step hashes: a fact and the hash before it.            *)
(***************************************************************************)
EXTENDS Integers, FiniteSets, SequencesExt

CONSTANTS PageSize,    \* bytes of a page
          PageCount,   \* pages of the ring
          Size(_)      \* bytes of the line of a fact, its newline included

ASSUME FlashAssumption == {PageSize, PageCount} \subseteq Nat \ {0}

VARIABLES
    written,       \* auxiliary: the lines, by number
    medium,        \* the cells of the ring, page after page
    lines,         \* FlashWalStore.lines
    tail_hash,
    active_page,
    write_offset,  \* PageSize: the page is full
    polluted       \* the active page holds half a line

store == <<lines, tail_hash, active_page, write_offset, polluted>>
wal   == <<written, medium, store>>

Free    == [line |-> 0, at |-> 0]
genesis == 0

(* append_fact: the record of a fact, chained to the tail. *)
Record(version_before, fact) ==
    [version_before |-> version_before, fact |-> fact, prev_hash |-> tail_hash]

chain_step(rec) ==
    IF Contains(written, rec) THEN CHOOSE n \in DOMAIN written : written[n] = rec
    ELSE Len(written) + 1

Remember(rec) ==
    written' = IF Contains(written, rec) THEN written ELSE Append(written, rec)

wal_line_json(rec) ==
    [k \in 1 .. Size(rec.fact) |-> [line |-> chain_step(rec), at |-> k]]

IsNewline(c) == c # Free /\ c.at = Size(written[c.line].fact)

-----------------------------------------------------------------------------
(* FlashMedium. *)

Blank == [k \in 1 .. PageSize * PageCount |-> Free]

(* Byte k of page p. *)
Cell(p, k) == p * PageSize + k

Page(m, p) == SubSeq(m, Cell(p, 1), Cell(p, PageSize))

IsEmpty(m, p) == \A k \in 1 .. PageSize : m[Cell(p, k)] = Free

(* Every bit may only go from 1 to 0. *)
Programmable(m, offset, bytes) ==
    \A k \in DOMAIN bytes : m[offset + k] \in {Free, bytes[k]}

program(m, offset, bytes) ==
    [j \in DOMAIN m |-> IF j - offset \in DOMAIN bytes THEN bytes[j - offset] ELSE m[j]]

(* Mutant: the page number is one too low. *)
ErasePageBefore(m, p) ==
    [j \in DOMAIN m |-> IF j \in Cell(p - 1, 1) .. Cell(p - 1, PageSize) THEN Free ELSE m[j]]

erase_page(m, p) ==
    [j \in DOMAIN m |-> IF j \in Cell(p, 1) .. Cell(p, PageSize) THEN Free ELSE m[j]]

-----------------------------------------------------------------------------
(* scan_page: a page is read up to its first free cell.  *)

FirstFree(page) ==
    CHOOSE k \in 1 .. PageSize + 1 :
        /\ k <= PageSize => page[k] = Free
        /\ \A j \in 1 .. k - 1 : page[j] # Free

(* Half a line is left before the free space. *)
IsPolluted(page) ==
    LET free == FirstFree(page)
    IN  free \in 2 .. PageSize /\ ~IsNewline(page[free - 1])

(* The bytes up to the newline at k, from the newline before it on, are a   *)
(* line that was appended: from_utf8 and line_chain_hash accept it.         *)
IsRow(page, k) ==
    LET n == Size(written[page[k].line].fact)
    IN  /\ n <= k
        /\ \A i \in 1 .. n : page[k - n + i] = [line |-> page[k].line, at |-> i]
        /\ k > n => IsNewline(page[k - n])

Readable(page) ==
    LET free == FirstFree(page)
    IN  /\ \A k \in free .. PageSize : page[k] = Free
        /\ \A k \in 1 .. free - 1 : IsNewline(page[k]) => IsRow(page, k)

DataPages(m) == {p \in 0 .. PageCount - 1 : ~IsEmpty(m, p)}

(* The complete lines, page after page: a line counts from its newline on. *)
Committed(m) ==
    LET upto[k \in 0 .. Len(m)] ==
            IF k = 0 THEN <<>>
            ELSE IF IsNewline(m[k]) THEN Append(upto[k - 1], m[k].line) ELSE upto[k - 1]
    IN  upto[Len(m)]

LastDataPage(m) == IF DataPages(m) = {} THEN 0 ELSE Max(DataPages(m))

(* Mutant: the tail is that of the last page's lines. *)
TailOfLastPage(m) ==
    LET rows == Committed(Page(m, LastDataPage(m)))
    IN  IF rows = <<>> THEN genesis ELSE Last(rows)

TailOf(m) ==
    LET rows == Committed(m)
    IN  IF rows = <<>> THEN genesis ELSE Last(rows)

(* FlashWalStore::open *)
CanOpen(m) ==
    /\ \A p \in DataPages(m) : p = 0 \/ p - 1 \in DataPages(m)
    /\ \A p \in DataPages(m) : Readable(Page(m, p))

open ==
    LET p == LastDataPage(medium)
        page == Page(medium, p)
    IN  /\ CanOpen(medium)
        /\ lines' = Committed(medium)
        /\ tail_hash' = TailOf(medium)
        /\ active_page' = p
        /\ write_offset' = FirstFree(page) - 1
        /\ polluted' = IsPolluted(page)
        /\ UNCHANGED <<written, medium>>

-----------------------------------------------------------------------------
(* append_record *)

TooLarge(rec) == Size(rec.fact) > PageSize

(* Mutant: the room left in the page is not looked at. *)
NeedsNewPageWhenFull(rec) == polluted \/ write_offset >= PageSize

NeedsNewPage(rec) ==
    polluted \/ write_offset >= PageSize \/ PageSize - write_offset < Size(rec.fact)

NextPage == active_page + 1

NoPageLeft == NextPage >= PageCount \/ medium[Cell(NextPage, 1)] # Free

(* Where the line goes, and the medium it is programmed into. *)
TargetPage(rec) == IF NeedsNewPage(rec) THEN NextPage ELSE active_page
TargetOffset(rec) == IF NeedsNewPage(rec) THEN 0 ELSE write_offset
Prepared(rec) == IF NeedsNewPage(rec) THEN erase_page(medium, NextPage) ELSE medium
Position(rec) == Cell(TargetPage(rec), TargetOffset(rec))

Refuses(rec) == TooLarge(rec) \/ (NeedsNewPage(rec) /\ NoPageLeft)

CanProgram(rec) ==
    ~Refuses(rec) /\ Programmable(Prepared(rec), Position(rec), wal_line_json(rec))

(* append_record once nothing stands in its way. *)
Landed(rec) ==
    /\ CanProgram(rec)
    /\ medium' = program(Prepared(rec), Position(rec), wal_line_json(rec))
    /\ Remember(rec)
    /\ lines' = Append(lines, chain_step(rec))
    /\ tail_hash' = chain_step(rec)
    /\ active_page' = TargetPage(rec)
    /\ write_offset' = TargetOffset(rec) + Size(rec.fact)
    /\ polluted' = (polluted /\ ~NeedsNewPage(rec))

(* WalRecordTooLarge, WalFull and WalCorrupted come before any change,      *)
(* FlashProgramViolated when the page has been changed already.             *)
NotLanded(rec) ==
    /\ ~CanProgram(rec)
    /\ medium' = IF Refuses(rec) THEN medium ELSE Prepared(rec)
    /\ active_page' = IF Refuses(rec) THEN active_page ELSE TargetPage(rec)
    /\ write_offset' = IF Refuses(rec) THEN write_offset ELSE TargetOffset(rec)
    /\ polluted' = (polluted /\ (Refuses(rec) \/ ~NeedsNewPage(rec)))
    /\ UNCHANGED <<written, lines, tail_hash>>

(* Power fails when the first k bytes of the line have been programmed.  A  *)
(* page that is erased for it was free: erasing it leaves no trace.         *)
CutShort(rec) ==
    \/ /\ CanProgram(rec)
       /\ Remember(rec)
       /\ \E k \in 1 .. Size(rec.fact) :
             medium' = program(Prepared(rec), Position(rec), SubSeq(wal_line_json(rec), 1, k))
    \/ UNCHANGED <<written, medium>>

(* What is in memory is gone. *)
StoreLost ==
    /\ lines' = <<>> /\ tail_hash' = genesis
    /\ active_page' = 0 /\ write_offset' = 0 /\ polluted' = FALSE
=============================================================================
