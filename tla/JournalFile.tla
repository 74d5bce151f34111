----------------------------- MODULE JournalFile ------------------------------
(***************************************************************************)
(* The text of a session journal: what _write_block leaves in the file when *)
(* it ends early, and what the readers make of it (session.py, skills.py).  *)
(*                                                                         *)
(* The file is what str.splitlines makes of it.  A line is <<b>> when it is *)
(* exactly the JSON object of block b and Garbled when json.loads refuses   *)
(* it.  An unfinished last line has no line feed: the next write goes on    *)
(* it.                                                                      *)
(***************************************************************************)
EXTENDS Journal

(* What a block's text may contain besides ASCII.  json.dumps is called     *)
(* with ensure_ascii=False, so U+0085, U+2028 and U+2029 are written as     *)
(* they are, and splitlines ends a line at each of them.                    *)
TextKinds == {"ascii", "accented", "separator"}

(* How far the write of one line gets before a crash or a full disk: all of *)
(* it, all but the line feed, a part, a part that ends within a character,  *)
(* nothing after open(path, "a") has created the file.                      *)
WriteCuts == {"complete", "no_newline", "torn", "in_character", "nothing"}

Possible(cut, text) == cut = "in_character" => text # "ascii"

Garbled == <<>>

NoFile == [exists |-> FALSE, lines |-> <<>>, ended |-> TRUE, utf8 |-> TRUE]

\* Mutant: an unfinished last line is written over.
PutOver(f, line, ended) ==
  [f EXCEPT !.exists = TRUE,
            !.lines = IF f.ended THEN Append(@, line) ELSE [@ EXCEPT ![Len(@)] = line],
            !.ended = ended]

Put(f, line, ended) ==
  [f EXCEPT !.exists = TRUE,
            !.lines = IF f.ended THEN Append(@, line)
                                 ELSE [@ EXCEPT ![Len(@)] = Garbled],
            !.ended = ended]

PutBlock(f, b, text, ended) ==
  IF text = "separator"
    THEN Put(Put(f, Garbled, TRUE), Garbled, ended)
    ELSE Put(f, <<b>>, ended)

\* Mutant: no line feed after the block.
WriteBlockUnended(f, b, text, cut) ==
  CASE cut \in {"complete", "no_newline"} -> PutBlock(f, b, text, FALSE)
    [] cut = "torn"         -> Put(f, Garbled, FALSE)
    [] cut = "in_character" -> [Put(f, Garbled, FALSE) EXCEPT !.utf8 = FALSE]
    [] cut = "nothing"      -> [f EXCEPT !.exists = TRUE]

WriteBlock(f, b, text, cut) ==
  CASE cut = "complete"     -> PutBlock(f, b, text, TRUE)
    [] cut = "no_newline"   -> PutBlock(f, b, text, FALSE)
    [] cut = "torn"         -> Put(f, Garbled, FALSE)
    [] cut = "in_character" -> [Put(f, Garbled, FALSE) EXCEPT !.utf8 = FALSE]
    [] cut = "nothing"      -> [f EXCEPT !.exists = TRUE]

-----------------------------------------------------------------------------
(* The first n lines, as blocks.                                            *)
Blocks(f, n) == [i \in 1..n |-> f.lines[i][1]]

Parses(f, i) == f.lines[i] # Garbled

\* Mutant: a reader that skips the lines it cannot parse.
LoadsTolerantly(f) == f.exists /\ f.utf8 /\ f.lines # <<>> /\ Parses(f, 1)

(* load_journal returns.  Otherwise it raises SessionIntegrityViolation, or *)
(* UnicodeDecodeError when the file is not UTF-8.                           *)
Loads(f) ==
  /\ f.exists
  /\ f.utf8
  /\ \A i \in 1..Len(f.lines) : Parses(f, i)
  /\ Verified(Blocks(f, Len(f.lines)))

Undecodable(f) == f.exists /\ ~f.utf8

\* The blocks load_journal accepts before the first line it refuses.
Intact(f) ==
  LET n == Cardinality({i \in 1..Len(f.lines) : \A k \in 1..i : Parses(f, k)})
  IN  VerifiedPrefix(Blocks(f, n))

\* journal[-1] of a journal that loads, which is then intact.
StateIn(f) == CurrentState(Intact(f))

\* Mutant: append_block refuses a file without a final line feed.
EndsWithBlock(f) ==
  /\ f.exists /\ f.utf8 /\ f.lines # <<>>
  /\ Parses(f, Len(f.lines)) /\ f.ended

(* append_block gets as far as writing, and _last_seq as returning a number *)
(* append_block can use: only the last line is read, so a journal that      *)
(* load_journal refuses for an earlier line, or for the numbers of its      *)
(* lines, may well be appended to.                                          *)
CanAppend(f) == f.exists /\ f.utf8 /\ f.lines # <<>> /\ Parses(f, Len(f.lines))

=============================================================================
