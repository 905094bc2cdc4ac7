----------------------------- MODULE Documents ------------------------------
(***************************************************************************)
(* documents/: a directory document is read line by line, the items of its *)
(* class one after the other (basics.py, items.py), and a difference of    *)
(* two consensuses is a list of ed commands (network_status_diff.py).  A   *)
(* line is its keyword and what follows it, a text the sequence of its     *)
(* lines.                                                                  *)
(***************************************************************************)
EXTENDS Integers, Sequences, SequencesExt

Line(kw, v) == [kw |-> kw, v |-> v]
Begin == Line("BEGIN", <<>>)
End   == Line("END", <<>>)

(* A class of documents: the item it must start with, its own items, the   *)
(* object each of the other items belongs to, the items that a block of    *)
(* lines follows, the ed commands, and the objects that become a CLASS     *)
(* with the item that class cannot do without.                             *)
NetworkStatus ==
  [start |-> "network-status-version",
   items |-> {"network-status-version", "valid-until", "directory-signature"},
   object |-> [k \in {"dir-source", "r", "s"} |-> IF k = "s" THEN "r" ELSE k],
   multi |-> {"directory-signature"}, masks |-> {},
   built |-> [k \in {"r"} |-> "s"]]

NetworkStatusDiff ==
  [start |-> "network-status-diff-version",
   items |-> {"network-status-diff-version", "hash"},
   object |-> [k \in {} |-> k],
   multi |-> {}, masks |-> {"ed"},
   built |-> [k \in {} |-> k]]

DirKeyCertificateList ==
  [start |-> "",
   items |-> {},
   object |-> [k \in {"dir-key-certificate-version", "fingerprint", "dir-signing-key"}
                 |-> "dir-key-certificate-version"],
   multi |-> {"dir-signing-key"}, masks |-> {},
   built |-> [k \in {} |-> k]]

-----------------------------------------------------------------------------
(* The reader: the item that must come first, if it is still to come; what *)
(* ends the block it is in, or that it has raised; the item of that block  *)
(* and the block so far; what the document was given for each of its       *)
(* items, and the objects of each list.                                    *)
Starts(class) == Range(class.object)

Unread(class) ==
  [first |-> class.start, mode |-> "line", open |-> End, block |-> <<>>,
   fields |-> [k \in class.items \cup class.masks |-> <<>>],
   objs |-> [k \in Starts(class) |-> <<>>]]

NewObject(class, line) ==
  [v |-> line.v, subs |-> [k \in DOMAIN class.object |-> <<>>]]

(* _update: of the document itself, or of the last object of its list.     *)
GiveLast(list, kw, v) == [list EXCEPT ![Len(list)].subs[kw] = Append(@, v)]

Put(class, p, kw, v) ==
  IF kw \in DOMAIN class.object
    THEN [p EXCEPT !.objs[class.object[kw]] = GiveLast(@, kw, v)]
    ELSE [p EXCEPT !.fields[kw] = Append(@, v)]

Close(class, p) ==
  Put(class, [p EXCEPT !.mode = "line"], p.open.kw, [arg |-> p.open.v, ml |-> p.block])

Take(class, p, line) ==
  IF line.kw \in class.multi
    THEN [p EXCEPT !.mode = "begin", !.open = line, !.block = <<>>]
    ELSE Put(class, p, line.kw, line.v)

Raise(p) == [p EXCEPT !.mode = "raised"]

(* The range of an ed command is checked when it is read; Dollar is `$'.     *)
Dollar == -1
Ranged(act) == act.end = Dollar \/ act.start <= act.end

(* check_items, for a line that no block has swallowed: an item of the     *)
(* document, an object, an item of the last object, an ed command, or      *)
(* something unknown, which is skipped.                                    *)
CheckItems(class, p, line) ==
  LET kw == line.kw IN
  IF kw \in class.items
    THEN IF p.first \notin {"", kw} THEN Raise(p)
         ELSE Take(class, [p EXCEPT !.first = ""], line)
  ELSE IF kw \in DOMAIN class.object
    THEN IF class.object[kw] = kw
           THEN [p EXCEPT !.objs[kw] = Append(@, NewObject(class, line))]
         ELSE IF p.objs[class.object[kw]] = <<>> THEN p
         ELSE Take(class, p, line)
  ELSE IF kw \in class.masks
    THEN IF ~Ranged(line.v) THEN Raise(p)
         ELSE IF line.v.act = "d"
                THEN Put(class, p, kw, [arg |-> line.v, ml |-> <<>>])
                ELSE [p EXCEPT !.mode = ".", !.open = line, !.block = <<>>]
  ELSE p

(* Fault: an unknown item is refused.                                      *)
ReadStrictly(class, p, line) ==
  IF p.mode = "raised" THEN p
  ELSE IF p.mode = "begin"
    THEN IF line.kw = "BEGIN" THEN [p EXCEPT !.mode = "END"] ELSE Raise(p)
  ELSE IF p.mode \in {"END", "."} /\ line.kw # p.mode
    THEN [p EXCEPT !.block = Append(@, line)]
  ELSE IF p.mode # "line" THEN Close(class, p)
  ELSE IF line.kw \notin class.items \cup DOMAIN class.object \cup class.masks THEN Raise(p)
  ELSE CheckItems(class, p, line)

(* One line: it ends a block or is swallowed by it, or is checked.         *)
ReadLine(class, p, line) ==
  IF p.mode = "raised" THEN p
  ELSE IF p.mode = "begin"
    THEN IF line.kw = "BEGIN" THEN [p EXCEPT !.mode = "END"] ELSE Raise(p)
  ELSE IF p.mode \in {"END", "."} /\ line.kw # p.mode
    THEN [p EXCEPT !.block = Append(@, line)]
  ELSE IF p.mode # "line" THEN Close(class, p)
  ELSE CheckItems(class, p, line)

(* _fix_objects: TypeError when a list of objects was never started or     *)
(* when an object lacks an argument of its constructor.                    *)
FixObjects(class, p) ==
  IF \A k \in DOMAIN class.built :
       /\ p.objs[k] # <<>>
       /\ \A o \in Range(p.objs[k]) : o.subs[class.built[k]] # <<>>
    THEN p ELSE Raise(p)

(* Lines read one after the other, from a state of the reader on.          *)
ReadLines(class, p, text) ==
  LET read[n \in 0..Len(text)] ==
        IF n = 0 THEN p ELSE ReadLine(class, read[n - 1], text[n])
  IN read[Len(text)]

(* A document of a class, from its text.  The end of the text ends a block *)
(* too, and raises StopIteration where the first line of one is awaited.   *)
Parse(class, text) ==
  LET p == ReadLines(class, Unread(class), text)
      q == IF p.mode \in {"END", "."} THEN Close(class, p) ELSE p
  IN IF q.mode = "line" THEN FixObjects(class, q) ELSE Raise(q)

Raised(p) == p.mode = "raised"

(* check_start, by which the factory tells the classes apart.              *)
CheckStart(class, text) == text # <<>> /\ Head(text).kw = class.start

(* TorDocumentsFactory.parse: a network status, or a difference.           *)
ParseAny(text) ==
  IF CheckStart(NetworkStatus, text) THEN Parse(NetworkStatus, text)
  ELSE IF CheckStart(NetworkStatusDiff, text) THEN Parse(NetworkStatusDiff, text)
  ELSE Raise(Unread(NetworkStatus))

(* What is digested: from the version to the first signature's keyword, or *)
(* to the end of a text that has none.                                     *)
Digest(text) ==
  LET n == SelectInSeq(text, LAMBDA l : l.kw = "directory-signature")
  IN IF n = 0 THEN text ELSE Append(SubSeq(text, 1, n - 1), Line("directory-signature", <<>>))

-----------------------------------------------------------------------------
Upto(lines, n) == SubSeq(lines, 1, IF n < Len(lines) THEN n ELSE Len(lines))
From(lines, n) == SubSeq(lines, n, Len(lines))

(* Fault: a change replaces one line too few.                              *)
ApplyShort(act, data, lines) ==
  LET end == IF act.end = Dollar THEN Len(lines) ELSE act.end IN
  IF act.act = "a"
    THEN Upto(lines, act.start) \o data \o From(lines, act.start + 1)
    ELSE Upto(lines, act.start - 1) \o data
           \o From(lines, IF end < act.start THEN act.start ELSE end)

(* EdAction.apply: the slice assignments of lists.                         *)
Apply(act, data, lines) ==
  LET end == IF act.end = Dollar THEN Len(lines) ELSE act.end IN
  IF act.act = "a"
    THEN Upto(lines, act.start) \o data \o From(lines, act.start + 1)
    ELSE Upto(lines, act.start - 1) \o data
           \o From(lines, IF end < act.start THEN act.start ELSE end + 1)

(* apply_diff on the lines: the text ends in a newline, so split leaves an *)
(* empty last line, and the result is given a newline again.               *)
Patched(text, actions) ==
  LET lines[n \in 0..Len(actions)] ==
        IF n = 0 THEN Append(text, Line("", <<>>))
        ELSE Apply(actions[n].arg, actions[n].ml, lines[n - 1])
  IN lines[Len(actions)]

=============================================================================
