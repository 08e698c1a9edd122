----------------------------- MODULE ServiceClient -----------------------------
(***************************************************************************)
(* The functions through which the pages call the API                      *)
(* (front/src/services/StorageManager.service.js).                         *)
(*                                                                         *)
(* A response is a status (0 when fetch rejects) and whether its body is   *)
(* JSON, which a redirect to the log in page or an error of a proxy is     *)
(* not; a response to a creation may hold a folder.                        *)
(***************************************************************************)
EXTENDS Naturals, Sequences, SequencesExt

Responses ==
    [status : {0}, json : {FALSE}, folder : {FALSE}]
    \cup [status : {200, 201, 400, 500}, json : {FALSE}, folder : {FALSE}]
    \cup [status : {200, 201, 400, 500}, json : {TRUE}, folder : BOOLEAN]

(* The four calls that read: does the promise resolve?  Any status but 200 is
   thrown as an HttpException, and whatever is thrown is thrown on. *)

getServerStatus(r) == r.status = 200 /\ r.json

getStorageAccounts(r) == r.status = 200 /\ r.json

getFileSystems(r) == r.status = 200 /\ r.json

getDirectories(r) == r.status = 200 /\ r.json

\* createFolder always resolves: with a folder, with a message only, or, when
\* anything was thrown, with undefined.
createFolder(r) ==
    IF ~r.json THEN "undefined"
    ELSE IF r.status \in 200..299 /\ r.folder THEN "folder" ELSE "message"

-----------------------------------------------------------------------------
(* What createFolder makes of the text typed as the list of users.  A text is a
   sequence of names and of the characters that may stand between them. *)

Blank == "blank"
Semicolon == "semicolon"
Comma == "comma"

\* String.replace with a string replaces the first occurrence only.
ReplaceFirst(text, old, new) ==
    LET i == SelectInSeq(text, LAMBDA ch : ch = old)
    IN  IF i = 0 THEN text ELSE SubSeq(text, 1, i - 1) \o new \o SubSeq(text, i + 1, Len(text))

\* A comma begins the next item; anything else belongs to the last one.
Typed(items, ch) ==
    IF ch = Comma THEN Append(items, <<>>) ELSE [items EXCEPT ![Len(items)] = Append(@, ch)]

Split(text) ==
    LET items[n \in 0..Len(text)] ==
            IF n = 0 THEN << <<>> >> ELSE Typed(items[n - 1], text[n])
    IN  items[Len(text)]

\* A mistake: the text is split at its commas as it was typed.
UserAccessListRaw(text) == IF text = <<>> THEN <<>> ELSE Split(text)

UserAccessList(text) ==
    IF text = <<>> THEN <<>>
    ELSE Split(ReplaceFirst(ReplaceFirst(text, Blank, <<>>), Semicolon, <<Comma>>))
=============================================================================
