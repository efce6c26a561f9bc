-------------------------------- MODULE Spaces --------------------------------
(***************************************************************************)
(* The page library (lucy-spaces, lib.rs, search.rs): spaces and pages in   *)
(* a database, and beside it one Markdown file per page. Each statement is  *)
(* atomic and so, here, is the writing of a file; the calls that make them  *)
(* are not, and no lock is held across one. The triggers keep the search    *)
(* table equal to the rows in the statement that changes them, so a search  *)
(* reads the rows and a reindex changes nothing.                            *)
(***************************************************************************)
EXTENDS Naturals, FiniteSets, Sequences, SequencesExt

CONSTANTS Editors,   \* those with a handle to the store
          PageIds,   \* uuids
          SpaceNames,
          Titles, Texts, Tags,
          Words,     \* what is searched for
          Holds,     \* the pairs of a text, title or tag and a word it contains
          MaxAsks,   \* bound on the calls made
          MaxBroken  \* bound on the file operations that fail

VARIABLES shelves,   \* the names of the spaces
          pages,     \* the rows, by page
          sheets,    \* the files, by page
          exported,  \* the files of an export directory, by slug (a title is its slug)
          asks,      \* what each editor's call is at
          begun, broken,
          stale      \* pages whose file need not agree with the row (history)
spacesVars == <<shelves, pages, sheets, exported, asks, begun, broken, stale>>

NoText == "empty"   \* a title or a text without a character
NoPage == [is |-> "unborn", space |-> NoText, title |-> NoText, text |-> NoText, tags |-> << >>]
NoSheet == <<"none", NoText>>
Sheet(title, body) == <<title, body>>
NoAsk == [at |-> "none", page |-> NoText, space |-> NoText, title |-> NoText, text |-> NoText, tags |-> << >>, alone |-> TRUE]

SpacesInit ==
  /\ shelves = {} /\ pages = [p \in PageIds |-> NoPage] /\ sheets = [p \in PageIds |-> NoSheet]
  /\ exported = [t \in Titles |-> "none"] /\ asks = [e \in Editors |-> NoAsk]
  /\ begun = 0 /\ broken = 0 /\ stale = {}
-----------------------------------------------------------------------------
Written(p) == pages[p].is = "kept"

\* The calls that write the page's file: while two of them are under way on
\* one page, neither is alone.
Writing(e, p) == asks[e].at \in {"creating", "saving", "titled", "deleting"} /\ asks[e].page = p
Rivals(e, p) == {r \in Editors \ {e} : Writing(r, p)}
Enters(e, ask) ==
  asks' = [r \in Editors |-> IF r = e THEN [ask EXCEPT !.alone = Rivals(e, ask.page) = {}]
                             ELSE [asks[r] EXCEPT !.alone = @ /\ ~Writing(r, ask.page)]]
Leaves(e) == asks' = [asks EXCEPT ![e] = NoAsk]
\* The last file operation of a call on p, and whether it worked; its result is not looked at.
Settles(e, p, worked) ==
  /\ Leaves(e)
  /\ stale' = IF worked /\ asks[e].alone THEN stale \ {p} ELSE stale \cup {p}
Tries(worked) == worked \/ broken < MaxBroken
Counts(worked) == broken' = IF worked THEN broken ELSE broken + 1

Asks(e) == asks[e].at = "none" /\ begun < MaxAsks /\ begun' = begun + 1
FilesRest == UNCHANGED <<sheets, broken, stale>>

CreateSpace(e, s) ==
  /\ Asks(e) /\ s \notin shelves /\ shelves' = shelves \cup {s}
  /\ FilesRest /\ UNCHANGED <<pages, exported, asks>>

\* The space is looked up, and found or not, before the row is written.
LookUp(e, s, next) == s \in shelves /\ asks' = [asks EXCEPT ![e] = next]
CreatePage(e, s, t, body) ==
  /\ Asks(e) /\ LookUp(e, s, [NoAsk EXCEPT !.at = "placing", !.space = s, !.title = t, !.text = body])
  /\ FilesRest /\ UNCHANGED <<shelves, pages, exported>>
InsertPage(e, p) ==
  /\ asks[e].at = "placing" /\ pages[p].is = "unborn"
  /\ pages' = [pages EXCEPT ![p] = [NoPage EXCEPT !.is = "kept", !.space = asks[e].space, !.title = asks[e].title]]
  /\ Enters(e, [asks[e] EXCEPT !.at = "creating", !.page = p])
  /\ FilesRest /\ UNCHANGED <<shelves, exported, begun>>
\* A conversation is a page created and then saved; a plain page stays empty.
FirstSheet(e, worked) ==
  /\ asks[e].at = "creating" /\ Tries(worked) /\ Counts(worked)
  /\ LET p == asks[e].page
     IN /\ sheets' = IF worked THEN [sheets EXCEPT ![p] = Sheet(asks[e].title, NoText)] ELSE sheets
        /\ IF asks[e].text = NoText THEN Settles(e, p, worked)
           ELSE /\ stale' = IF worked /\ asks[e].alone THEN stale \ {p} ELSE stale \cup {p}
                /\ asks' = [asks EXCEPT ![e].at = "save"]
  /\ UNCHANGED <<shelves, pages, exported, begun>>
-----------------------------------------------------------------------------
SavePage(e, p, body) ==
  /\ Asks(e) /\ asks' = [asks EXCEPT ![e] = [NoAsk EXCEPT !.at = "save", !.page = p, !.text = body]]
  /\ FilesRest /\ UNCHANGED <<shelves, pages, exported>>
UpdateText(e) ==
  /\ asks[e].at = "save"
  /\ LET p == asks[e].page
     IN IF Written(p)
        THEN /\ pages' = [pages EXCEPT ![p].text = asks[e].text]
             /\ Enters(e, [asks[e] EXCEPT !.at = "saving"])
        ELSE Leaves(e) /\ UNCHANGED pages
  /\ FilesRest /\ UNCHANGED <<shelves, exported, begun>>
\* A row that has gone meanwhile has no title.
ReadTitle(e) ==
  /\ asks[e].at = "saving"
  /\ LET p == asks[e].page
     IN asks' = [asks EXCEPT ![e].at = "titled", ![e].title = IF Written(p) THEN pages[p].title ELSE NoText]
  /\ FilesRest /\ UNCHANGED <<shelves, pages, exported, begun>>
WriteSheet(e, worked) ==
  /\ asks[e].at = "titled" /\ Tries(worked) /\ Counts(worked)
  /\ LET p == asks[e].page
     IN /\ sheets' = IF worked THEN [sheets EXCEPT ![p] = Sheet(asks[e].title, asks[e].text)] ELSE sheets
        /\ Settles(e, p, worked)
  /\ UNCHANGED <<shelves, pages, exported, begun>>

DeletePage(e, p) ==
  /\ Asks(e) /\ Written(p) /\ pages' = [pages EXCEPT ![p] = [NoPage EXCEPT !.is = "deleted"]]
  /\ Enters(e, [NoAsk EXCEPT !.at = "deleting", !.page = p])
  /\ FilesRest /\ UNCHANGED <<shelves, exported>>
\* Slip: the row is all there is to a page.
ForgetsSheet(e, worked) ==
  /\ asks[e].at = "deleting" /\ Tries(worked) /\ Counts(worked)
  /\ Settles(e, asks[e].page, worked) /\ UNCHANGED <<shelves, pages, sheets, exported, begun>>

RemoveSheet(e, worked) ==
  /\ asks[e].at = "deleting" /\ Tries(worked) /\ Counts(worked)
  /\ LET p == asks[e].page
     IN /\ sheets' = IF worked THEN [sheets EXCEPT ![p] = NoSheet] ELSE sheets
        /\ Settles(e, p, worked)
  /\ UNCHANGED <<shelves, pages, exported, begun>>
-----------------------------------------------------------------------------
MovePage(e, p, s) ==
  /\ Asks(e) /\ LookUp(e, s, [NoAsk EXCEPT !.at = "moving", !.page = p, !.space = s])
  /\ FilesRest /\ UNCHANGED <<shelves, pages, exported>>
UpdateSpace(e) ==
  /\ asks[e].at = "moving" /\ Leaves(e)
  /\ pages' = [p \in PageIds |-> IF p = asks[e].page /\ Written(p)
                                 THEN [pages[p] EXCEPT !.space = asks[e].space] ELSE pages[p]]
  /\ FilesRest /\ UNCHANGED <<shelves, exported, begun>>

\* The tags are read, changed and written back; a row that went is not missed.
AddTag(e, p, g) ==
  /\ Asks(e) /\ Written(p)
  /\ asks' = IF g \in ToSet(pages[p].tags) THEN asks
             ELSE [asks EXCEPT ![e] = [NoAsk EXCEPT !.at = "tagging", !.page = p, !.tags = Append(pages[p].tags, g)]]
  /\ FilesRest /\ UNCHANGED <<shelves, pages, exported>>
RemoveTag(e, p, g) ==
  /\ Asks(e) /\ Written(p)
  /\ asks' = [asks EXCEPT ![e] = [NoAsk EXCEPT !.at = "tagging", !.page = p, !.tags = SelectSeq(pages[p].tags, LAMBDA x : x # g)]]
  /\ FilesRest /\ UNCHANGED <<shelves, pages, exported>>
UpdateTags(e) ==
  /\ asks[e].at = "tagging" /\ Leaves(e)
  /\ pages' = [p \in PageIds |-> IF p = asks[e].page /\ Written(p)
                                 THEN [pages[p] EXCEPT !.tags = asks[e].tags] ELSE pages[p]]
  /\ FilesRest /\ UNCHANGED <<shelves, exported, begun>>

\* Two pages of one title are exported to one file.
ExportPage(e, p) ==
  /\ Asks(e) /\ Written(p)
  /\ asks' = [asks EXCEPT ![e] = [NoAsk EXCEPT !.at = "exporting", !.title = pages[p].title, !.text = pages[p].text]]
  /\ FilesRest /\ UNCHANGED <<shelves, pages, exported>>
WriteExport(e) ==
  /\ asks[e].at = "exporting" /\ Leaves(e)
  /\ exported' = [exported EXCEPT ![asks[e].title] = asks[e].text]
  /\ FilesRest /\ UNCHANGED <<shelves, pages, begun>>
-----------------------------------------------------------------------------
\* What a search returns: the rows whose title or text holds a word, each
\* with the strongest place the word was found in, the strongest first.
Hits(words) == {p \in PageIds : Written(p) /\ \E w \in words : {<<pages[p].title, w>>, <<pages[p].text, w>>} \cap Holds # {}}
Site(p, w) ==
  CASE <<pages[p].title, w>> \in Holds -> 3
    [] \E g \in ToSet(pages[p].tags) : <<g, w>> \in Holds -> 2
    [] OTHER -> 1
Ranked(s, w) == \A i, j \in DOMAIN s : i < j => Site(s[i], w) >= Site(s[j], w)
SearchPages(w) == CHOOSE s \in SetToSeqs(Hits({w})) : Ranked(s, w)
InSpace(s) == {p \in PageIds : Written(p) /\ pages[p].space = s}
Tagged(g) == {p \in PageIds : Written(p) /\ g \in ToSet(pages[p].tags)}

\* A page opened from a list or a search is what an editor works on.
Listed == UNION ({InSpace(s) : s \in shelves} \cup {Tagged(g) : g \in Tags} \cup {ToSet(SearchPages(w)) : w \in Words})

SpacesNext ==
  \E e \in Editors :
    \/ \E s \in SpaceNames : CreateSpace(e, s) \/ \E t \in Titles, body \in Texts \cup {NoText} : CreatePage(e, s, t, body)
    \/ \E p \in PageIds : InsertPage(e, p)
    \/ \E p \in Listed : \/ \E body \in Texts : SavePage(e, p, body)
                         \/ \E s \in SpaceNames : MovePage(e, p, s)
                         \/ \E g \in Tags : AddTag(e, p, g) \/ RemoveTag(e, p, g)
                         \/ DeletePage(e, p) \/ ExportPage(e, p)
    \/ \E worked \in BOOLEAN : FirstSheet(e, worked) \/ WriteSheet(e, worked) \/ RemoveSheet(e, worked)
    \/ UpdateText(e) \/ ReadTitle(e) \/ UpdateSpace(e) \/ UpdateTags(e) \/ WriteExport(e)

SpacesSpec == SpacesInit /\ [][SpacesNext]_spacesVars

SpacesTypeOK ==
  /\ shelves \subseteq SpaceNames /\ stale \subseteq PageIds /\ begun \in 0..MaxAsks /\ broken \in 0..MaxBroken
  /\ \A p \in PageIds : pages[p].is \in {"unborn", "kept", "deleted"} /\ pages[p].text \in Texts \cup {NoText}

\* A page nobody is writing has the file its row tells of, and a deleted
\* page none, unless two calls on it overlapped or a file operation failed;
\* then the next call that is alone and works puts it right (lib.rs: the
\* row and the file are changed by separate steps of a call).
SheetFollowsRow ==
  \A p \in PageIds \ stale :
    (\A e \in Editors : ~Writing(e, p)) =>
      sheets[p] = IF Written(p) THEN Sheet(pages[p].title, pages[p].text) ELSE NoSheet

\* What is behind it: a call that is alone on its page is the only one on it, and
\* the row is as this call left it.
FoundAsLeft(ask, row) ==
  /\ ask.at = "creating" => row.is = "kept" /\ row.title = ask.title /\ row.text = NoText
  /\ ask.at \in {"saving", "titled"} => row.is = "kept" /\ row.text = ask.text
  /\ ask.at = "titled" => row.title = ask.title
  /\ ask.at = "deleting" => row.is = "deleted"
LibraryShape ==
  /\ DOMAIN pages = PageIds /\ DOMAIN sheets = PageIds /\ DOMAIN asks = Editors
  /\ \A p \in PageIds : DOMAIN pages[p] = DOMAIN NoPage
  /\ \A e \in Editors : DOMAIN asks[e] = DOMAIN NoAsk
SheetsInv ==
  /\ LibraryShape /\ SheetFollowsRow
  /\ \A p \in PageIds, e \in Editors :
       Writing(e, p) /\ asks[e].alone => Rivals(e, p) = {} /\ FoundAsLeft(asks[e], pages[p])
=============================================================================
