----------------------------- MODULE DataReader -----------------------------
(***************************************************************************)
(* read_tags_forums_places of read.cpp, and read_places, the thread that it *)
(* starts in between.  From the files of tags, interests, forums and        *)
(* places they make what the queries read: Data::tags, Data::person_in_tags *)
(* for query 2, the bitmaps q4_persons of the members of the forums with a  *)
(* tag for query 4, and Data::places and Data::placeid for query 3.         *)
(*                                                                         *)
(* A file is a sequence of rows.  Two tags, or two places, may have one    *)
(* name; the rows of a forum need not be together.                         *)
(***************************************************************************)
EXTENDS Integers, Sequences, FiniteSets, Sorting

CONSTANTS PersonIds, \* 0 .. Data::nperson - 1
          Forums,    \* the ids of forums
          TagIds,    \* the ids of tags
          Names,     \* the names of tags
          None,      \* the -1 that is no forum
          DataFiles  \* the files that are enumerated

\* The ids of the places of file f.
PlaceIds(f) == {f.place[n][1] : n \in DOMAIN f.place}

\* Ids of tags are unique, and the other files have known tags, places and
\* organisations only.  The file of members has a row at least: a row is read
\* before the end is looked for.
ASSUME DataReaderAssumption ==
    /\ PersonIds \subseteq Nat
    /\ None \notin Forums
    /\ \A f \in DataFiles :
          /\ f.tag \in Seq(TagIds \X Names)
          /\ \A m, n \in DOMAIN f.tag : f.tag[m][1] = f.tag[n][1] => m = n
          /\ f.q4_tag_set \subseteq Names
          /\ f.interest \in Seq(PersonIds \X {f.tag[n][1] : n \in DOMAIN f.tag})
          /\ f.forumTag \in Seq(Forums \X TagIds)
          /\ f.member \in Seq(Forums \X PersonIds)
          /\ Len(f.member) > 0
          /\ f.located \in Seq(PersonIds \X PlaceIds(f))
          /\ f.org \in Seq(PlaceIds(f))
          /\ f.atOrg \in Seq(PersonIds \X DOMAIN f.org)

VARIABLES file,            \* the files and q4_tag_set
          at,              \* at[t]: the file that thread t reads
          done,            \* done[t]: the rows of it that are read
          id_map,          \* the index of each tag id in tag_name
          tag_name,
          q4_tag_ids,
          tags,            \* Data::tags
          person_in_tags,
          q4_persons,      \* the set of persons of each name in q4_tag_set
          forum_to_tags,   \* the lists of the forums that have one
          last,            \* last_fid, and whether its rows are skipped
          hashes,          \* the names of the bitmaps of the forum last read
          placeid,         \* the places of each name
          places           \* persons and sub_places of each place

tagVars == <<id_map, tag_name, q4_tag_ids, tags, person_in_tags>>
forumVars == <<q4_persons, forum_to_tags, last, hashes>>
placeVars == <<placeid, places>>
dataVars == <<file, at, done, tagVars, forumVars, placeVars>>

Threads == {"reader", "places"}

Put(f, key, value) == [a \in DOMAIN f \cup {key} |-> IF a = key THEN value ELSE f[a]]

DataInit ==
    /\ file \in DataFiles
    /\ at = [t \in Threads |-> IF t = "reader" THEN "tag" ELSE "not started"]
    /\ done = [t \in Threads |-> 0]
    /\ id_map = <<>>
    /\ tag_name = <<>>
    /\ q4_tag_ids = {}
    /\ tags = [p \in PersonIds |-> {}]
    /\ person_in_tags = <<>>
    /\ q4_persons = <<>>
    /\ forum_to_tags = <<>>
    /\ last = [fid |-> None, skip |-> FALSE]
    /\ hashes = <<>>
    /\ placeid = <<>>
    /\ places = <<>>

\* Thread t reads the file of that name and is not at its end.
Reading(t, name) == at[t] = name /\ done[t] < Len(file[name])
AtEnd(t, name) == at[t] = name /\ done[t] = Len(file[name])
Row(t) == file[at[t]][done[t] + 1]
OneRow(t) == done' = [done EXCEPT ![t] = @ + 1] /\ UNCHANGED at
To(t, name) == at' = [at EXCEPT ![t] = name] /\ done' = [done EXCEPT ![t] = 0]

ReadTag ==
    /\ Reading("reader", "tag")
    /\ OneRow("reader")
    /\ LET tid == Row("reader")[1]
           name == Row("reader")[2]
       IN /\ id_map' = Put(id_map, tid, Len(tag_name) + 1)
          /\ tag_name' = Append(tag_name, name)
          /\ q4_tag_ids' = IF name \in file.q4_tag_set THEN q4_tag_ids \cup {tid} ELSE q4_tag_ids
    /\ UNCHANGED <<file, tags, person_in_tags, forumVars, placeVars>>

\* Sizes of the vectors that the next files fill.
AllocateTags ==
    /\ AtEnd("reader", "tag")
    /\ To("reader", "interest")
    /\ person_in_tags' = [n \in DOMAIN tag_name |-> <<>>]
    /\ q4_persons' = [name \in file.q4_tag_set |-> {}]
    /\ UNCHANGED <<file, id_map, tag_name, q4_tag_ids, tags, forum_to_tags, last, hashes, placeVars>>

ReadInterest ==
    /\ Reading("reader", "interest")
    /\ OneRow("reader")
    /\ LET pid == Row("reader")[1]
           c_id == id_map[Row("reader")[2]]
       IN /\ tags' = [tags EXCEPT ![pid] = @ \cup {c_id}]
          /\ person_in_tags' = [person_in_tags EXCEPT ![c_id] = Append(@, pid)]
    /\ UNCHANGED <<file, id_map, tag_name, q4_tag_ids, forumVars, placeVars>>

\* The thread of read_places starts when the tags are complete.
StartPlaces ==
    /\ AtEnd("reader", "interest")
    /\ at' = [t \in Threads |-> IF t = "reader" THEN "forumTag" ELSE "tree"]
    /\ done' = [t \in Threads |-> 0]
    /\ UNCHANGED <<file, tagVars, forumVars, placeVars>>

\* last_ptr is where forum_to_tags has the list of last_fid.  A tag that no
\* query asks for leaves last_fid as it is.
ReadForumTag ==
    /\ Reading("reader", "forumTag")
    /\ OneRow("reader")
    /\ LET fid == Row("reader")[1]
           tid == Row("reader")[2]
           list == IF fid \in DOMAIN forum_to_tags THEN forum_to_tags[fid] ELSE <<>>
       IN IF tid \notin q4_tag_ids THEN UNCHANGED <<forum_to_tags, last>>
          ELSE /\ forum_to_tags' = Put(forum_to_tags, fid, Append(list, id_map[tid]))
               /\ last' = [last EXCEPT !.fid = fid]
    /\ UNCHANGED <<file, tagVars, q4_persons, hashes, placeVars>>

BeginMembers ==
    /\ AtEnd("reader", "forumTag")
    /\ To("reader", "member")
    /\ last' = [fid |-> None, skip |-> FALSE]
    /\ UNCHANGED <<file, tagVars, q4_persons, forum_to_tags, hashes, placeVars>>

\* Mutant of ReadMember: the mark of a forum to skip stays.
ReadMemberSkip ==
    /\ Reading("reader", "member")
    /\ OneRow("reader")
    /\ LET fid == Row("reader")[1]
           pid == Row("reader")[2]
           known == fid \in DOMAIN forum_to_tags
       IN /\ last' = IF fid = last.fid THEN last
                     ELSE [fid |-> fid, skip |-> last.skip \/ ~ known]
          /\ hashes' = IF fid = last.fid \/ ~ known THEN hashes
                       ELSE [n \in DOMAIN forum_to_tags[fid] |-> tag_name[forum_to_tags[fid][n]]]
          /\ q4_persons' = IF last'.skip THEN q4_persons
                           ELSE [name \in DOMAIN q4_persons |->
                                    IF \E n \in DOMAIN hashes' : hashes'[n] = name
                                    THEN q4_persons[name] \cup {pid} ELSE q4_persons[name]]
    /\ UNCHANGED <<file, tagVars, forum_to_tags, placeVars>>

\* What is found for the first of several rows of a forum serves them all.
ReadMember ==
    /\ Reading("reader", "member")
    /\ OneRow("reader")
    /\ LET fid == Row("reader")[1]
           pid == Row("reader")[2]
           known == fid \in DOMAIN forum_to_tags
       IN /\ last' = IF fid = last.fid THEN last ELSE [fid |-> fid, skip |-> ~ known]
          /\ hashes' = IF fid = last.fid \/ ~ known THEN hashes
                       ELSE [n \in DOMAIN forum_to_tags[fid] |-> tag_name[forum_to_tags[fid][n]]]
          /\ q4_persons' = IF last'.skip THEN q4_persons
                           ELSE [name \in DOMAIN q4_persons |->
                                    IF \E n \in DOMAIN hashes' : hashes'[n] = name
                                    THEN q4_persons[name] \cup {pid} ELSE q4_persons[name]]
    /\ UNCHANGED <<file, tagVars, forum_to_tags, placeVars>>

-----------------------------------------------------------------------------
(* The thread of read_places.                                              *)

\* PersonInPlace(pid): the number of tags is the one of now.
PersonInPlace(pid) == [pid |-> pid, ntags |-> Cardinality(tags[pid])]

\* build_places_tree.
BuildPlacesTree ==
    /\ at["places"] = "tree"
    /\ To("places", "located")
    /\ placeid' = [name \in {file.place[n][2] : n \in DOMAIN file.place} |->
                      LET named == SelectSeq(file.place, LAMBDA r : r[2] = name)
                      IN [n \in DOMAIN named |-> named[n][1]]]
    /\ places' = [id \in PlaceIds(file) |->
                     [persons |-> <<>>,
                      sub_places |-> {r[1] : r \in {r \in file.isPartOf : r[2] = id}}]]
    /\ UNCHANGED <<file, tagVars, forumVars>>

AddPerson(id, pid) ==
    places' = [places EXCEPT ![id].persons = Append(@, PersonInPlace(pid))]

ReadLocated ==
    /\ Reading("places", "located")
    /\ OneRow("places")
    /\ AddPerson(Row("places")[2], Row("places")[1])
    /\ UNCHANGED <<file, tagVars, forumVars, placeid>>

\* org_places is file.org, whose row n is the place of the organisation n.
ReadOrgs ==
    /\ AtEnd("places", "located")
    /\ To("places", "atOrg")
    /\ UNCHANGED <<file, tagVars, forumVars, placeVars>>

\* read_org_places, of the students and then the others.
ReadOrgPlace ==
    /\ Reading("places", "atOrg")
    /\ OneRow("places")
    /\ AddPerson(file.org[Row("places")[2]], Row("places")[1])
    /\ UNCHANGED <<file, tagVars, forumVars, placeid>>

InOrder(a, b) == a.ntags > b.ntags \/ (a.ntags = b.ntags /\ a.pid < b.pid)

\* std::sort, of which equal rows may come out either way round.
SortPersons(s) ==
    LET order == Sorted(DOMAIN s, LAMBDA m, n : InOrder(s[m], s[n]) \/ (s[m] = s[n] /\ m < n))
    IN [n \in DOMAIN s |-> s[order[n]]]

\* std::unique, that looks at pid alone.
Unique(s) ==
    LET kept == Sorted({n \in DOMAIN s : n = 1 \/ s[n].pid # s[n - 1].pid}, LAMBDA m, n : m < n)
    IN [n \in DOMAIN kept |-> s[kept[n]]]

\* Mutant of SortUnique: unique is called before sort.
UniqueSort ==
    /\ AtEnd("places", "atOrg")
    /\ To("places", "done")
    /\ places' = [id \in DOMAIN places |->
          [places[id] EXCEPT !.persons = SortPersons(Unique(@))]]
    /\ UNCHANGED <<file, tagVars, forumVars, placeid>>

\* Then the signal for queries 2 and 3.
SortUnique ==
    /\ AtEnd("places", "atOrg")
    /\ To("places", "done")
    /\ places' = [id \in DOMAIN places |->
          [places[id] EXCEPT !.persons = Unique(SortPersons(@))]]
    /\ UNCHANGED <<file, tagVars, forumVars, placeid>>

DataNext ==
    \/ ReadTag \/ AllocateTags \/ ReadInterest \/ StartPlaces
    \/ ReadForumTag \/ BeginMembers \/ ReadMember
    \/ BuildPlacesTree \/ ReadLocated \/ ReadOrgs \/ ReadOrgPlace \/ SortUnique

DataSpec == DataInit /\ [][DataNext]_dataVars

-----------------------------------------------------------------------------
(* Properties.                                                             *)

\* The names of the tags of a forum, and the forums of a person.
NamesOf(fid) ==
    {file.tag[n][2] : n \in {n \in DOMAIN file.tag :
        \E m \in DOMAIN file.forumTag : file.forumTag[m] = <<fid, file.tag[n][1]>>}}

\* Query 4 starts when the members are read: each bitmap has the persons that
\* are in a forum with a tag of that name, whatever the order of the rows.
MembersRight ==
    AtEnd("reader", "member") =>
       \A name \in file.q4_tag_set :
          q4_persons[name] = {p \in PersonIds : \E f \in Forums, n \in DOMAIN file.member :
                                 file.member[n] = <<f, p>> /\ name \in NamesOf(f)}

\* Query 3 starts when the places are done: each place has its persons once
\* each, those with more tags first, as set_union and version 2 rely on, with
\* the number of tags that they have when all are read.
PlacesSorted ==
    at["places"] = "done" =>
       \A id \in DOMAIN places :
          LET s == places[id].persons IN
          /\ {s[n].pid : n \in DOMAIN s} =
                {p \in PersonIds : (\E n \in DOMAIN file.located : file.located[n] = <<p, id>>) \/
                    \E n \in DOMAIN file.atOrg : file.atOrg[n][1] = p /\ file.org[file.atOrg[n][2]] = id}
          /\ \A n \in DOMAIN s : s[n].ntags = Cardinality(tags[s[n].pid])
          /\ \A n \in 1 .. Len(s) - 1 : InOrder(s[n], s[n + 1])

\* The two lists of interests are each other's inverse: query 2 goes from the
\* one to the other.
InterestsAgree ==
    at["reader"] \in {"forumTag", "member"} =>
       \A p \in PersonIds, n \in DOMAIN person_in_tags :
          n \in tags[p] <=> \E m \in DOMAIN person_in_tags[n] : person_in_tags[n][m] = p

\* What queries 2 and 3 rely on.
DataRight == PlacesSorted /\ InterestsAgree
=============================================================================
