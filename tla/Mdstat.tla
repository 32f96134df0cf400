-------------------------------- MODULE Mdstat ---------------------------------
(***************************************************************************)
(* raid_state of raid.py and parse_mdstat behind it: what they make of the *)
(* lines of /proc/mdstat.  A line is a record of what the parser's regular *)
(* expressions tell apart; numbers (sizes, percentages, speeds) are left   *)
(* out.                                                                    *)
(*                                                                         *)
(* External: the arrays, and Listing, how the kernel prints them.          *)
(***************************************************************************)
EXTENDS Naturals, Sequences, FiniteSetsExt

CONSTANTS
    Devices,    \* md devices
    DiskNames,  \* disks and partitions
    Levels,     \* levels, as the kernel calls them
    Listings    \* the arrays the kernel may have: sequences of KernelArrays

Redundant == {"raid1", "raid4", "raid5", "raid6", "raid10"}
RaidWords == Redundant \cup {"raid0"}

Word(text)         == [text |-> text, member |-> FALSE, marks |-> <<>>]
Member(disk, mark) == [text |-> disk, member |-> TRUE, marks |-> mark]

\* The flags the parser knows: faulty, a spare, a replacement.
Flags == {"F", "S", "R"}

\* A disk may also be write-mostly, a journal, or one that DSM has found errors on,
\* and several of these at once.
Marks == Seq(Flags \cup {"W", "J", "E"})

\* An array that is not active has no level.  short: a member is missing; sync: the
\* action that runs on it, or waits for another array's (delayed).
KernelArrays ==
    [dev     : Devices,
     run     : {"active", "inactive"},
     ro      : BOOLEAN,
     level   : Levels,
     members : Seq([text : DiskNames, member : {TRUE}, marks : Marks]) \ {<<>>},
     short   : BOOLEAN,
     sync    : {"none", "resync", "recovery", "reshape", "check"},
     delayed : BOOLEAN]

ASSUME MdstatAssumption ==
    /\ DiskNames \cap RaidWords = {}
    /\ Listings \subseteq Seq(KernelArrays)

VARIABLES
    arrays,     \* the kernel's arrays, when they were listed last
    shown       \* what raid_state made of the listing

mdstatVars == <<arrays, shown>>

-------------------------------------------------------------------------------

\* f[1] \o ... \o f[m], of those that f has.
Joined(f, m) ==
    LET joined[n \in 0..m] ==
          IF n = 0 THEN <<>> ELSE joined[n - 1] \o (IF n \in DOMAIN f THEN f[n] ELSE <<>>)
    IN  joined[m]

Blank         == [kind |-> "blank"]
Header(d, ws) == [kind |-> "header", dev |-> d, words |-> ws]
Blocks(u)     == [kind |-> "blocks", status |-> u]
Sync(s, late) == [kind |-> "sync", action |-> s, delayed |-> late]

\* An array that is not active has neither level nor status.
ArrayLines(a) ==
    LET on     == a.run = "active"
        mode   == IF a.ro THEN <<Word("(auto-read-only)")>> ELSE <<>>
        head   == Header(a.dev, <<Word(a.run)>> \o (IF on THEN mode \o <<Word(a.level)>> ELSE <<>>) \o a.members)
        blocks == Blocks(IF on /\ a.level \in Redundant THEN IF a.short THEN "U_" ELSE "UU" ELSE "none")
    IN  IF on /\ a.sync # "none" THEN <<head, blocks, Sync(a.sync, a.delayed), Blank>>
        ELSE <<head, blocks, Blank>>

Listing(list) == Joined([i \in DOMAIN list |-> ArrayLines(list[i])], Len(list))

-------------------------------------------------------------------------------

\* _MD_HEADER_RE: a state, a level, and at least one word more.
IsHeader(line) == line.kind = "header" /\ Len(line.words) >= 3

\* Mutant of Body: the lines go on to the end of the file.
BodyToEnd(lines, i) == i+1..Len(lines)

\* The lines that are read as array i's: up to the next blank or header.
Body(lines, i) ==
    {j \in i+1..Len(lines) : \A k \in i+1..j : lines[k].kind # "blank" /\ ~ IsHeader(lines[k])}

\* _MEMBER_RE: the flag is looked for right after the index.
Flag(marks) == IF marks # <<>> /\ marks[1] \in Flags THEN marks[1] ELSE "none"

\* The words that are disks.
Disks(words) ==
    Joined([k \in {j \in DOMAIN words : words[j].member} |->
              <<[disk |-> words[k].text, flag |-> Flag(words[k].marks)]>>], Len(words))

\* The state that is made of what was found.
Synthesized(word, status, action) ==
    CASE action = "recovery"                   -> "recovering"
      [] action \notin {"none", "recovery"}    -> "resyncing"
      [] action = "none" /\ status = "U_"      -> "degraded"
      [] action = "none" /\ status # "U_"      -> IF word = "active" THEN "clean" ELSE word

\* The record of the header at i.  The second word is the level, unless the third
\* is "raid..."; the last status and the last progress that match are kept.
Entry(lines, i) ==
    LET words  == lines[i].words
        late   == words[3].text \in RaidWords
        found  == {j \in Body(lines, i) : lines[j].kind = "blocks" /\ lines[j].status # "none"}
        moving == {j \in Body(lines, i) : lines[j].kind = "sync" /\ ~ lines[j].delayed}
        status == IF found = {} THEN "none" ELSE lines[Max(found)].status
        action == IF moving = {} THEN "none" ELSE lines[Max(moving)].action
    IN  [device  |-> lines[i].dev,
         level   |-> IF late THEN words[3].text ELSE words[2].text,
         state   |-> Synthesized(words[1].text, status, action),
         action  |-> action,
         members |-> Disks(SubSeq(words, IF late THEN 4 ELSE 3, Len(words)))]

parse_mdstat(lines) ==
    Joined([i \in {j \in DOMAIN lines : IsHeader(lines[j])} |-> <<Entry(lines, i)>>], Len(lines))

MdstatInit == arrays = <<>> /\ shown = <<>>

\* One call, which lists what there is and keeps nothing of the calls before.
raid_state ==
    \E list \in Listings :
        /\ arrays' = list
        /\ shown'  = parse_mdstat(Listing(list))

MdstatSpec == MdstatInit /\ [][raid_state]_mdstatVars

-------------------------------------------------------------------------------

\* The first flag among a disk's marks, wherever it is.
FirstFlag(marks) ==
    LET places == {k \in DOMAIN marks : marks[k] \in Flags}
    IN  IF places = {} THEN "none" ELSE marks[Min(places)]

\* What there is to report of an array that runs.
Expected(a) ==
    [device  |-> a.dev,
     level   |-> a.level,
     state   |-> CASE a.sync = "recovery" /\ ~ a.delayed                -> "recovering"
                   [] a.sync \notin {"none", "recovery"} /\ ~ a.delayed -> "resyncing"
                   [] a.sync = "none" \/ a.delayed ->
                        IF a.short /\ a.level \in Redundant THEN "degraded" ELSE "clean",
     action  |-> IF a.delayed THEN "none" ELSE a.sync,
     members |-> [k \in DOMAIN a.members |->
                    [disk |-> a.members[k].text, flag |-> FirstFlag(a.members[k].marks)]]]

\* Where the words of an array that runs do not say what the parser takes them
\* for: a mode before a level that is no "raid...", and another mark before the flag.
Misread(a) ==
    \/ a.ro /\ a.level \notin RaidWords
    \/ \E k \in DOMAIN a.members :
          LET marks == a.members[k].marks
          IN  \E n \in DOMAIN marks : n > 1 /\ marks[n] \in Flags /\ marks[1] \notin Flags

\* Of an array that does not run the first disk is taken for its level; one with a
\* single disk is left out.
Omitted(a) == a.run = "inactive" /\ Len(a.members) = 1

Reported(list) == Joined([k \in {j \in DOMAIN list : ~ Omitted(list[j])} |-> <<list[k]>>], Len(list))

\* What entry says of array a.
Right(entry, a) ==
    /\ entry.device = a.dev
    /\ a.run = "inactive" => entry.state = "inactive"
    /\ a.run = "active" /\ ~ Misread(a) => entry = Expected(a)

\* raid_state shows the arrays of /proc/mdstat, each once and in order, and of one
\* that runs the level, the state, the action and every disk with its flag, from
\* its own lines whatever its neighbour's are.  An array that does not run is said
\* to be "inactive"; with a single disk it is left out.
ArraysReported ==
    LET kept == Reported(arrays)
    IN  /\ Len(shown) = Len(kept)
        /\ \A k \in DOMAIN kept : Right(shown[k], kept[k])
===============================================================================
