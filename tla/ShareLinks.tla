------------------------------ MODULE ShareLinks ------------------------------
(***************************************************************************)
(* The share links of one user: what the owner's requests make of them     *)
(* under the limits of the plan, and what visitors get out of them.        *)
(*                                                                         *)
(* Time is what is left: of a link until it expires, of an access token    *)
(* and of a download URL until they are refused.  Tick takes one off all.  *)
(* A request of the owner may span ticks; a visitor's does not.  The tree  *)
(* of folders is in module Folders; here a file has a root folder or none. *)
(***************************************************************************)
EXTENDS Integers, FiniteSets

CONSTANTS
    Links,      \* ids of share links
    Files,      \* files
    Roots,      \* folders without a parent
    Web,        \* workers serving the owner's requests
    Public,     \* workers serving visitors' requests
    Configs,    \* file_sharing configurations the owner's plans may have
    Default,    \* DEFAULT_SHARELINK_EXPIRATION_MINUTES, in ticks
    Choices,    \* lifetimes an owner asks for; 0 is a date that has passed
    Passwords,  \* passwords owners set
    Known,      \* those the visitors know
    TokenLife,  \* access_max_age, in ticks
    UrlLife,    \* AWS_PRESIGNED_EXPIRATION_TIME, in ticks
    None        \* nothing given: no expiry, no password, no folder

Config == [folders : BOOLEAN, choose : BOOLEAN, passwords : BOOLEAN,
           links : Nat, minutes : Nat \cup {None}]

ASSUME WorkersAssumption == IsFiniteSet(Web) /\ Web # {} /\ Web \cap Public = {}
ASSUME ConfigAssumption == Configs \subseteq Config /\ Configs # {}
ASSUME TimeAssumption ==
    /\ Default \in Nat \ {0} /\ Choices \subseteq Nat
    /\ TokenLife \in Nat \ {0} /\ UrlLife \in Nat \ {0}
ASSUME PasswordAssumption == Known \subseteq Passwords
ASSUME NoneAssumption ==
    /\ None \notin Nat /\ None \notin Passwords /\ None \notin Roots /\ None \notin Links

VARIABLES
    link,    \* table ShareLink, with the files and folders linked to it
    root,    \* root[x]: the root folder above file x, or None
    config,  \* file_sharing_config of the owner's plan
    token,   \* token[l]: what is left of the last access token for l
    url,     \* url[l][x]: what is left of the last download URL for x got through l
    job,     \* what each worker is doing and what it holds in memory
    closed,  \* history: ticks since l was last open, up to UrlLife
    away,    \* history: ticks since x was last in l, up to UrlLife
    locked   \* history: ticks since visitors last could do with what they know

vars == <<link, root, config, token, url, job, closed, away, locked>>

-----------------------------------------------------------------------------
(* Data *)

Left == Nat \cup {None}
Row == [present : BOOLEAN, files : SUBSET Files, folders : SUBSET Roots,
        left : Left, revoked : BOOLEAN, password : Passwords \cup {None}]
NoLink == [present |-> FALSE, files |-> {}, folders |-> {}, left |-> None,
           revoked |-> FALSE, password |-> None]

PCs == {"idle", "insert", "save", "open"}
Job == [pc      : PCs,
        link    : Links \cup {None},
        row     : Row,    \* the ShareLink in memory, with the files and folders asked for
        chosen  : Left,   \* expires_at of the request, None if not given
        named   : SUBSET {"files", "folders"}]  \* whether it gives files, folders
IdleJob == [pc |-> "idle", link |-> None, row |-> NoLink, chosen |-> None, named |-> {}]

At(w, label) == job[w].pc = label
Return(w) == job' = [job EXCEPT ![w] = IdleJob]

\* is_expired and is_revoked; active_share_links looks at the expiry alone.
Active(l) == link[l].present /\ link[l].left # 0
Open(l) == Active(l) /\ ~link[l].revoked

\* can_access_file, against the tables as they are.
InLink(l, x) == x \in link[l].files \/ root[x] \in link[l].folders

\* No password, or one the visitors know.
Unlocked(l) == link[l].password \in Known \cup {None}

Fresh(l) == ~link[l].present /\ \A w \in Web \cup Public : job[w].link # l

TypeOK ==
    /\ link \in [Links -> Row]
    /\ root \in [Files -> Roots \cup {None}]
    /\ config \in Configs
    /\ token \in [Links -> 0 .. TokenLife]
    /\ url \in [Links -> [Files -> 0 .. UrlLife]]
    /\ job \in [Web \cup Public -> Job]
    /\ closed \in [Links -> 0 .. UrlLife]
    /\ away \in [Links -> [Files -> 0 .. UrlLife]]
    /\ locked \in [Links -> 0 .. TokenLife + UrlLife]

Init ==
    /\ link = [l \in Links |-> NoLink]
    /\ root \in [Files -> Roots \cup {None}]
    /\ config \in Configs
    /\ token = [l \in Links |-> 0]
    /\ url = [l \in Links |-> [x \in Files |-> 0]]
    /\ job = [w \in Web \cup Public |-> IdleJob]
    /\ closed = [l \in Links |-> 0]
    /\ away = [l \in Links |-> [x \in Files |-> 0]]
    /\ locked = [l \in Links |-> 0]

\* The ticks counted by closed, away and locked, each from the last state in
\* which the opposite held.
UpTo(n, most) == IF n < most THEN n ELSE most
Watch(ticks) ==
    /\ closed' = [l \in Links |-> IF Open(l)' THEN 0 ELSE UpTo(closed[l] + ticks, UrlLife)]
    /\ away' = [l \in Links |-> [x \in Files |->
                  IF InLink(l, x)' THEN 0 ELSE UpTo(away[l][x] + ticks, UrlLife)]]
    /\ locked' = [l \in Links |->
                    IF Unlocked(l)' THEN 0 ELSE UpTo(locked[l] + ticks, TokenLife + UrlLife)]

-----------------------------------------------------------------------------
(* What the owner does *)

\* validate_create_or_update_sharelink, but for the number of links.
Allowed(folders, chosen, password) ==
    /\ folders # {} => config.folders
    /\ config.choose /\ chosen # None /\ config.minutes # None => chosen <= config.minutes
    /\ password # None => config.passwords

\* Bug: a link that was revoked no longer counts, whatever it may become.
BelowLimitOfOpen == Cardinality({l \in Links : Open(l)}) < config.links
BelowLimit == Cardinality({l \in Links : Active(l)}) < config.links

CreateLink(w, l) ==
    /\ At(w, "idle")
    /\ Fresh(l)
    /\ BelowLimit
    /\ \E files \in SUBSET Files, folders \in SUBSET Roots,
          chosen \in Choices \cup {None}, password \in Passwords \cup {None} :
        /\ files # {} \/ folders # {}
        /\ Allowed(folders, chosen, password)
        /\ job' = [job EXCEPT ![w] =
              [IdleJob EXCEPT !.pc = "insert", !.link = l, !.chosen = chosen,
                 !.row = [present |-> TRUE, files |-> files, folders |-> folders, left |-> None,
                          revoked |-> FALSE, password |-> password]]]
    /\ UNCHANGED <<link, root, config, token, url>>

\* expiration_normalization, with the plan as it is by then.
Normalized(chosen) ==
    IF config.choose /\ chosen # None THEN chosen
    ELSE IF config.minutes \in {0, None} THEN Default ELSE config.minutes

InsertLink(w) ==
    /\ At(w, "insert")
    /\ link' = [link EXCEPT ![job[w].link] = [job[w].row EXCEPT !.left = Normalized(job[w].chosen)]]
    /\ Return(w)
    /\ UNCHANGED <<root, config, token, url>>

\* get_queryset finds neither a revoked link nor an expired one, nor one without
\* an expiry.  A password is only ever replaced.
Editable(l) == Open(l) /\ link[l].left # None
EditLink(w, l) ==
    /\ At(w, "idle")
    /\ Editable(l)
    /\ \E files \in SUBSET Files, folders \in SUBSET Roots, named \in SUBSET {"files", "folders"},
          chosen \in Choices \cup {None}, password \in Passwords \cup {None} :
        /\ files # {} => "files" \in named
        /\ folders # {} => "folders" \in named
        /\ Allowed(folders, chosen, password)
        /\ job' = [job EXCEPT ![w] =
              [pc |-> "save", link |-> l, chosen |-> chosen, named |-> named,
               row |-> [link[l] EXCEPT !.files = files, !.folders = folders,
                          !.password = IF password = None THEN @ ELSE password]]]
    /\ UNCHANGED <<link, root, config, token, url>>

\* Every column is saved, revoked_at as it was loaded, and a row that is gone is
\* inserted again; files and folders are set if the request names them.
SaveEdit(w) ==
    LET j == job[w]
        l == j.link
    IN  /\ At(w, "save")
        /\ link' = [link EXCEPT ![l] =
              [j.row EXCEPT !.left = IF config.choose THEN j.chosen ELSE @,
                            !.files = IF "files" \in j.named THEN @ ELSE link[l].files,
                            !.folders = IF "folders" \in j.named THEN @ ELSE link[l].folders]]
        /\ Return(w)
        /\ UNCHANGED <<root, config, token, url>>

RevokeLink(l) ==
    /\ link[l].present
    /\ ~link[l].revoked
    /\ link' = [link EXCEPT ![l].revoked = TRUE]
    /\ UNCHANGED <<root, config, token, url, job>>

DeleteLink(l) ==
    /\ link[l].present
    /\ link' = [link EXCEPT ![l] = NoLink]
    /\ UNCHANGED <<root, config, token, url, job>>

\* A file, or a folder above it, is moved, or the file is put into the bin.
Reorganise(x) ==
    /\ \E r \in Roots \cup {None} : root' = [root EXCEPT ![x] = r]
    /\ UNCHANGED <<link, config, token, url, job>>

ChangePlan ==
    /\ config' \in Configs
    /\ UNCHANGED <<link, root, token, url, job>>

-----------------------------------------------------------------------------
(* What visitors do; token[l] and url[l][x] stand for the last of their kind *)

\* Bug: a token is good for as long as the last URL got with it.
MaxAgeOfUrl == TokenLife + UrlLife
AccessMaxAge == TokenLife

\* The password is asked for whether the link is open or not.
Authenticate(l) ==
    /\ link[l].present
    /\ link[l].password \in Known
    /\ token' = [token EXCEPT ![l] = AccessMaxAge]
    /\ UNCHANGED <<link, root, config, url, job>>

\* Bug: is_revoked alone.
NotRevoked(l) == link[l].present /\ ~link[l].revoked
ValidLink(l) == link[l].present /\ ~link[l].revoked /\ link[l].left # 0

HasAccess(l) == link[l].password = None \/ token[l] > 0

OpenLink(v, l) ==
    /\ At(v, "idle")
    /\ ValidLink(l)
    /\ HasAccess(l)
    /\ job' = [job EXCEPT ![v].pc = "open", ![v].link = l]
    /\ UNCHANGED <<link, root, config, token, url>>

\* Bug: any file of the user's, once the link is open.
AnyFile(l, x) == TRUE
CanAccessFile(l, x) == x \in link[l].files \/ (root[x] # None /\ root[x] \in link[l].folders)

Download(v, x) ==
    LET l == job[v].link IN
    /\ At(v, "open")
    /\ url' = IF CanAccessFile(l, x) THEN [url EXCEPT ![l][x] = UrlLife] ELSE url
    /\ Return(v)
    /\ UNCHANGED <<link, root, config, token>>

-----------------------------------------------------------------------------
(* Time *)

Less(n) == IF n \in {0, None} THEN n ELSE n - 1

\* Bug: what is left of a token never becomes less.
TokenForGood(n) == n
TokenAges(n) == Less(n)

Tick ==
    /\ \A v \in Public : At(v, "idle")
    /\ link' = [l \in Links |-> [link[l] EXCEPT !.left = Less(@)]]
    /\ token' = [l \in Links |-> TokenAges(token[l])]
    /\ url' = [l \in Links |-> [x \in Files |-> Less(url[l][x])]]
    /\ job' = [w \in Web \cup Public |->
                 [job[w] EXCEPT !.row.left = Less(@), !.chosen = Less(@)]]
    /\ UNCHANGED <<root, config>>

Owner ==
    \/ \E w \in Web :
        \/ \E l \in Links : CreateLink(w, l) \/ EditLink(w, l)
        \/ InsertLink(w) \/ SaveEdit(w)
    \/ \E l \in Links : RevokeLink(l) \/ DeleteLink(l)
    \/ \E x \in Files : Reorganise(x)
    \/ ChangePlan

Visitors ==
    \/ \E l \in Links : Authenticate(l)
    \/ \E v \in Public :
        \/ \E l \in Links : OpenLink(v, l)
        \/ \E x \in Files : Download(v, x)

Next ==
    \/ (Owner \/ Visitors) /\ Watch(0)
    \/ Tick /\ Watch(1)

Spec == Init /\ [][Next]_vars

-----------------------------------------------------------------------------
(* Safety *)

\* The number of active links is read and the link stored later, edits that were
\* let in while a link was active may bring it back after it expired or was
\* deleted: at most one link more than some plan of the owner's allows, for each
\* worker but one.  user.py, active_share_links and validate_create_or_update_sharelink.
LimitOvershoot ==
    \E c \in Configs :
        Cardinality({l \in Links : Active(l)}) <= c.links + Cardinality(Web) - 1

\* Once a link has been expired, revoked or deleted for as long as a URL lasts,
\* no URL got through it is good, whoever opened it just before; a stale save that
\* opens it again starts the count anew.
ClosedGivesNothing ==
    \A l \in Links, x \in Files : closed[l] = UrlLife => url[l][x] = 0

\* The same for a file taken out of the link, or out of the folder it shares.
UnsharedGivesNothing ==
    \A l \in Links, x \in Files : away[l][x] = UrlLife => url[l][x] = 0

\* An access token outlives the password it was got with: a new password keeps
\* out those who do not know it once both token and URL have run out.
LockedGivesNothing ==
    \A l \in Links, x \in Files : locked[l] = TokenLife + UrlLife => url[l][x] = 0
=============================================================================
