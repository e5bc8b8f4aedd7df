-------------------------------- MODULE Notices --------------------------------
(***************************************************************************)
(* Announcements, the notifications of a person, the reminders that        *)
(* reading them makes, and the devices that get a push message             *)
(* (announcementService, announcementReadService, notificationService,     *)
(* attendanceReminderService, pushNotificationService and their routes).   *)
(*                                                                         *)
(* One work date.  todo[c] is what call c has left to do; a call checks     *)
(* first and then takes one step for each write.  Texts are left out, and   *)
(* notifications about the person himself that nothing else depends on.    *)
(***************************************************************************)
EXTENDS Naturals, FiniteSets

CONSTANTS
  NCalls,      \* concurrent requests
  Folk,        \* accounts
  Sites,       \* active branches
  Ranks,       \* the distributions of ranks to try, each in [Folk -> Rank]
  Posts,       \* announcement ids
  Devices,     \* push endpoints of a person
  MaxNCalls,   \* bound: calls that are made, by whether they may overlap
  MaxMoves,    \* bound: people who change branch
  MaxRestarts, \* bound: restarts of the process
  Nobody       \* NULL

Rank == {"employee", "head", "manager", "owner"}

ASSUME NoticesAssumption ==
  /\ Ranks \subseteq [Folk -> Rank] /\ Nobody \notin Sites \cup Devices
  /\ MaxNCalls \in [BOOLEAN -> Nat] /\ MaxMoves \in Nat /\ MaxRestarts \in Nat

VARIABLES
  noverlap,   \* may calls overlap?
  rank,
  sites,      \* sites[p]: the branches of p
  post,       \* post[a]: an announcement, or Nobody
  reads,      \* announcement_reads: pairs of person and announcement
  told,       \* told[p][a]: the notification of p about a: "none", "unread", "read"
  desk,       \* desk[p][s]: p's notifications about requests at s, likewise
  hour,       \* "night" is before 07:00, "day" after that
  came,       \* came[p]: "no", "ok" or "late" today
  reminded,   \* reminded[p][k]: the hours at which p got a reminder of kind k
  doubles,    \* history: reminders that repeat one of the day
  synced,     \* lastReminderSync: people whose reminders were made recently
  subs,       \* subs[p]: push_subscriptions
  installed,  \* installed[p]: the endpoints that the push service knows
  latest,     \* history: latest[p]: the device saved last, unless withdrawn
  hidden,     \* history: notifications marked read since p left the branch
  todo,       \* todo[c]: the writes that call c has left
  asked, moves, restarts

nvars == <<noverlap, rank, sites, post, reads, told, desk, hour, came, reminded, doubles,
           synced, subs, installed, latest, hidden, todo, asked, moves, restarts>>
deskvars == <<sites, post, reads, told, desk, hidden>>
dayvars == <<hour, came, reminded, doubles, synced>>
pushvars == <<subs, installed, latest>>

Kinds == {"missing", "late"}
Announcements == [to : SUBSET Folk, site : Sites \cup {Nobody}, open : BOOLEAN]

ASSUME AnnouncementsAssumption == Nobody \notin Announcements

Idle == [do |-> "nothing"]

NoticesInit ==
  /\ noverlap \in BOOLEAN /\ rank \in Ranks
  /\ sites \in [Folk -> {{s} : s \in Sites}]
  /\ post = [a \in Posts |-> Nobody] /\ reads = {}
  /\ told = [p \in Folk |-> [a \in Posts |-> "none"]]
  /\ desk = [p \in Folk |-> [s \in Sites |-> "none"]]
  /\ hour \in {"night", "day"}
  /\ came = [p \in Folk |-> "no"]
  /\ reminded = [p \in Folk |-> [k \in Kinds |-> {}]] /\ doubles = {} /\ synced = {}
  /\ subs = [p \in Folk |-> {}] /\ installed = [p \in Folk |-> Devices]
  /\ latest = [p \in Folk |-> Nobody] /\ hidden = {}
  /\ todo = [c \in NCalls |-> Idle]
  /\ asked = 0 /\ moves = 0 /\ restarts = 0
------------------------------------------------------------------------------
NStart(c, next) ==
  /\ todo[c] = Idle /\ asked < MaxNCalls[noverlap]
  /\ noverlap \/ \A d \in NCalls : todo[d] = Idle
  /\ todo' = [todo EXCEPT ![c] = next] /\ asked' = asked + 1
  /\ UNCHANGED <<noverlap, rank, moves, restarts>>

NGoOn(c, next) ==
  /\ todo' = [todo EXCEPT ![c] = next]
  /\ UNCHANGED <<noverlap, rank, asked, moves, restarts>>

\* getBranchIdsForUser
Scope(p) == IF rank[p] = "owner" THEN Sites ELSE sites[p]

\* userMayReceiveBranchNotification, and notificationMatchesBranchScope of a
\* type that is personal
MayReceive(p, s) == s = Nobody \/ s \in Scope(p)

\* resolveAnnouncementRecipientUserIds: employees only.
Recipients(targets) ==
  {p \in Folk : rank[p] \in {"employee", "head"} /\ sites[p] \cap targets # {}}

\* listBranchSupervisorRecipients and listOwnerRecipients
Supervisors(s) == {p \in Folk : rank[p] \in {"head", "manager"} /\ s \in sites[p]}
Owners == {p \in Folk : rank[p] = "owner"}

\* createNotification of a reminder
Remind(p, k) ==
  /\ reminded' = [reminded EXCEPT ![p][k] = @ \cup {hour}]
  /\ doubles' = IF reminded[p][k] # {} THEN doubles \cup {<<p, k, reminded[p][k]>>} ELSE doubles
------------------------------------------------------------------------------
(* Announcements.                                                           *)

\* publishAnnouncement: the announcement and its recipients in a transaction,
\* then the notifications, one by one.
Publish(c, a, targets, site) ==
  /\ post[a] = Nobody
  /\ LET to == Recipients(targets)
     IN  /\ post' = [post EXCEPT ![a] = [to |-> to, site |-> site, open |-> TRUE]]
         /\ NStart(c, [do |-> "tell", post |-> a, to |-> to])
  /\ UNCHANGED <<sites, reads, told, desk, hidden, dayvars, pushvars>>

\* createBranchAnnouncement, createDeveloperAnnouncement
PublishBranch(c, a, s) == Publish(c, a, {s}, s)
PublishDeveloper(c, a, targets) == targets # {} /\ Publish(c, a, targets, Nobody)

Tell(c) ==
  /\ todo[c].do = "tell"
  /\ LET a == todo[c].post
     IN  \/ /\ todo[c].to = {} /\ NGoOn(c, Idle) /\ UNCHANGED told
         \/ \E p \in todo[c].to :
              /\ told' = IF MayReceive(p, post[a].site)
                         THEN [told EXCEPT ![p][a] = "unread"] ELSE told
              /\ NGoOn(c, [todo[c] EXCEPT !.to = @ \ {p}])
  /\ UNCHANGED <<sites, post, reads, desk, hidden, dayvars, pushvars>>

\* updateBranchAnnouncement: its end is moved.
UpdateBranchAnnouncement(c, a) ==
  /\ post[a] # Nobody /\ post[a].site # Nobody
  /\ post' = [post EXCEPT ![a].open = ~@]
  /\ NStart(c, Idle)
  /\ UNCHANGED <<sites, reads, told, desk, hidden, dayvars, pushvars>>

\* listAnnouncementsForUser
Listed(p) == {a \in Posts : post[a] # Nobody /\ post[a].open /\ p \in post[a].to}

ReadOneWay(c, p, some) ==  \* a mutant: the notifications are forgotten
  /\ some \subseteq Listed(p) /\ some # {}
  /\ reads' = reads \cup ({p} \X some)
  /\ NStart(c, Idle)
  /\ UNCHANGED <<sites, post, told, desk, hidden, dayvars, pushvars>>

\* PATCH /announcements/:id/read and /announcements/read-all
ReadAnnouncements(c, p, some) ==
  /\ some \subseteq Listed(p) /\ some # {}
  /\ reads' = reads \cup ({p} \X some)
  /\ NStart(c, [do |-> "notes", who |-> p, posts |-> some])
  /\ UNCHANGED <<sites, post, told, desk, hidden, dayvars, pushvars>>

\* markAnnouncementNotificationsRead
MarkNotifications(c) ==
  /\ todo[c].do = "notes"
  /\ LET p == todo[c].who
     IN  told' = [told EXCEPT ![p] = [a \in Posts |->
                    IF a \in todo[c].posts /\ @[a] = "unread" THEN "read" ELSE @[a]]]
  /\ NGoOn(c, Idle)
  /\ UNCHANGED <<sites, post, reads, desk, hidden, dayvars, pushvars>>
------------------------------------------------------------------------------
(* Notifications.                                                           *)

\* PATCH /notifications/:id/read of an announcement's notification
ReadNotification(c, p, a) ==
  /\ told[p][a] # "none"
  /\ told' = [told EXCEPT ![p][a] = "read"]
  /\ NStart(c, [do |-> "reads", who |-> p, post |-> a])
  /\ UNCHANGED <<sites, post, reads, desk, hidden, dayvars, pushvars>>

\* syncAnnouncementReadFromNotification
SyncAnnouncementRead(c) ==
  /\ todo[c].do = "reads"
  /\ reads' = reads \cup {<<todo[c].who, todo[c].post>>}
  /\ NGoOn(c, Idle)
  /\ UNCHANGED <<sites, post, told, desk, hidden, dayvars, pushvars>>

\* PATCH /notifications/read-all: all in scope but those of announcements.
ReadAllNotifications(c, p) ==
  /\ desk' = [desk EXCEPT ![p] = [s \in Sites |->
                IF s \in Scope(p) /\ @[s] = "unread" THEN "read" ELSE @[s]]]
  /\ NStart(c, Idle)
  /\ UNCHANGED <<sites, post, reads, told, hidden, dayvars, pushvars>>

\* GET /notifications: the reminders first, at most once in 15 minutes, then
\* the unread ones out of scope are read away.  The scope is that of the
\* account when the request was let in.
GetNotifications(c, p) ==
  /\ rank[p] \in {"employee", "head"} /\ p \notin synced
  /\ synced' = synced \cup {p}
  /\ NStart(c, [do |-> "sync", who |-> p, scope |-> Scope(p)])
  /\ UNCHANGED <<deskvars, hour, came, reminded, doubles, pushvars>>

GetNotificationsAgain(c, p) ==
  /\ rank[p] \in {"employee", "head"} => p \in synced
  /\ NStart(c, [do |-> "list", who |-> p, scope |-> Scope(p)])
  /\ UNCHANGED <<deskvars, dayvars, pushvars>>

Listing(c) == [do |-> "list", who |-> todo[c].who, scope |-> todo[c].scope]

\* syncAttendanceRemindersForUser, up to its read of the attendance; it ends
\* at once for an account of today, a day off and an unscheduled employee.
SyncAttendance(c) ==
  /\ todo[c].do = "sync"
  /\ LET p == todo[c].who
     IN  \/ NGoOn(c, Listing(c))
         \/ /\ came[p] # "ok"
            /\ NGoOn(c, [do |-> "dup", who |-> p, scope |-> todo[c].scope,
                         kind |-> IF came[p] = "no" THEN "missing" ELSE "late"])
  /\ UNCHANGED <<deskvars, dayvars, pushvars>>

RemindedNever(p, k) == FALSE  \* a mutant of HasNotificationToday
\* hasNotificationToday: since midnight UTC, which is 07:00 WIB.
HasNotificationToday(p, k) ==
  IF hour = "day" THEN "day" \in reminded[p][k] ELSE reminded[p][k] # {}

CheckReminder(c) ==
  /\ todo[c].do = "dup"
  /\ NGoOn(c, IF HasNotificationToday(todo[c].who, todo[c].kind)
              THEN Listing(c) ELSE [todo[c] EXCEPT !.do = "remind"])
  /\ UNCHANGED <<deskvars, dayvars, pushvars>>

MakeReminder(c) ==
  /\ todo[c].do = "remind"
  /\ Remind(todo[c].who, todo[c].kind)
  /\ NGoOn(c, Listing(c))
  /\ UNCHANGED <<deskvars, hour, came, synced, pushvars>>

HideOutOfScope(c) ==
  /\ todo[c].do = "list"
  /\ LET p == todo[c].who
         out(s) == rank[p] # "owner" /\ s # Nobody /\ s \notin todo[c].scope
         away == {a \in Posts : told[p][a] = "unread" /\ out(post[a].site)}
     IN  /\ told' = [told EXCEPT ![p] = [a \in Posts |-> IF a \in away THEN "read" ELSE @[a]]]
         /\ desk' = [desk EXCEPT ![p] = [s \in Sites |->
                       IF out(s) /\ @[s] = "unread" THEN "read" ELSE @[s]]]
         /\ hidden' = hidden \cup ({p} \X away)
  /\ NGoOn(c, Idle)
  /\ UNCHANGED <<sites, post, reads, dayvars, pushvars>>

\* notifyManagersNewApprovalRequest, notifyManagersShiftSwapReady
NotifyManagers(c, s) ==
  /\ NStart(c, [do |-> "desk", site |-> s, to |-> Supervisors(s) \cup Owners, late |-> Nobody])
  /\ UNCHANGED <<deskvars, dayvars, pushvars>>

\* A late check-in: notifyLateAttendanceForReview, then notifyAttendanceLate.
CheckInLate(c, p) ==
  /\ came[p] = "no" /\ rank[p] \in {"employee", "head"}
  /\ came' = [came EXCEPT ![p] = "late"]
  /\ \E s \in sites[p] :
       NStart(c, [do |-> "desk", site |-> s, to |-> Supervisors(s) \cup Owners, late |-> p])
  /\ UNCHANGED <<deskvars, hour, reminded, doubles, synced, pushvars>>

CheckInOnTime(p) ==
  /\ came[p] = "no" /\ came' = [came EXCEPT ![p] = "ok"]
  /\ UNCHANGED <<noverlap, rank, deskvars, hour, reminded, doubles, synced, pushvars,
                 todo, asked, moves, restarts>>

NotifyDesk(c) ==
  /\ todo[c].do = "desk"
  /\ \/ \E p \in todo[c].to :
          /\ desk' = IF MayReceive(p, todo[c].site)
                     THEN [desk EXCEPT ![p][todo[c].site] = "unread"] ELSE desk
          /\ NGoOn(c, [todo[c] EXCEPT !.to = @ \ {p}])
          /\ UNCHANGED <<reminded, doubles>>
     \/ /\ todo[c].to = {} /\ NGoOn(c, Idle) /\ UNCHANGED desk
        /\ IF todo[c].late # Nobody /\ MayReceive(todo[c].late, todo[c].site)
           THEN Remind(todo[c].late, "late") ELSE UNCHANGED <<reminded, doubles>>
  /\ UNCHANGED <<sites, post, reads, told, hidden, hour, came, synced, pushvars>>
------------------------------------------------------------------------------
(* Push messages.                                                           *)
KeepEveryPushSubscription(p, d) == subs[p]  \* a mutant of keepOnlyLatest...
KeepOnlyLatestPushSubscription(p, d) == subs[p] \cap {d}

\* savePushSubscription: the upsert, then the others are deleted.
SavePushSubscription(c, p, d) ==
  /\ d \in installed[p]
  /\ subs' = [subs EXCEPT ![p] = @ \cup {d}]
  /\ latest' = [latest EXCEPT ![p] = d]
  /\ NStart(c, [do |-> "only", who |-> p, device |-> d])
  /\ UNCHANGED <<deskvars, dayvars, installed>>

DeleteOthers(c) ==
  /\ todo[c].do = "only"
  /\ subs' = [subs EXCEPT ![todo[c].who] =
                KeepOnlyLatestPushSubscription(todo[c].who, todo[c].device)]
  /\ NGoOn(c, Idle)
  /\ UNCHANGED <<deskvars, dayvars, installed, latest>>

DeletePushSubscription(c, p, d) ==
  /\ subs' = [subs EXCEPT ![p] = @ \ {d}]
  /\ latest' = [latest EXCEPT ![p] = IF @ = d THEN Nobody ELSE @]
  /\ NStart(c, Idle)
  /\ UNCHANGED <<deskvars, dayvars, installed>>

\* sendPushToUser and verifyAndPrunePushSubscriptions drop what is gone.
Push(p) ==
  /\ subs' = [subs EXCEPT ![p] = @ \cap installed[p]]
  /\ UNCHANGED <<noverlap, rank, deskvars, dayvars, installed, latest, todo, asked, moves, restarts>>

Uninstall(p, d) ==
  /\ moves < MaxMoves /\ moves' = moves + 1
  /\ installed' = [installed EXCEPT ![p] = @ \ {d}]
  /\ UNCHANGED <<noverlap, rank, deskvars, dayvars, subs, latest, todo, asked, restarts>>
------------------------------------------------------------------------------
\* setUserBranches: to another branch.
ChangeSite(p, s) ==
  /\ moves < MaxMoves /\ moves' = moves + 1
  /\ rank[p] # "owner" /\ sites' = [sites EXCEPT ![p] = {s}]
  /\ UNCHANGED <<noverlap, rank, post, reads, told, desk, hidden, dayvars, pushvars, todo, asked, restarts>>

\* Fifteen minutes or a morning pass; no request takes that long.
TimePasses ==
  /\ \A c \in NCalls : todo[c] = Idle
  /\ hour' = "day" /\ synced' = {}
  /\ UNCHANGED <<noverlap, rank, deskvars, came, reminded, doubles, pushvars, todo, asked,
                 moves, restarts>>

\* The process stops: calls are lost, lastReminderSync is empty again.
Restart ==
  /\ restarts < MaxRestarts /\ restarts' = restarts + 1
  /\ todo' = [c \in NCalls |-> Idle] /\ synced' = {}
  /\ UNCHANGED <<noverlap, rank, deskvars, hour, came, reminded, doubles, pushvars, asked, moves>>

NoticesNext ==
  \/ \E c \in NCalls :
       \/ Tell(c) \/ MarkNotifications(c) \/ SyncAnnouncementRead(c)
       \/ SyncAttendance(c) \/ CheckReminder(c) \/ MakeReminder(c) \/ HideOutOfScope(c)
       \/ NotifyDesk(c) \/ DeleteOthers(c)
       \/ \E a \in Posts : \/ \E s \in Sites : PublishBranch(c, a, s)
                           \/ \E targets \in SUBSET Sites : PublishDeveloper(c, a, targets)
                           \/ UpdateBranchAnnouncement(c, a)
       \/ \E s \in Sites : NotifyManagers(c, s)
       \/ \E p \in Folk :
            \/ \E some \in SUBSET Posts : ReadAnnouncements(c, p, some)
            \/ \E a \in Posts : ReadNotification(c, p, a)
            \/ ReadAllNotifications(c, p) \/ GetNotifications(c, p) \/ GetNotificationsAgain(c, p)
            \/ CheckInLate(c, p)
            \/ \E d \in Devices : SavePushSubscription(c, p, d) \/ DeletePushSubscription(c, p, d)
  \/ \E p \in Folk : \/ CheckInOnTime(p) \/ Push(p)
                     \/ \E d \in Devices : Uninstall(p, d)
                     \/ \E s \in Sites : ChangeSite(p, s)
  \/ TimePasses \/ Restart

NoticesSpec == NoticesInit /\ [][NoticesNext]_nvars
------------------------------------------------------------------------------
(* Properties                                                               *)
Quiet == \A c \in NCalls : todo[c] = Idle

\* One call at a time and none lost: of an announcement and a person's
\* notification about it either both are read or neither, whichever of the two
\* he read; but a notification about a branch that he has left is read away
\* (announcementReadService.ts:64, notifications.ts:99, announcements.ts:50).
ReadTogether ==
  ~noverlap /\ restarts = 0 /\ Quiet =>
    \A p \in Folk, a \in Posts :
      /\ told[p][a] = "unread" => <<p, a>> \notin reads
      /\ told[p][a] = "read" => <<p, a>> \in reads \cup hidden

\* Nobody is reminded twice a day of the same, not even after a restart, unless
\* the first time was before 07:00, when the day begins in UTC, or, with
\* calls that overlap, while his late check-in was being reported
\* (attendanceReminderService.ts:74, notifications.ts:44).
OneReminderADay ==
  \A x \in doubles : "night" \in x[3] \/ (noverlap /\ x[2] = "late")

\* A person has at most one device, however his requests overlap; one call at
\* a time it is the one that he saved last, until it is withdrawn or gone
\* (pushNotificationService.ts:39, 51: "cegah double notif dari reinstall").
OneDevice ==
  Quiet /\ restarts = 0 =>
    \A p \in Folk :
      /\ Cardinality(subs[p]) <= 1
      /\ ~noverlap /\ latest[p] \in installed[p] => latest[p] \in subs[p]
===============================================================================
