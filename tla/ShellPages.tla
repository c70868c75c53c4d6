----------------------------- MODULE ShellPages -----------------------------
(***************************************************************************)
(* Who may open which page of the workspace window: the pure part of       *)
(* src/web/src/utils/app-helpers.ts and src/web/src/config/app-shell.ts.   *)
(* A permission "" is none.                                                *)
(***************************************************************************)
EXTENDS Integers, Sequences, FiniteSetsExt

Item(id, section, permission) == [id |-> id, section |-> section, permission |-> permission]

navItems == <<
  Item("account-profile", "Account", ""),
  Item("viewer-home", "Viewer", "view_live_timing"),
  Item("viewer-live", "Viewer", "view_live_timing"),
  Item("viewer-map", "Viewer", "view_map"),
  Item("viewer-sectors", "Viewer", "view_sectors"),
  Item("viewer-flags", "Viewer", "view_flags"),
  Item("viewer-reports", "Viewer", "view_reports"),
  Item("rc-overview", "Race Control", "control_flags"),
  Item("rc-flags", "Race Control", "control_flags"),
  Item("rc-racelinks", "Race Control", "x2_connection"),
  Item("rc-tms", "Race Control", "x2_connection"),
  Item("rc-baselinks", "Race Control", "x2_connection"),
  Item("bridge", "Bridge", "x2_connection"),
  Item("bridge-health", "Bridge", "x2_connection"),
  Item("logs", "Bridge", "view_logs"),
  Item("admin-presence", "Admin", "manage_users"),
  Item("admin-accounts", "Admin", "manage_users"),
  Item("admin-users", "Admin", "manage_users"),
  Item("admin-events", "Admin", "manage_events"),
  Item("admin-settings", "Admin", "system_settings") >>

PageId     == {navItems[i].id : i \in DOMAIN navItems}
Section    == {navItems[i].section : i \in DOMAIN navItems}
Permission == {navItems[i].permission : i \in DOMAIN navItems} \ {""}

NoProfile == [authenticated |-> FALSE, user |-> FALSE, permissions |-> {}]

(* An answer without a user, or of a signed-out desktop, is no profile.    *)
sanitizeProfile(input) ==
  IF input.authenticated /\ input.user THEN input ELSE NoProfile

hasPermission(profile, permission) ==
  profile.authenticated /\ permission \in profile.permissions

(* The items of navItems that pass the filter, by their places: the order   *)
(* of the allowed pages is theirs.                                         *)
getAllowedPages(profile) ==
  {i \in DOMAIN navItems : \/ navItems[i].permission = ""
                           \/ hasPermission(profile, navItems[i].permission)}

MayOpen(profile, page) == \E i \in getAllowedPages(profile) : navItems[i].id = page

(* Mutant of findDefaultPage: the section of the page, not its id. *)
DefaultSection(profile) == navItems[Min(getAllowedPages(profile))].section

findDefaultPage(profile) ==
  LET allowed == getAllowedPages(profile)
  IN  IF allowed = {} THEN "viewer-home" ELSE navItems[Min(allowed)].id

(* The sections of the sidebar, and whether the page is in one.            *)
groupedNav(allowed) == {navItems[i].section : i \in allowed}

SectionOf(page) == navItems[CHOOSE i \in DOMAIN navItems : navItems[i].id = page].section

buildExpandedSections(allowed, page) ==
  [section \in groupedNav(allowed) |->
     \E i \in allowed : navItems[i].section = section /\ navItems[i].id = page]
=============================================================================
