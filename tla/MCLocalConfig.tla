--------------------------- MODULE MCLocalConfig ---------------------------
(* A file that is not there at first, then sets one option, then another. *)
EXTENDS LocalConfig

CONSTANTS r1, r2, owner, other, home, shiny, nobody

MCNames == {owner, other, shiny}

At(model, runAs, members) ==
  [model |-> model, listed |-> TRUE, runAs |-> runAs, members |-> members]

Without(model, members) ==
  [model |-> model, listed |-> FALSE, runAs |-> << >>, members |-> members]

MCAppDir == {At("app_dir", <<home, shiny>>, MCNames)}

MCSiteDir == {At("site_dir", <<home, shiny>>, MCNames)}

MCLocations ==
  MCAppDir \cup
  {At("site_dir", <<home>>, MCNames),
   At("user_dirs", <<home, shiny>>, MCNames),
   At("user_dirs", <<shiny, home>>, {owner}),
   At("user_dirs", << >>, {owner, shiny}),
   Without("user_dirs", {owner}),
   Without("user_apps", {other, shiny}),
   Without("user_apps", {owner})}

MCGlobal == [idle |-> 5, max |-> 40]

MCContents ==
  <<[state |-> "absent", idle |-> Unset, max |-> Unset],
    [state |-> "ok", idle |-> 10, max |-> 40],
    [state |-> "invalid", idle |-> Unset, max |-> Unset],
    [state |-> "ok", idle |-> Unset, max |-> Unset]>>

\* For the runs on an app_dir and on what the file does not set.
MCContentsShort ==
  <<[state |-> "ok", idle |-> 10, max |-> 40], [state |-> "ok", idle |-> 20, max |-> 40]>>

MCContentsPartial == <<[state |-> "ok", idle |-> 10, max |-> Unset]>>

=============================================================================
