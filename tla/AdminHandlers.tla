------------------------------ MODULE AdminHandlers ------------------------------
(* The handlers of the web pages and of the JSON API that only             *)
(* administrators may use, and those of what everyone may do: module       *)
(* Handlers has the checks, and says how a handler is written.             *)
EXTENDS Handlers

\* The handlers of administrators.

UIProjectCreate(q) == Handle(<<AdminOnly(q), Parsed(q), Fit(q)>>, "project")
APIProjectCreate(q) == Handle(<<AdminOnly(q), Parsed(q), Fit(q)>>, "project")

UIMemberAdd(q) == Handle(<<AdminOnly(q), ProjectRead(q), Parsed(q), Fit(q)>>, "member")
APIMemberAdd(q) == Handle(<<AdminOnly(q), Parsed(q), Fit(q)>>, "member")

UIMemberRemove(q) == Handle(<<AdminOnly(q), ProjectRead(q), Parsed(q), Fit(q)>>, "unmember")
APIMemberRemove(q) == Handle(<<AdminOnly(q), Fit(q)>>, "unmember")

UIProjectRename(q) == Handle(<<AdminOnly(q), ProjectRead(q), Parsed(q), Fit(q)>>, "project")
APIProjectRename(q) == Handle(<<AdminOnly(q), Parsed(q), Fit(q)>>, "project")

UIProjectDelete(q) == Handle(<<AdminOnly(q), ProjectRead(q)>> \o DeleteProject(q), "server")
APIProjectDelete(q) == Handle(<<AdminOnly(q)>> \o DeleteProject(q), "server")

UIGPUQuota(q) == Handle(<<AdminOnly(q), ProjectRead(q), Parsed(q), Fit(q)>>, "project")
APIGPUQuota(q) == Handle(<<AdminOnly(q), Parsed(q), Fit(q)>>, "project")

UIQuota(q) == Handle(<<AdminOnly(q), ProjectRead(q), Parsed(q), Fit(q)>>, "project")
APIQuota(q) == Handle(<<AdminOnly(q), Parsed(q), Fit(q)>>, "project")

UIUsers(q) == Handle(<<AdminOnly(q)>>, "look")
APIUsers(q) == Handle(<<AdminOnly(q)>>, "look")

UIInviteCreate(q) == Handle(<<AdminOnly(q), Parsed(q), Fit(q)>>, "server")
APIInviteCreate(q) == Handle(<<AdminOnly(q), Parsed(q), Fit(q)>>, "server")

UIInviteRevoke(q) == Handle(<<AdminOnly(q), Parsed(q), Fit(q)>>, "server")
APIInviteRevoke(q) == Handle(<<AdminOnly(q), Fit(q)>>, "server")

UIUserDelete(q) == Handle(<<AdminOnly(q), Parsed(q), Fit(q)>>, "server")
APIUserDelete(q) == Handle(<<AdminOnly(q), Fit(q)>>, "server")

UIUserPassword(q) == Handle(<<AdminOnly(q), Parsed(q), Fit(q)>>, "server")
APIUserPassword(q) == Handle(<<AdminOnly(q), Parsed(q), Fit(q)>>, "server")

UISettingsSet(q) == Handle(<<AdminOnly(q), Parsed(q), Fit(q)>>, "server")
APISettingsSet(q) == Handle(<<AdminOnly(q), Parsed(q), Fit(q)>>, "server")

UISettingsUpdate(q) == Handle(<<AdminOnly(q), Cluster, Parsed(q), Fit(q)>>, "server")
APISettingsUpdate(q) == Handle(<<AdminOnly(q), Cluster, Parsed(q), Fit(q)>>, "server")

UIRegistryGC(q) == Handle(<<AdminOnly(q)>>, "server")
APIRegistryGC(q) == Handle(<<AdminOnly(q)>>, "server")

UIBackupCreate(q) == Handle(<<AdminOnly(q)>>, "server")
APIBackupCreate(q) == Handle(<<AdminOnly(q)>>, "server")

UIBackupPrune(q) == Handle(<<AdminOnly(q)>>, "server")
APIBackupPrune(q) == Handle(<<AdminOnly(q)>>, "server")

UIGPUKey(q) == Handle(<<AdminOnly(q), Fit(q), Sealed>>, "server")
APIGPUKey(q) == Handle(<<AdminOnly(q), Parsed(q), Fit(q), Sealed>>, "server")

UIGPURent(q) == Handle(<<AdminOnly(q), Fit(q)>>, "server")
APIGPURent(q) == Handle(<<AdminOnly(q), Parsed(q), Fit(q)>>, "server")

UIGPUStop(q) == Handle(<<AdminOnly(q), Fit(q)>>, "server")
APIGPUStop(q) == Handle(<<AdminOnly(q), Fit(q)>>, "server")

UINodeAction(q) == Handle(<<AdminOnly(q), Cluster, Fit(q)>>, "server")
APINodeAction(q) == Handle(<<AdminOnly(q), Cluster, Parsed(q), Fit(q)>>, "server")

UIAudit(q) == Handle(<<AdminOnly(q)>>, "look")
APIAudit(q) == Handle(<<AdminOnly(q)>>, "look")

UIDoctor(q) == Handle(<<AdminOnly(q)>>, "look")
APIDoctor(q) == Handle(<<AdminOnly(q)>>, "look")

--------------------------------
\* What everyone may do for themselves, and what everyone of the project may read.

UIAccountPassword(q) == Handle(<<Parsed(q), Fit(q)>>, "own")
APIAccountPassword(q) == Handle(<<Parsed(q), Fit(q)>>, "own")

UIAccountEmail(q) == Handle(<<Parsed(q), Fit(q)>>, "own")
APIAccountEmail(q) == Handle(<<Parsed(q), Fit(q)>>, "own")

UITokenRevoke(q) == Handle(<<Parsed(q), Fit(q)>>, "own")
APITokenRevoke(q) == Handle(<<Fit(q)>>, "own")

UISSHKeyAdd(q) == Handle(<<Parsed(q), Fit(q)>>, "own")
APISSHKeyAdd(q) == Handle(<<Parsed(q), Fit(q)>>, "own")

UISSHKeyDelete(q) == Handle(<<Parsed(q), Fit(q)>>, "own")
APISSHKeyDelete(q) == Handle(<<Fit(q)>>, "own")

UIAIExplain(q) == Handle(<<ProjectRead(q), AppThere(q)>>, "look")
APIAIExplain(q) == Handle(<<Parsed(q), EnvRead(q), AppThere(q)>>, "look")

UIAppPage(q) == Handle(<<ProjectRead(q), AppThere(q)>>, "look")
APIAppPage(q) == Handle(<<EnvRead(q), AppThere(q)>>, "look")

UISweepTrials(q) == Handle(<<ProjectRead(q), AppThere(q), SweepThere(q), Fit(q)>>, "look")
APISweepTrials(q) == Handle(<<EnvRead(q), JobThere(q), Fit(q)>>, "look")

UIPipelinePage(q) == Handle(<<ProjectRead(q), Fit(q)>>, "look")
APIPipelinePage(q) == Handle(<<ProjectRead(q), Fit(q)>>, "look")

================================
