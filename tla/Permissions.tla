----------------------------- MODULE Permissions -----------------------------
(***************************************************************************)
(* The permission catalog and what the five seeded roles grant             *)
(* (rbac/catalog.py).  A permission code "resource.action" is a pair.      *)
(***************************************************************************)
EXTENDS Naturals

Codes(resource, actions) == {<<resource, a>> : a \in actions}
Crud == {"read", "create", "update", "delete"}

PERMISSION_CATALOG ==
  UNION { Codes("tenant", {"read", "update", "delete", "transfer_ownership"}),
          Codes("permission", {"read"}),
          Codes("publisher", Crud \cup {"discover", "qualify"}),
          Codes("submission", Crud \cup {"approve", "verify"}),
          Codes("ai", {"generate", "usage_read"}),
          Codes("audit", {"read"}),
          Codes("job", {"read", "create"}) }
  \cup ({"user", "role", "client_website", "campaign", "opportunity",
         "credential", "integration"} \X Crud)

ReadOnly(resources) == {p \in PERMISSION_CATALOG : p[1] \in resources /\ p[2] = "read"}
AllFor(resources)   == {p \in PERMISSION_CATALOG : p[1] \in resources}

OwnershipOnly == {<<"tenant", "delete">>, <<"tenant", "transfer_ownership">>}

ManagerPermissions ==
  AllFor({"client_website", "campaign", "publisher", "opportunity", "submission"})
  \cup Codes("ai", {"generate", "usage_read"})
  \cup Codes("job", {"read", "create"})
  \cup ReadOnly({"tenant", "user", "role", "permission", "credential", "integration"})

\* What everybody in a workspace may look at.
CommonReads ==
  ReadOnly({"tenant", "user", "role", "permission", "client_website", "campaign",
            "publisher", "opportunity", "submission"})

SpecialistPermissions ==
  CommonReads
  \cup Codes("opportunity", {"create", "update"})
  \cup Codes("submission", {"create", "update"})
  \cup Codes("publisher", {"create", "update", "qualify"})
  \cup {<<"ai", "generate">>, <<"job", "read">>}

ViewerPermissions == CommonReads

SystemRoles == {"owner", "admin", "seo_manager", "seo_specialist", "viewer"}

\* DEFAULT_ROLE_DEFINITIONS, permissions_for_role
DefaultPermissions(slug) ==
  CASE slug = "owner"          -> PERMISSION_CATALOG
    [] slug = "admin"          -> PERMISSION_CATALOG \ OwnershipOnly
    [] slug = "seo_manager"    -> ManagerPermissions
    [] slug = "seo_specialist" -> SpecialistPermissions
    [] slug = "viewer"         -> ViewerPermissions
=============================================================================
