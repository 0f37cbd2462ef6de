-------------------------------- MODULE Catalog --------------------------------
(* What the two subscription catalogs offer, event type by event type, and    *)
(* the attributes that the trackers put into the alerts of those types.       *)

\* kontiki-monitor: event type -> the attribute keys a subscription may filter on.
Criteria ==
  [instance_registered |-> {"service_name", "host", "version"},
   instance_unregistered |-> {"service_name"},
   instance_state_changed |-> {"service_name", "previous_state", "new_state", "reason"},
   exception_recorded |-> {"service_name", "exception_type"},
   expected_service_missing |-> {"service_name"},
   insufficient_active_instances |-> {"service_name"},
   sentinel_unreachable |-> {"sentinel_url"}]

\* The same for host-check-service.
HostCriteria ==
  [disk_space_high |-> {"host", "path", "severity"},
   disk_path_unavailable |-> {"host", "path"}]

\* Criteria whose attribute a lifecycle alert lacks when the registry did not say it.
Optional == {"host", "version", "reason"}

\* A subscription to this type is possible, and each criterion finds its attribute.
Offered(criteria, optional, type, attributes) ==
  /\ type \in DOMAIN criteria
  /\ criteria[type] \subseteq attributes \cup optional

FleetType(kind) == IF kind = "missing" THEN "expected_service_missing"
                   ELSE "insufficient_active_instances"
FleetAttributes ==
  {"service_name", "min_active", "active_count", "observed_statuses", "resolution"}

\* Slip: the exception type serves for the title and is left out of the attributes.
ExceptionAttributes_Untyped(typed) == {"service_name", "instance_id", "resolution"}

\* The exception type is an attribute when the fingerprint has one.
ExceptionAttributes(typed) ==
  {"service_name", "instance_id", "resolution"} \cup
    (IF typed THEN {"exception_type"} ELSE {})

SentinelAttributes == {"sentinel_url", "resolution"}

DiskType(kind) == IF kind = "high" THEN "disk_space_high" ELSE "disk_path_unavailable"
\* Slip: the severity is a field of the alert and not repeated among its attributes.
DiskAttributes_Plain(kind) ==
  {"host", "hostname", "path", "resolution"} \cup
    (IF kind = "high"
     THEN {"used_percent", "warning_used_percent", "critical_used_percent"} ELSE {"error"})

DiskAttributes(kind) ==
  {"host", "hostname", "path", "severity", "resolution"} \cup
    (IF kind = "high"
     THEN {"used_percent", "warning_used_percent", "critical_used_percent"} ELSE {"error"})
=============================================================================
