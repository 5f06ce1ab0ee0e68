----------------------------- MODULE MCApiServer -----------------------------
EXTENDS ApiServer

Analyst == [bucket |-> "address", role |-> "ANALYST", tenant |-> "default"]
Admin   == [bucket |-> "key", role |-> "ADMIN", tenant |-> "alpha"]
Reader  == [bucket |-> "address", role |-> "READONLY", tenant |-> "default"]
Stranger == [bucket |-> "address", role |-> "ANALYST", tenant |-> "beta"]
MCClients == {Analyst, Admin, Reader, Stranger}

\* The reader may not update, the stranger not the alerts of this tenant.
Update(c, status) == [client |-> c, status |-> status]
MCUpdates == {Update(Analyst, "RESOLVED"), Update(Admin, "INVESTIGATING"),
              Update(Reader, "RESOLVED"), Update(Stranger, "RESOLVED")}
=============================================================================
