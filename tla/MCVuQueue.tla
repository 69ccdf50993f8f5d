----------------------------- MODULE MCVuQueue ------------------------------
EXTENDS VuQueue
MCSetups == {[features |-> {"INFLIGHT", "EVENT_IDX"}, first |-> 3],
             [features |-> {"INFLIGHT"}, first |-> 0],
             [features |-> {"EVENT_IDX"}, first |-> 3],
             [features |-> {"NOTIFY_ON_EMPTY"}, first |-> 2]}
MCInflight == {[features |-> {"INFLIGHT"}, first |-> 0]}
=============================================================================
