SPECIFICATION Spec
CONSTANTS
 g1=g1
 g2=g2
 g3=g3
 c1=c1
 c2=c2
 NoGuid=NoGuid
 Guid={g1,g2}
 Reconciler={c1}
 PageSize=1
 MaxPages=1
 Overlap=1
 MaxRequests=2
 MaxHistory=3
 MaxAsked=1
 Gaps={2}
 Invocation={g1}
 Past <- NoPast
INVARIANTS TypeOK NoDeliveryForgotten OpenReceiptReachable
