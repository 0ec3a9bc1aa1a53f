SPECIFICATION Spec
CONSTANTS
 g1=g1
 g2=g2
 g3=g3
 c1=c1
 c2=c2
 NoGuid=NoGuid
 Guid={g1,g2,g3}
 Reconciler={c1,c2}
 PageSize=3
 MaxPages=1
 Overlap=1
 MaxRequests=1
 MaxHistory=3
 MaxAsked=0
 Gaps={2}
 Invocation={}
 Past <- QuietPast
SYMMETRY SymPast
INVARIANT NoDeliveryForgotten
