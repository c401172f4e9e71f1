----------------------------- MODULE Approval_proofs -----------------------------
(***************************************************************************)
(* What the approvals of one pull request rest on, and what its reviews    *)
(* are said to have come to, for any number of reviews, runs, commits,     *)
(* posts and checks and any limits of what is read (lib/review-job.js,     *)
(* lib/github.js, lib/approval-gate.js, POST /api/jobs/:id/approve).       *)
(***************************************************************************)
EXTENDS Approval, FiniteSetTheorems, SequenceTheorems, TLAPS

Posts == [author : {Host, "other"}, state : ReviewStates \cup {"ISSUE"}, text : Texts, commit : Nat]

Threads == [comments : Seq(Texts), isResolved : BOOLEAN]

Prs == [head : 1..MaxHead, state : {"OPEN", "MERGED"}, posts : Seq(Posts), acts : Nat, thread : Threads]

Policies == [autoApprove : BOOLEAN, reReview : BOOLEAN]

FirstPrompt(policy) ==
    BuildPrompt([source |-> "bundled", body |-> "text", subordinate |-> "absent"], policy, TRUE, FALSE)

ResumePrompt(policy) == BuildVerifyPrompt(FALSE, policy, TRUE)

Prompts == {<<>>} \cup {FirstPrompt(policy) : policy \in Policies} \cup {ResumePrompt(policy) : policy \in Policies}

JobRecords ==
    [stage : Stages, own : 0..(MaxPosts + 1), verify : BOOLEAN, head : Nat, looked : Nat, sound : BOOLEAN,
     prompt : Prompts, since : Nat, outcome : Outcomes \cup {None, "skipped"}, verified : BOOLEAN]

Asks == [stage : {"idle"}] \cup [stage : {"asked"}, job : Jobs] \cup [stage : {"refused"}, answered : BOOLEAN]
        \cup [stage : {"cleared"}, job : Jobs, posts : Nat, thread : Threads]

Types ==
    /\ pr \in Prs /\ pr.acts <= cast.acts
    /\ job \in [Jobs -> JobRecords] /\ ask \in Asks
    /\ runs \in 0..MaxRuns /\ cast \in Casts

\* What every step does to the pull request: posts and comments are added, at the
\* head of then, and an opinion can be dismissed.
Stays(i) ==
    /\ pr'.posts[i].author = pr.posts[i].author
    /\ pr'.posts[i].text = pr.posts[i].text
    /\ pr'.posts[i].commit = pr.posts[i].commit
    /\ \/ pr'.posts[i].state = pr.posts[i].state
       \/ pr.posts[i].state \in {"APPROVED", "CHANGES_REQUESTED"} /\ pr'.posts[i].state = "DISMISSED"

GoesOn ==
    /\ pr'.head >= pr.head
    /\ Len(pr.posts) <= Len(pr'.posts)
    /\ \A i \in 1..Len(pr.posts) : Stays(i)
    /\ \A i \in (Len(pr.posts) + 1)..Len(pr'.posts) :
           pr'.posts[i].commit = pr'.head
    /\ Len(pr.thread.comments) <= Len(pr'.thread.comments)
    /\ \A i \in 1..Len(pr.thread.comments) : pr'.thread.comments[i] = pr.thread.comments[i]

-----------------------------------------------------------------------------
(* The pull request.                                                       *)

LEMMA Constants ==
  /\ CommentLimit \in Nat \ {0} /\ ReviewLimit \in Nat \ {0} /\ MaxHead \in Nat \ {0}
  /\ MaxPosts \in Nat \ {0} /\ MaxRuns \in Nat \ {0} /\ AutoApprove \in BOOLEAN
  /\ \A c \in Casts : c.acts \in Nat
  /\ None \notin Outcomes
  BY ApprovalAssumption

LEMMA AllTyped == Types => TypeOK
  <1> SUFFICES ASSUME Types PROVE TypeOK
    OBVIOUS
  <1>1. pr.head \in 1..MaxHead /\ pr.acts \in 0..cast.acts /\ pr.state \in {"OPEN", "MERGED"}
    BY Constants DEF Types, Prs
  <1>2. pr.thread.isResolved \in BOOLEAN
    BY DEF Types, Prs, Threads
  <1>3. \A c \in ToSet(pr.thread.comments) : c \in Texts
    BY DEF Types, Prs, Threads, ToSet
  <1>4. \A p \in ToSet(pr.posts) : p.state \in ReviewStates \cup {"ISSUE"} /\ p.text \in Texts
    <2>1. \A i \in DOMAIN pr.posts : pr.posts[i] \in Posts
      BY DEF Types, Prs
    <2>2. \A p \in Posts : p.state \in ReviewStates \cup {"ISSUE"} /\ p.text \in Texts
      BY DEF Posts
    <2> QED BY <2>1, <2>2 DEF ToSet
  <1>5. ask.stage \in {"idle", "asked", "refused", "cleared"}
    BY DEF Types, Asks
  <1>6. \A j \in Jobs :
           /\ job[j].stage \in Stages /\ job[j].own \in 0..(MaxPosts + 1)
           /\ job[j].outcome \in Outcomes \cup {None, "skipped"} /\ job[j].verified \in BOOLEAN
    BY DEF Types, JobRecords
  <1> QED BY <1>1, <1>2, <1>3, <1>4, <1>5, <1>6 DEF Types, TypeOK

LEMMA PostTyped ==
  ASSUME pr.head \in Nat, NEW a \in {Host, "other"}, NEW s \in ReviewStates \cup {"ISSUE"}, NEW t \in Texts
  PROVE  /\ Post(a, s, t) \in Posts
         /\ Post(a, s, t).author = a /\ Post(a, s, t).state = s
         /\ Post(a, s, t).text = t /\ Post(a, s, t).commit = pr.head
  BY DEF Post, Posts

\* A post, or nothing, is added.
LEMMA Posted ==
  ASSUME pr \in Prs, NEW post \in Posts, post.commit = pr.head,
         NEW n \in Nat, pr' = [pr EXCEPT !.posts = Append(@, post), !.acts = n]
  PROVE  /\ pr' \in Prs /\ pr'.acts = n /\ GoesOn
         /\ Len(pr'.posts) = Len(pr.posts) + 1 /\ pr'.posts[Len(pr.posts) + 1] = post
  <1>1. pr.posts \in Seq(Posts) /\ pr.head \in Nat /\ Len(pr.posts) \in Nat
    BY Constants, LenProperties DEF Prs
  <1>2. /\ pr'.posts = Append(pr.posts, post) /\ pr'.acts = n
        /\ pr'.head = pr.head /\ pr'.thread = pr.thread /\ pr'.state = pr.state
    BY DEF Prs
  <1>3. /\ Append(pr.posts, post) \in Seq(Posts)
        /\ Len(pr'.posts) = Len(pr.posts) + 1 /\ pr'.posts[Len(pr.posts) + 1] = post
        /\ \A i \in 1..Len(pr.posts) : pr'.posts[i] = pr.posts[i]
    BY <1>1, <1>2, AppendProperties
  <1>4. pr' \in Prs
    BY <1>2, <1>3 DEF Prs
  <1>5. Len(pr.thread.comments) \in Nat
    BY LenProperties DEF Prs, Threads
  <1>6. \A i \in (Len(pr.posts) + 1)..Len(pr'.posts) : i = Len(pr.posts) + 1
    BY <1>1, <1>3
  <1> QED BY <1>1, <1>2, <1>3, <1>4, <1>5, <1>6 DEF GoesOn, Stays

LEMMA NothingHappens == ASSUME pr \in Prs, pr' = pr PROVE GoesOn
  <1>1. Len(pr.posts) \in Nat /\ Len(pr.thread.comments) \in Nat /\ pr.head \in Nat
    BY Constants, LenProperties DEF Prs, Threads
  <1> QED BY <1>1 DEF GoesOn, Stays

LEMMA GithubGoesOn ==
  ASSUME Types, GithubSteps
  PROVE  pr' \in Prs /\ pr'.acts <= cast.acts /\ GoesOn
  <1>0. /\ pr \in Prs /\ pr.head \in Nat /\ pr.acts \in Nat /\ cast.acts \in Nat /\ pr.acts + 1 <= cast.acts
    BY Constants DEF GithubSteps, Types, Prs
  <1>n. Len(pr.posts) \in Nat /\ pr.posts \in Seq(Posts)
        /\ pr.thread \in Threads /\ pr.thread.comments \in Seq(Texts) /\ Len(pr.thread.comments) \in Nat
    BY <1>0, LenProperties DEF Prs, Threads
  <1>s. pr.head \in 1..MaxHead /\ pr.state \in {"OPEN", "MERGED"} /\ pr.acts + 1 \in Nat
    BY <1>0 DEF Prs
  <1>1. CASE Push
    <2>0. pr' = [head |-> pr.head + 1, state |-> pr.state, posts |-> pr.posts, acts |-> pr.acts + 1,
                          thread |-> pr.thread]
      BY <1>0, <1>1 DEF Push, Prs
    <2>h. pr.head + 1 \in 1..MaxHead
      BY <1>0, <1>1, Constants DEF Push, Prs
    <2>1. /\ pr'.head = pr.head + 1 /\ pr'.acts = pr.acts + 1 /\ pr'.posts = pr.posts
          /\ pr'.thread = pr.thread /\ pr' \in Prs
      BY <1>0, <1>n, <1>s, <2>0, <2>h DEF Prs
    <2> QED BY <1>0, <1>n, <2>1 DEF GoesOn, Stays
  <1>2. CASE Merge
    <2>1. /\ pr'.head = pr.head /\ pr'.acts = pr.acts + 1 /\ pr'.posts = pr.posts
          /\ pr'.thread = pr.thread /\ pr' \in Prs
      <3>1. pr' = [head |-> pr.head, state |-> "MERGED", posts |-> pr.posts, acts |-> pr.acts + 1,
                            thread |-> pr.thread]
        BY <1>0, <1>2 DEF Merge, Prs
      <3> QED BY <1>0, <1>n, <1>s, <3>1 DEF Prs
    <2> QED BY <1>0, <1>n, <2>1 DEF GoesOn, Stays
  <1>3. CASE PersonReviews
    <2>1. PICK post \in {Post(Host, "COMMENTED", Finding), Post("other", "COMMENTED", Snippet),
                         Post("other", "CHANGES_REQUESTED", Finding)} :
             pr' = [pr EXCEPT !.posts = Append(@, post), !.acts = @ + 1]
      BY <1>3 DEF PersonReviews
    <2>2. post \in Posts /\ post.commit = pr.head
      BY <1>0, <2>1, PostTyped DEF ReviewStates, Texts
    <2>3. pr.acts + 1 \in Nat /\ pr' = [pr EXCEPT !.posts = Append(@, post), !.acts = pr.acts + 1]
      BY <1>0, <2>1
    <2> QED BY <1>0, <2>2, <2>3, Posted
  <1>4. CASE Dismiss
    <2>1. PICK i \in DOMAIN pr.posts :
             /\ pr.posts[i].state \in {"APPROVED", "CHANGES_REQUESTED"}
             /\ pr' = [pr EXCEPT !.posts[i].state = "DISMISSED", !.acts = @ + 1]
      BY <1>4 DEF Dismiss
    <2> DEFINE s == [pr.posts EXCEPT ![i] = [pr.posts[i] EXCEPT !.state = "DISMISSED"]]
    <2>2. /\ pr'.head = pr.head /\ pr'.acts = pr.acts + 1 /\ pr'.thread = pr.thread
          /\ pr'.state = pr.state /\ pr'.posts = s /\ pr' = [pr EXCEPT !.posts = s, !.acts = @ + 1]
      BY <1>0, <2>1 DEF Prs
    <2>3. i \in 1..Len(pr.posts) /\ pr.posts[i] \in Posts
      BY <1>n, <2>1
    <2>4. [pr.posts[i] EXCEPT !.state = "DISMISSED"] \in Posts
      BY <2>3 DEF Posts, ReviewStates
    <2>5. s \in Seq(Posts) /\ Len(s) = Len(pr.posts)
      BY <1>n, <2>3, <2>4, ExceptSeq
    <2>6. \A k \in 1..Len(pr.posts) : s[k] = IF k = i THEN [pr.posts[i] EXCEPT !.state = "DISMISSED"] ELSE pr.posts[k]
      BY <1>n, <2>3
    <2> HIDE DEF s
    <2>7. pr' \in Prs
      <3>1. pr' = [head |-> pr.head, state |-> pr.state, posts |-> s, acts |-> pr.acts + 1,
                            thread |-> pr.thread]
        BY <1>0, <2>2 DEF Prs
      <3> QED BY <1>0, <1>n, <1>s, <2>5, <3>1 DEF Prs
    <2>8. \A k \in 1..Len(pr.posts) : Stays(k)
      BY <2>1, <2>2, <2>3, <2>6 DEF Stays, Posts
    <2> QED BY <1>0, <1>n, <2>2, <2>5, <2>7, <2>8 DEF GoesOn
  <1>5. CASE Comment
    <2>1. PICK text \in {Finding, AllClear} : pr' = [pr EXCEPT !.thread.comments = Append(@, text), !.acts = @ + 1]
      BY <1>5 DEF Comment
    <2>2. /\ pr'.head = pr.head /\ pr'.acts = pr.acts + 1 /\ pr'.posts = pr.posts /\ pr'.state = pr.state
          /\ pr'.thread = [pr.thread EXCEPT !.comments = Append(pr.thread.comments, text)]
      BY <1>0, <2>1 DEF Prs
    <2>3. text \in Texts
      BY DEF Texts
    <2>4. /\ Append(pr.thread.comments, text) \in Seq(Texts)
          /\ Len(Append(pr.thread.comments, text)) = Len(pr.thread.comments) + 1
          /\ \A k \in 1..Len(pr.thread.comments) : Append(pr.thread.comments, text)[k] = pr.thread.comments[k]
      BY <1>n, <2>3, AppendProperties
    <2>5. /\ pr'.thread.comments = Append(pr.thread.comments, text) /\ pr'.thread \in Threads
      BY <1>n, <2>2, <2>4 DEF Threads
    <2>6. pr' \in Prs
      <3>1. pr' = [head |-> pr.head, state |-> pr.state, posts |-> pr.posts, acts |-> pr.acts + 1,
                            thread |-> [pr.thread EXCEPT !.comments = Append(pr.thread.comments, text)]]
        BY <1>0, <2>1 DEF Prs
      <3>2. [pr.thread EXCEPT !.comments = Append(pr.thread.comments, text)] \in Threads
        BY <1>n, <2>4 DEF Threads
      <3> QED BY <1>0, <1>n, <1>s, <3>1, <3>2 DEF Prs
    <2> QED BY <1>0, <1>n, <2>2, <2>4, <2>5, <2>6 DEF GoesOn, Stays
  <1>6. CASE ResolveOrReopen
    <2>1. /\ pr'.head = pr.head /\ pr'.acts = pr.acts + 1 /\ pr'.posts = pr.posts /\ pr'.state = pr.state
          /\ pr'.thread = [pr.thread EXCEPT !.isResolved = ~pr.thread.isResolved]
      BY <1>0, <1>6 DEF ResolveOrReopen, Prs
    <2>2. pr'.thread.comments = pr.thread.comments /\ pr'.thread \in Threads
      BY <1>n, <2>1 DEF Threads
    <2>3. pr' \in Prs
      <3>1. pr' = [head |-> pr.head, state |-> pr.state, posts |-> pr.posts, acts |-> pr.acts + 1,
                            thread |-> [pr.thread EXCEPT !.isResolved = ~pr.thread.isResolved]]
        BY <1>0, <1>6 DEF ResolveOrReopen, Prs
      <3>2. [pr.thread EXCEPT !.isResolved = ~pr.thread.isResolved] \in Threads
        BY <1>n DEF Threads
      <3> QED BY <1>0, <1>n, <1>s, <3>1, <3>2 DEF Prs
    <2> QED BY <1>0, <1>n, <2>1, <2>2, <2>3 DEF GoesOn, Stays
  <1> QED BY <1>1, <1>2, <1>3, <1>4, <1>5, <1>6 DEF GithubSteps

-----------------------------------------------------------------------------
(* What an agent is told.                                                  *)

PromptBlocks ==
    {ApprovalBlock(policy) : policy \in Policies} \cup {WorkingTreeBlock(TRUE), Block("defaults"), Block("bundled")}

LEMMA Leads ==
  ASSUME NEW S, NEW s \in Seq(S), NEW t \in Seq(S), Len(s) >= 1
  PROVE  s \o t \in Seq(S) /\ Len(s \o t) >= 1 /\ (s \o t)[1] = s[1]
  <1>1. Len(s) \in Nat /\ Len(t) \in Nat
    BY LenProperties
  <1>2. /\ s \o t \in Seq(S) /\ Len(s \o t) = Len(s) + Len(t)
        /\ \A i \in 1..Len(s) + Len(t) : (s \o t)[i] = IF i <= Len(s) THEN s[i] ELSE t[i - Len(s)]
    BY ConcatProperties
  <1>3. 1 \in 1..Len(s) + Len(t) /\ 1 <= Len(s)
    BY <1>1
  <1> QED BY <1>1, <1>2, <1>3

LEMMA OfThree ==
  ASSUME NEW S, NEW a \in S, NEW b \in S, NEW c \in S
  PROVE  <<a, b, c>> \in Seq(S) /\ Len(<<a, b, c>>) >= 1 /\ <<a, b, c>>[1] = a
  OBVIOUS

LEMMA OfTwo ==
  ASSUME NEW S, NEW a \in S, NEW b \in S
  PROVE  <<a, b>> \in Seq(S) /\ Len(<<a, b>>) >= 1 /\ <<a, b>>[1] = a
  OBVIOUS

LEMMA FirstPromptLeads ==
  ASSUME NEW policy \in Policies
  PROVE  /\ FirstPrompt(policy) \in Seq(PromptBlocks) /\ Len(FirstPrompt(policy)) >= 1
         /\ FirstPrompt(policy)[1] = ApprovalBlock(policy)
  <1> DEFINE front == <<ApprovalBlock(policy), WorkingTreeBlock(TRUE), Block("defaults")>>
             rest == <<Block("bundled")>> \o <<>> \o <<>> \o <<>>
  <1>1. FirstPrompt(policy) = front \o rest
    BY DEF FirstPrompt, BuildPrompt, If
  <1>2. /\ ApprovalBlock(policy) \in PromptBlocks /\ WorkingTreeBlock(TRUE) \in PromptBlocks
        /\ Block("defaults") \in PromptBlocks /\ Block("bundled") \in PromptBlocks
    BY DEF PromptBlocks
  <1>3. front \in Seq(PromptBlocks) /\ Len(front) >= 1 /\ front[1] = ApprovalBlock(policy)
    BY <1>2, OfThree
  <1>4. rest \in Seq(PromptBlocks)
    BY <1>2
  <1> HIDE DEF front, rest
  <1> QED BY <1>1, <1>3, <1>4, Leads

LEMMA ResumePromptLeads ==
  ASSUME NEW policy \in Policies
  PROVE  /\ ResumePrompt(policy) \in Seq(PromptBlocks) /\ Len(ResumePrompt(policy)) >= 1
         /\ ResumePrompt(policy)[1] = ApprovalBlock([policy EXCEPT !.reReview = TRUE])
  <1> DEFINE lead == ApprovalBlock([policy EXCEPT !.reReview = TRUE])
             prompt == <<lead, WorkingTreeBlock(TRUE)>>
  <1>1. ResumePrompt(policy) = <<>> \o prompt
    BY DEF ResumePrompt, BuildVerifyPrompt, If
  <1>2. [policy EXCEPT !.reReview = TRUE] \in Policies
    BY DEF Policies
  <1>3. lead \in PromptBlocks /\ WorkingTreeBlock(TRUE) \in PromptBlocks
    BY <1>2 DEF PromptBlocks
  <1> HIDE DEF lead
  <1>4. prompt \in Seq(PromptBlocks) /\ Len(prompt) >= 1 /\ prompt[1] = lead
    BY <1>3, OfTwo
  <1> HIDE DEF prompt
  <1>5. <<>> \o prompt = prompt
    BY <1>4, ConcatEmptySeq
  <1> QED BY <1>1, <1>4, <1>5 DEF lead

\* Only the policy that leads a prompt can allow an approval.
LEMMA PolicyAllows ==
  ASSUME NEW prompt \in Seq(PromptBlocks), Len(prompt) >= 1,
         NEW policy \in Policies, prompt[1] = ApprovalBlock(policy),
         NEW a, "approve" \in Allowed(prompt, a)
  PROVE  policy.autoApprove /\ a.findings \cap {"critical", "major"} = {}
  <1> DEFINE policies == {i \in DOMAIN prompt : prompt[i].block = "approval"}
             first == CHOOSE i \in policies : \A k \in policies : i <= k
  <1>1. DOMAIN prompt = 1..Len(prompt) /\ Len(prompt) \in Nat
    BY LenProperties
  <1>2. ApprovalBlock(policy).block = "approval" /\ ApprovalBlock(policy).mayApprove = policy.autoApprove
    BY DEF ApprovalBlock
  <1>3. 1 \in policies /\ \A k \in policies : k \in Nat /\ 1 <= k
    BY <1>1, <1>2
  <1>4. first = 1
    <2>1. first \in policies /\ \A k \in policies : first <= k
      BY <1>3
    <2> HIDE DEF first, policies
    <2> QED BY <1>3, <2>1
  <1>5. Allowed(prompt, a) = Verbs(ApprovalBlock(policy), a)
    BY <1>3, <1>4 DEF Allowed
  <1>6. ApprovalBlock(policy).mayApprove /\ ~Blocking(ApprovalBlock(policy), a)
    BY <1>5 DEF Verbs
  <1> QED BY <1>2, <1>6 DEF Blocking

\* CI that passes the gate is sound.
LEMMA GateIsSound ==
  ASSUME NEW reading \in Readings, CiGate(reading)
  PROVE  Sound(reading)
  <1>1. \A c \in reading.checks : c.state \notin {"running", "failure"}
    BY DEF CiGate
  <1> QED BY <1>1 DEF CiGate, Sound

LEMMA LengthsTell == ASSUME NEW x, NEW y, Len(x) = 1, Len(y) = 2 PROVE x # y
  OBVIOUS

\* A review with nothing against the change is not a review with a finding.
LEMMA TextsDiffer == AllClear # Finding
  <1>1. Len(Denies("critical").units \o Says("critical").units) = 2
    BY DEF Denies, Says
  <1>2. Len(Denies("critical").units) = 1
    BY DEF Denies
  <1>3. AllClear[1] = Denies("critical") /\ Finding[1] = Both("critical")
    BY DEF AllClear, Finding
  <1>4. Both("critical").units = Denies("critical").units \o Says("critical").units
    BY DEF Both
  <1>5. Len(Both("critical").units) = 2
    BY <1>1, <1>4
  <1>6. Denies("critical").units # Both("critical").units
    BY <1>2, <1>5, LengthsTell
  <1>7. Denies("critical") # Both("critical")
    BY <1>6
  <1> QED BY <1>3, <1>7

-----------------------------------------------------------------------------
(* The runs.                                                               *)

\* The reading of a run is of the past.
Behind(j) ==
    job[j].head <= pr.head /\ job[j].looked <= Len(pr.posts) /\ job[j].since <= Len(pr.posts)

IsReview(state) == state \in {"COMMENTED", "APPROVED", "CHANGES_REQUESTED"}

\* A first pass has seen no review of this host on the commit it read.
Unreviewed(j) ==
    ~job[j].verify /\ job[j].stage \in {"read", "agent"} =>
        \A i \in 1..job[j].looked :
            ~ /\ pr.posts[i].author = Host /\ pr.posts[i].commit = job[j].head
              /\ IsReview(pr.posts[i].state)

\* What a run posted, it posted since it began.
OwnIsOurs(j) ==
    job[j].own # 0 =>
        /\ job[j].stage \in {"posted", "exited"}
        /\ job[j].since < job[j].own /\ job[j].own <= Len(pr.posts)
        /\ pr.posts[job[j].own].author = Host

\* Only where CI was sound, and with no finding, may an agent approve.
KnowsPolicy(j) ==
    job[j].stage = "agent" =>
        \A a \in Appraisals : "approve" \in Allowed(job[j].prompt, a) => job[j].sound /\ a.findings = {}

HostApproved == \E i \in 1..Len(pr.posts) : pr.posts[i].author = Host /\ pr.posts[i].state \in {"APPROVED", "DISMISSED"}

Confirmed(j) ==
    job[j].stage = "done" /\ job[j].verified /\ job[j].outcome = "approved" => HostApproved

RunFits(j) == Behind(j) /\ Unreviewed(j) /\ OwnIsOurs(j) /\ KnowsPolicy(j) /\ Confirmed(j)

\* Nothing is posted on a commit yet to come.
PostsFit == \A i \in 1..Len(pr.posts) : pr.posts[i].commit <= pr.head

IInv == Types /\ PostsFit /\ \A j \in Jobs : RunFits(j)

LEMMA PostsStayFit == ASSUME Types, PostsFit, pr' \in Prs, GoesOn PROVE PostsFit'
  <1>1. /\ Len(pr.posts) \in Nat /\ Len(pr'.posts) \in Nat /\ pr.head \in Nat /\ pr'.head \in Nat
        /\ \A i \in 1..Len(pr.posts) : pr.posts[i] \in Posts
        /\ \A i \in 1..Len(pr'.posts) : pr'.posts[i] \in Posts
    BY Constants, LenProperties DEF Types, Prs
  <1>2. \A p \in Posts : p.commit \in Nat
    BY DEF Posts
  <1>3. ASSUME NEW i \in 1..Len(pr'.posts)
        PROVE  pr'.posts[i].commit <= pr'.head
    <2>1. CASE i \in 1..Len(pr.posts)
      <3>1. Stays(i) /\ pr.posts[i].commit <= pr.head
        BY <2>1 DEF GoesOn, PostsFit
      <3>2. pr'.posts[i].commit \in Nat /\ pr.posts[i].commit \in Nat
        BY <1>1, <1>2, <1>3, <2>1
      <3> QED BY <1>1, <3>1, <3>2 DEF GoesOn, Stays
    <2>2. CASE i \notin 1..Len(pr.posts)
      <3>1. i \in (Len(pr.posts) + 1)..Len(pr'.posts)
        BY <1>1, <1>3, <2>2
      <3> QED BY <1>1, <3>1 DEF GoesOn
    <2> QED BY <2>1, <2>2
  <1> QED BY <1>3 DEF PostsFit

\* What holds of a run goes on to hold while others act.
LEMMA HostHasApproved == ASSUME Types, pr' \in Prs, GoesOn, HostApproved PROVE HostApproved'
  <1>1. PICK i \in 1..Len(pr.posts) : pr.posts[i].author = Host /\ pr.posts[i].state \in {"APPROVED", "DISMISSED"}
    BY DEF HostApproved
  <1>2. i \in 1..Len(pr'.posts)
    BY <1>1, LenProperties DEF GoesOn, Types, Prs
  <1>3. Stays(i)
    BY <1>1 DEF GoesOn
  <1> QED BY <1>1, <1>2, <1>3 DEF Stays, HostApproved

LEMMA RunKeepsFit ==
  ASSUME Types, pr' \in Prs, GoesOn, NEW j \in Jobs, RunFits(j), Confirmed(j)',
         job'[j].stage = job[j].stage, job'[j].own = job[j].own, job'[j].verify = job[j].verify,
         job'[j].head = job[j].head, job'[j].looked = job[j].looked, job'[j].sound = job[j].sound,
         job'[j].prompt = job[j].prompt, job'[j].since = job[j].since
  PROVE  RunFits(j)'
  <1>1. /\ Len(pr.posts) \in Nat /\ Len(pr'.posts) \in Nat /\ pr.head \in Nat /\ pr'.head \in Nat
        /\ job[j].head \in Nat /\ job[j].looked \in Nat /\ job[j].since \in Nat /\ job[j].own \in Nat
    BY Constants, LenProperties DEF Types, Prs, JobRecords
  <1>2. Behind(j)'
    BY <1>1 DEF RunFits, Behind, GoesOn
  <1>3. Unreviewed(j)'
    <2> SUFFICES ASSUME ~job[j].verify, job[j].stage \in {"read", "agent"}, NEW i \in 1..job[j].looked,
                        pr'.posts[i].author = Host, pr'.posts[i].commit = job[j].head, IsReview(pr'.posts[i].state)
                 PROVE  FALSE
      BY DEF Unreviewed
    <2>1. i \in 1..Len(pr.posts)
      BY <1>1 DEF RunFits, Behind
    <2>2. Stays(i)
      BY <2>1 DEF GoesOn
    <2>3. pr.posts[i].author = Host /\ pr.posts[i].commit = job[j].head /\ IsReview(pr.posts[i].state)
      BY <2>2 DEF Stays, IsReview
    <2> QED BY <2>3 DEF RunFits, Unreviewed
  <1>4. OwnIsOurs(j)'
    <2> SUFFICES ASSUME job[j].own # 0
                 PROVE  /\ job[j].stage \in {"posted", "exited"}
                        /\ job[j].since < job[j].own /\ job[j].own <= Len(pr'.posts)
                        /\ pr'.posts[job[j].own].author = Host
      BY DEF OwnIsOurs
    <2>1. /\ job[j].stage \in {"posted", "exited"}
          /\ job[j].since < job[j].own /\ job[j].own \in 1..Len(pr.posts)
          /\ pr.posts[job[j].own].author = Host
      BY <1>1 DEF RunFits, OwnIsOurs
    <2>2. Stays(job[j].own)
      BY <2>1 DEF GoesOn
    <2> QED BY <1>1, <2>1, <2>2 DEF GoesOn, Stays
  <1>5. KnowsPolicy(j)'
    BY DEF RunFits, KnowsPolicy
  <1> QED BY <1>2, <1>3, <1>4, <1>5 DEF RunFits

LEMMA RunStaysFit ==
  ASSUME Types, pr' \in Prs, GoesOn, NEW j \in Jobs, RunFits(j), job'[j] = job[j]
  PROVE  RunFits(j)'
  <1>1. Confirmed(j)'
    BY HostHasApproved DEF RunFits, Confirmed
  <1> QED BY <1>1, RunKeepsFit

-----------------------------------------------------------------------------
(* One run takes a step.                                                   *)

LEMMA EndedTyped ==
  ASSUME Types, NEW j \in Jobs, NEW st \in {"skipped", "failed", "done"},
         NEW outcome \in Outcomes \cup {None, "skipped"}, NEW verified \in BOOLEAN
  PROVE  Ended(j, st, outcome, verified) \in JobRecords
  <1>1. job[j].verify \in BOOLEAN
    BY DEF Types, JobRecords
  <1>2. <<>> \in Prompts /\ st \in Stages /\ 0 \in 0..(MaxPosts + 1)
    BY Constants DEF Prompts, Stages
  <1> QED BY <1>1, <1>2 DEF JobRecords, Ended

LEMMA RecordOf ==
  ASSUME NEW r \in JobRecords
  PROVE  r = [stage |-> r.stage, own |-> r.own, verify |-> r.verify, head |-> r.head, looked |-> r.looked,
              sound |-> r.sound, prompt |-> r.prompt, since |-> r.since, outcome |-> r.outcome,
              verified |-> r.verified]
  BY DEF JobRecords

LEMMA OneRecord ==
  ASSUME IInv, pr' \in Prs, pr'.acts <= cast.acts, GoesOn, ask' \in Asks, runs' \in 0..MaxRuns, cast' = cast,
         NEW j \in Jobs, NEW r \in JobRecords, job' = [job EXCEPT ![j] = r], RunFits(j)'
  PROVE  IInv'
  <1>1. Types'
    BY DEF IInv, Types
  <1>2. PostsFit'
    BY PostsStayFit DEF IInv
  <1>3. ASSUME NEW k \in Jobs PROVE RunFits(k)'
    <2>1. CASE k = j
      BY <2>1
    <2>2. CASE k # j
      <3>1. job'[k] = job[k]
        BY <2>2 DEF IInv, Types
      <3> QED BY <3>1, RunStaysFit DEF IInv
    <2> QED BY <2>1, <2>2
  <1> QED BY <1>1, <1>2, <1>3 DEF IInv

\* Nothing is asked of a run that is over but that its outcome is true.
LEMMA OverFits ==
  ASSUME Types, pr' = pr, NEW j \in Jobs,
         job'[j].stage \in {"skipped", "failed", "done"}, job'[j].own = 0,
         job'[j].head = 0, job'[j].looked = 0, job'[j].since = 0,
         job'[j].stage = "done" /\ job'[j].verified /\ job'[j].outcome = "approved" => HostApproved
  PROVE  RunFits(j)'
  <1>1. pr.head \in Nat /\ Len(pr.posts) \in Nat
    BY Constants, LenProperties DEF Types, Prs
  <1>2. Behind(j)'
    BY <1>1 DEF Behind
  <1>3. Confirmed(j)'
    BY DEF Confirmed, HostApproved
  <1> QED BY <1>2, <1>3 DEF RunFits, Unreviewed, OwnIsOurs, KnowsPolicy

LEMMA Fails ==
  ASSUME IInv, pr' = pr, ask' = ask, runs' \in 0..MaxRuns, cast' = cast,
         NEW j \in Jobs, job' = [job EXCEPT ![j] = Failed(j)]
  PROVE  IInv'
  <1>1. Types /\ job[j].outcome \in Outcomes \cup {None, "skipped"} /\ job[j].verified \in BOOLEAN
    BY DEF IInv, Types, JobRecords
  <1>2. Failed(j) \in JobRecords
    BY <1>1, EndedTyped DEF Failed
  <1>3. job'[j] = Failed(j)
    BY <1>1 DEF Types
  <1>4. RunFits(j)'
    BY <1>1, <1>3, OverFits DEF Failed, Ended
  <1>5. pr' \in Prs /\ pr'.acts <= cast.acts /\ ask' \in Asks /\ GoesOn
    BY <1>1, NothingHappens DEF Types
  <1> QED BY <1>2, <1>4, <1>5, OneRecord

LEMMA ReadPrStep == ASSUME IInv, NEW j \in Jobs, ReadPr(j) PROVE IInv'
  <1> DEFINE verify == job[j].stage # "none"
             skipped(outcome) == Ended(j, "skipped", outcome, job[j].verified)
             read(self) == [job[j] EXCEPT !.stage = "read", !.verify = verify, !.head = pr.head,
                                          !.looked = IF verify \/ self = None THEN 0 ELSE Len(pr.posts)]
  <1>0. /\ Types /\ PostsFit /\ RunFits(j) /\ job[j] \in JobRecords /\ job \in [Jobs -> JobRecords]
        /\ job[j].stage \in {"none", "done", "failed"}
    BY DEF IInv, Types, ReadPr
  <1>1. pr' = pr /\ ask' = ask /\ cast' = cast /\ runs' \in 0..MaxRuns
    BY <1>0, Constants DEF ReadPr, Types
  <1>2. pr' \in Prs /\ pr'.acts <= cast.acts /\ ask' \in Asks /\ GoesOn
    BY <1>0, <1>1, NothingHappens DEF Types
  <1>3. ASSUME NEW outcome \in {"skipped", "approved", "commented"},
               job' = [job EXCEPT ![j] = skipped(outcome)]
        PROVE  IInv'
    <2>1. outcome \in Outcomes \cup {None, "skipped"} /\ job[j].verified \in BOOLEAN
      BY <1>0 DEF Outcomes, JobRecords
    <2>3. skipped(outcome) \in JobRecords
      BY <1>0, <2>1, EndedTyped
    <2>4. job'[j] = skipped(outcome)
      BY <1>0, <1>3
    <2>5. RunFits(j)'
      BY <1>0, <1>1, <2>4, OverFits DEF Ended
    <2> HIDE DEF skipped
    <2> QED BY <1>1, <1>2, <1>3, <2>3, <2>5, OneRecord
  <1>4. ASSUME NEW self \in {Host, None}, ~PreFlight(j, verify, self), job' = [job EXCEPT ![j] = read(self)]
        PROVE  IInv'
    <2>0. pr.head \in Nat /\ Len(pr.posts) \in Nat /\ DOMAIN pr.posts = 1..Len(pr.posts)
      BY <1>0, Constants, LenProperties DEF Types, Prs
    <2>1. read(self) =
              [stage |-> "read", own |-> job[j].own, verify |-> verify, head |-> pr.head,
               looked |-> IF verify \/ self = None THEN 0 ELSE Len(pr.posts), sound |-> job[j].sound,
               prompt |-> job[j].prompt, since |-> job[j].since, outcome |-> job[j].outcome,
               verified |-> job[j].verified]
      <3> DEFINE r == job[j]
                 seen == IF verify \/ self = None THEN 0 ELSE Len(pr.posts)
                 a == [r EXCEPT !.stage = "read"]
                 b == [a EXCEPT !.verify = verify]
                 c == [b EXCEPT !.head = pr.head]
                 d == [c EXCEPT !.looked = seen]
      <3>1. r \in JobRecords
        BY <1>0
      <3> HIDE DEF r, seen, verify
      <3>2. a = [stage |-> "read", own |-> r.own, verify |-> r.verify, head |-> r.head, looked |-> r.looked,
                 sound |-> r.sound, prompt |-> r.prompt, since |-> r.since, outcome |-> r.outcome,
                 verified |-> r.verified]
        BY <3>1, RecordOf
      <3> HIDE DEF a
      <3>3. b = [stage |-> "read", own |-> r.own, verify |-> verify, head |-> r.head, looked |-> r.looked,
                 sound |-> r.sound, prompt |-> r.prompt, since |-> r.since, outcome |-> r.outcome,
                 verified |-> r.verified]
        BY <3>2
      <3> HIDE DEF b
      <3>4. c = [stage |-> "read", own |-> r.own, verify |-> verify, head |-> pr.head, looked |-> r.looked,
                 sound |-> r.sound, prompt |-> r.prompt, since |-> r.since, outcome |-> r.outcome,
                 verified |-> r.verified]
        BY <3>3
      <3> HIDE DEF c
      <3>5. d = [stage |-> "read", own |-> r.own, verify |-> verify, head |-> pr.head, looked |-> seen,
                 sound |-> r.sound, prompt |-> r.prompt, since |-> r.since, outcome |-> r.outcome,
                 verified |-> r.verified]
        BY <3>4
      <3> HIDE DEF d
      <3>6. read(self) = d
        BY DEF a, b, c, d, r, seen, verify
      <3> QED BY <3>5, <3>6 DEF r, seen
    <2>r. "read" \in Stages /\ read(self).stage \in Stages
      BY <2>1 DEF Stages
    <2>2. read(self) \in JobRecords
      BY <1>0, <2>0, <2>1, <2>r DEF JobRecords
    <2>3. job'[j] = read(self)
      BY <1>0, <1>4
    <2>4. Behind(j)'
      BY <1>0, <1>1, <2>0, <2>1, <2>3 DEF RunFits, Behind
    <2>5. Unreviewed(j)'
      <3> SUFFICES ASSUME ~verify, NEW i \in 1..job'[j].looked, pr.posts[i].author = Host,
                          pr.posts[i].commit = pr.head, IsReview(pr.posts[i].state)
                   PROVE  FALSE
        BY <1>1, <2>1, <2>3 DEF Unreviewed
      <3>1. self # None /\ self = Host /\ i \in DOMAIN pr.posts
        BY <1>4, <2>0, <2>1, <2>3
      <3>2. i \in DOMAIN Reviews /\ Reviews[i] = pr.posts[i]
        BY <3>1 DEF Reviews, IsReview
      <3>3. HasOwnReviewOnSha(Reviews, pr.head, self)
        BY <3>1, <3>2 DEF HasOwnReviewOnSha, OwnOnSha, IsReview
      <3> QED BY <1>4, <3>3 DEF PreFlight
    <2>6. RunFits(j)'
      <3>1. job[j].own = 0 /\ job'[j].own = 0 /\ job'[j].stage = "read"
        BY <1>0, <2>1, <2>3 DEF RunFits, OwnIsOurs
      <3> QED BY <2>4, <2>5, <3>1 DEF RunFits, OwnIsOurs, KnowsPolicy, Confirmed
    <2> HIDE DEF read
    <2> QED BY <1>1, <1>2, <1>4, <2>2, <2>6, OneRecord
  <1>5. CASE job' = [job EXCEPT ![j] = skipped("skipped")]
    BY <1>3, <1>5
  <1>6. CASE job' = [job EXCEPT ![j] = Failed(j)]
    BY <1>1, <1>6, Fails
  <1>7. CASE \E self \in {Host, None} :
                 job' = [job EXCEPT ![j] = IF PreFlight(j, verify, self)
                                           THEN skipped(SkippedOutcome(Reviews, pr.head, self)) ELSE read(self)]
    <2>1. PICK self \in {Host, None} :
                 job' = [job EXCEPT ![j] = IF PreFlight(j, verify, self)
                                           THEN skipped(SkippedOutcome(Reviews, pr.head, self)) ELSE read(self)]
      BY <1>7
    <2>2. SkippedOutcome(Reviews, pr.head, self) \in {"skipped", "approved", "commented"}
      BY DEF SkippedOutcome
    <2>3. CASE PreFlight(j, verify, self)
      BY <1>3, <2>1, <2>2, <2>3
    <2>4. CASE ~PreFlight(j, verify, self)
      BY <1>4, <2>1, <2>4
    <2> QED BY <2>3, <2>4
  <1>8. \/ job' = [job EXCEPT ![j] = skipped("skipped")]
        \/ job' = [job EXCEPT ![j] = Failed(j)]
        \/ \E self \in {Host, None} :
                 job' = [job EXCEPT ![j] = IF PreFlight(j, verify, self)
                                           THEN skipped(SkippedOutcome(Reviews, pr.head, self)) ELSE read(self)]
    <2>1. job[j] = job[j]
      OBVIOUS
    <2> QED BY <1>0 DEF ReadPr
  <1> QED BY <1>5, <1>6, <1>7, <1>8

LEMMA SpawnStep == ASSUME IInv, NEW j \in Jobs, Spawn(j) PROVE IInv'
  <1>1. PICK reading \in Readings :
           LET approval == ApplyCiGate(j, reading)
               prompt == IF job[j].verify THEN BuildVerifyPrompt(FALSE, approval, TRUE)
                         ELSE BuildPrompt([source |-> "bundled", body |-> "text", subordinate |-> "absent"],
                                          approval, TRUE, FALSE)
           IN  job' = [job EXCEPT ![j] =
                          [job[j] EXCEPT !.stage = "agent", !.prompt = prompt, !.sound = Sound(reading),
                                         !.since = Len(pr.posts)]]
    BY DEF Spawn
  <1> DEFINE r == job[j]
             approval == ApplyCiGate(j, reading)
             prompt == IF r.verify THEN ResumePrompt(approval) ELSE FirstPrompt(approval)
             sound == Sound(reading)
             a == [r EXCEPT !.stage = "agent"]
             b == [a EXCEPT !.prompt = prompt]
             c == [b EXCEPT !.sound = sound]
             d == [c EXCEPT !.since = Len(pr.posts)]
  <1>2. job' = [job EXCEPT ![j] = d]
    BY <1>1 DEF FirstPrompt, ResumePrompt
  <1>3. /\ Types /\ RunFits(j) /\ r \in JobRecords /\ r.stage = "read"
        /\ pr' = pr /\ ask' = ask /\ runs' = runs /\ cast' = cast
    BY DEF IInv, Types, Spawn
  <1>4. approval \in Policies /\ (approval.autoApprove => CiGate(reading))
    BY Constants DEF ApplyCiGate, Policies, CiGate
  <1>5. prompt \in Prompts
    BY <1>4 DEF Prompts
  <1>6. ASSUME NEW p \in Appraisals, "approve" \in Allowed(prompt, p) PROVE sound /\ p.findings = {}
    <2>1. PICK policy \in Policies :
             /\ prompt \in Seq(PromptBlocks) /\ Len(prompt) >= 1 /\ prompt[1] = ApprovalBlock(policy)
             /\ policy.autoApprove = approval.autoApprove
      <3>1. CASE r.verify
        <4>1. [approval EXCEPT !.reReview = TRUE] \in Policies
              /\ [approval EXCEPT !.reReview = TRUE].autoApprove = approval.autoApprove
          BY <1>4 DEF Policies
        <4>2. prompt = ResumePrompt(approval)
          BY <3>1
        <4> HIDE DEF prompt, approval
        <4> QED BY <1>4, <4>1, <4>2, ResumePromptLeads
      <3>2. CASE ~r.verify
        <4>1. prompt = FirstPrompt(approval)
          BY <3>2
        <4> HIDE DEF prompt, approval
        <4> QED BY <1>4, <4>1, FirstPromptLeads
      <3> QED BY <3>1, <3>2
    <2> HIDE DEF prompt, approval
    <2>2. policy.autoApprove /\ p.findings \cap {"critical", "major"} = {}
      BY <1>6, <2>1, PolicyAllows
    <2>3. p.findings = {} \/ p.findings = {"critical"}
      BY DEF Appraisals
    <2>4. sound
      BY <1>4, <2>1, <2>2, GateIsSound
    <2> QED BY <2>2, <2>3, <2>4
  <1>7. Len(pr.posts) \in Nat /\ sound \in BOOLEAN /\ "agent" \in Stages
    BY <1>3, LenProperties DEF Types, Prs, Sound, Stages
  <1> HIDE DEF r, approval, prompt, sound
  <1>8. a = [stage |-> "agent", own |-> r.own, verify |-> r.verify, head |-> r.head, looked |-> r.looked,
             sound |-> r.sound, prompt |-> r.prompt, since |-> r.since, outcome |-> r.outcome,
             verified |-> r.verified]
    BY <1>3, RecordOf
  <1> HIDE DEF a
  <1>9. b = [stage |-> "agent", own |-> r.own, verify |-> r.verify, head |-> r.head, looked |-> r.looked,
             sound |-> r.sound, prompt |-> prompt, since |-> r.since, outcome |-> r.outcome,
             verified |-> r.verified]
    BY <1>8
  <1> HIDE DEF b
  <1>10. c = [stage |-> "agent", own |-> r.own, verify |-> r.verify, head |-> r.head, looked |-> r.looked,
              sound |-> sound, prompt |-> prompt, since |-> r.since, outcome |-> r.outcome,
              verified |-> r.verified]
    BY <1>9
  <1> HIDE DEF c
  <1>11. d = [stage |-> "agent", own |-> r.own, verify |-> r.verify, head |-> r.head, looked |-> r.looked,
              sound |-> sound, prompt |-> prompt, since |-> Len(pr.posts), outcome |-> r.outcome,
              verified |-> r.verified]
    BY <1>10
  <1> HIDE DEF d
  <1>12. d \in JobRecords
    BY <1>3, <1>5, <1>7, <1>11 DEF JobRecords
  <1>13. job'[j] = d
    BY <1>2, <1>3 DEF Types
  <1>14. r.own = 0
    BY <1>3 DEF r, RunFits, OwnIsOurs
  <1>15. Behind(j)' /\ Unreviewed(j)'
    BY <1>3, <1>7, <1>11, <1>13 DEF r, RunFits, Behind, Unreviewed
  <1>16. KnowsPolicy(j)'
    BY <1>6, <1>11, <1>13 DEF KnowsPolicy
  <1>17. RunFits(j)'
    BY <1>11, <1>13, <1>14, <1>15, <1>16 DEF RunFits, OwnIsOurs, Confirmed
  <1>18. pr' \in Prs /\ pr'.acts <= cast.acts /\ ask' \in Asks /\ runs' \in 0..MaxRuns /\ GoesOn
    BY <1>3, NothingHappens DEF Types
  <1> QED BY <1>2, <1>3, <1>12, <1>17, <1>18, OneRecord

LEMMA AgentPostsGoesOn ==
  ASSUME IInv, NEW j \in Jobs, AgentPosts(j)
  PROVE  pr' \in Prs /\ pr'.acts <= cast.acts /\ GoesOn
  <1>1. PICK app \in Appraisals, cmd \in Commands, landed \in BOOLEAN :
           pr' = IF ~landed THEN pr
                 ELSE [pr EXCEPT !.posts = Append(@,
                          Post(Host, PostState(cmd),
                               IF app.findings = {} \/ cmd.form = "comment" THEN AllClear ELSE Finding))]
    BY DEF AgentPosts
  <1> DEFINE text == IF app.findings = {} \/ cmd.form = "comment" THEN AllClear ELSE Finding
             post == Post(Host, PostState(cmd), text)
  <1>2. pr \in Prs /\ pr.acts \in Nat /\ pr.head \in Nat /\ pr.acts <= cast.acts
    BY Constants DEF IInv, Types, Prs
  <1>3. post \in Posts /\ post.commit = pr.head
    <2>1. text \in Texts /\ PostState(cmd) \in ReviewStates \cup {"ISSUE"}
      BY DEF Texts, PostState, ReviewStates
    <2> HIDE DEF text
    <2> QED BY <1>2, <2>1, PostTyped
  <1>4. pr' = IF ~landed THEN pr ELSE [pr EXCEPT !.posts = Append(@, post)]
    BY <1>1
  <1> HIDE DEF post
  <1>5. CASE landed
    <2>1. pr' = [pr EXCEPT !.posts = Append(@, post), !.acts = pr.acts]
      BY <1>2, <1>4, <1>5 DEF Prs
    <2> QED BY <1>2, <1>3, <2>1, Posted
  <1>6. CASE ~landed
    BY <1>2, <1>4, <1>6, NothingHappens
  <1> QED BY <1>5, <1>6

LEMMA AgentPostsStep == ASSUME IInv, NEW j \in Jobs, AgentPosts(j) PROVE IInv'
  <1>1. PICK app \in Appraisals, cmd \in {k \in Commands : k.form = "comment" => k.verb = "comment"},
             landed \in BOOLEAN :
           /\ cmd.verb \in Allowed(job[j].prompt, app)
           /\ job' = [job EXCEPT ![j] =
                         [@ EXCEPT !.stage = "posted", !.own = IF landed THEN Len(pr.posts) + 1 ELSE 0,
                                   !.outcome = IF DetectOutcome(cmd) = None THEN job[j].outcome ELSE DetectOutcome(cmd)]]
           /\ pr' = IF ~landed THEN pr
                    ELSE [pr EXCEPT !.posts = Append(@,
                             Post(Host, PostState(cmd),
                                  IF app.findings = {} \/ cmd.form = "comment" THEN AllClear ELSE Finding))]
    BY DEF AgentPosts
  <1> DEFINE r == job[j]
             own == IF landed THEN Len(pr.posts) + 1 ELSE 0
             outcome == IF DetectOutcome(cmd) = None THEN r.outcome ELSE DetectOutcome(cmd)
             text == IF app.findings = {} \/ cmd.form = "comment" THEN AllClear ELSE Finding
             post == Post(Host, PostState(cmd), text)
             a == [r EXCEPT !.stage = "posted"]
             b == [a EXCEPT !.own = own]
             c == [b EXCEPT !.outcome = outcome]
  <1>2. job' = [job EXCEPT ![j] = c] /\ pr' = IF ~landed THEN pr ELSE [pr EXCEPT !.posts = Append(pr.posts, post)]
    BY <1>1
  <1>3. /\ Types /\ RunFits(j) /\ r \in JobRecords /\ r.stage = "agent"
        /\ ask' = ask /\ runs' = runs /\ cast' = cast /\ Len(pr.posts) < MaxPosts
    BY DEF IInv, Types, AgentPosts
  <1>4. Len(pr.posts) \in Nat /\ pr \in Prs /\ pr.acts \in Nat /\ pr.head \in Nat /\ pr.acts <= cast.acts
        /\ MaxPosts \in Nat
    BY <1>3, Constants, LenProperties DEF Types, Prs
  <1>5. post \in Posts /\ post.commit = pr.head /\ post.author = Host
    <2>1. text \in Texts /\ PostState(cmd) \in ReviewStates \cup {"ISSUE"}
      BY DEF Texts, PostState, ReviewStates
    <2> HIDE DEF text
    <2> QED BY <1>4, <2>1, PostTyped
  <1>6. /\ pr' \in Prs /\ pr'.acts <= cast.acts /\ GoesOn
        /\ landed => Len(pr'.posts) = Len(pr.posts) + 1 /\ pr'.posts[Len(pr.posts) + 1] = post
    <2> HIDE DEF post
    <2>1. CASE landed
      <3>1. pr' = [pr EXCEPT !.posts = Append(@, post), !.acts = pr.acts]
        BY <1>2, <1>4, <2>1 DEF Prs
      <3> QED BY <1>4, <1>5, <3>1, Posted
    <2>2. CASE ~landed
      BY <1>2, <1>4, <2>2, NothingHappens
    <2> QED BY <2>1, <2>2
  <1>7. own \in 0..(MaxPosts + 1) /\ "posted" \in Stages
    BY <1>3, <1>4 DEF Stages
  <1>8. outcome \in Outcomes \cup {None, "skipped"}
    BY <1>3 DEF JobRecords, DetectOutcome, Outcomes
  <1> HIDE DEF r, own, outcome, text, post
  <1>9. a = [stage |-> "posted", own |-> r.own, verify |-> r.verify, head |-> r.head, looked |-> r.looked,
             sound |-> r.sound, prompt |-> r.prompt, since |-> r.since, outcome |-> r.outcome,
             verified |-> r.verified]
    BY <1>3, RecordOf
  <1> HIDE DEF a
  <1>10. b = [stage |-> "posted", own |-> own, verify |-> r.verify, head |-> r.head, looked |-> r.looked,
              sound |-> r.sound, prompt |-> r.prompt, since |-> r.since, outcome |-> r.outcome,
              verified |-> r.verified]
    BY <1>9
  <1> HIDE DEF b
  <1>11. c = [stage |-> "posted", own |-> own, verify |-> r.verify, head |-> r.head, looked |-> r.looked,
              sound |-> r.sound, prompt |-> r.prompt, since |-> r.since, outcome |-> outcome,
              verified |-> r.verified]
    BY <1>10 DEF outcome
  <1> HIDE DEF c
  <1>12. c \in JobRecords
    BY <1>3, <1>7, <1>8, <1>11 DEF JobRecords
  <1>13. job'[j] = c
    BY <1>2, <1>3 DEF Types
  <1>14. r.head \in Nat /\ r.looked \in Nat /\ r.since \in Nat /\ Len(pr'.posts) \in Nat /\ pr'.head \in Nat
    BY <1>3, <1>6, Constants, LenProperties DEF JobRecords, Prs
  <1>15. r.head <= pr.head /\ r.looked <= Len(pr.posts) /\ r.since <= Len(pr.posts)
    BY <1>3 DEF r, RunFits, Behind
  <1>16. Behind(j)'
    BY <1>4, <1>6, <1>11, <1>13, <1>14, <1>15 DEF Behind, GoesOn
  <1>17. OwnIsOurs(j)'
    <2>1. CASE landed
      BY <1>4, <1>5, <1>6, <1>11, <1>13, <1>14, <1>15, <2>1 DEF own, OwnIsOurs
    <2>2. CASE ~landed
      BY <1>11, <1>13, <2>2 DEF own, OwnIsOurs
    <2> QED BY <2>1, <2>2
  <1>18. RunFits(j)'
    BY <1>11, <1>13, <1>16, <1>17 DEF RunFits, Unreviewed, KnowsPolicy, Confirmed
  <1>19. ask' \in Asks /\ runs' \in 0..MaxRuns
    BY <1>3 DEF Types
  <1> QED BY <1>2, <1>3, <1>6, <1>12, <1>18, <1>19, OneRecord

LEMMA AgentExitsStep == ASSUME IInv, NEW j \in Jobs, AgentExits(j) PROVE IInv'
  <1>1. PICK ok \in BOOLEAN : job' = [job EXCEPT ![j] = IF ok THEN [job[j] EXCEPT !.stage = "exited"] ELSE Failed(j)]
    BY DEF AgentExits
  <1>2. /\ Types /\ RunFits(j) /\ job[j] \in JobRecords /\ job[j].stage \in {"agent", "posted"}
        /\ pr' = pr /\ ask' = ask /\ runs' = runs /\ cast' = cast
    BY DEF IInv, Types, AgentExits
  <1>3. pr' \in Prs /\ pr'.acts <= cast.acts /\ ask' \in Asks /\ runs' \in 0..MaxRuns /\ GoesOn
    BY <1>2, NothingHappens DEF Types
  <1>4. CASE ok
    <2> DEFINE r == [job[j] EXCEPT !.stage = "exited"]
    <2>1. /\ r \in JobRecords /\ r.stage = "exited" /\ r.own = job[j].own /\ r.head = job[j].head
          /\ r.looked = job[j].looked /\ r.since = job[j].since
      BY <1>2 DEF JobRecords, Stages
    <2>2. job'[j] = r /\ job' = [job EXCEPT ![j] = r]
      BY <1>1, <1>2, <1>4 DEF Types
    <2> HIDE DEF r
    <2>3. RunFits(j)'
      BY <1>2, <2>1, <2>2 DEF RunFits, Behind, Unreviewed, OwnIsOurs, KnowsPolicy, Confirmed
    <2> QED BY <1>2, <1>3, <2>1, <2>2, <2>3, OneRecord
  <1>5. CASE ~ok
    <2>1. job' = [job EXCEPT ![j] = Failed(j)]
      BY <1>1, <1>5
    <2> QED BY <1>2, <1>3, <2>1, Fails
  <1> QED BY <1>4, <1>5

\* What GitHub shows of a run: the posts of this login, from some post before it on.
Shown(own, checked) ==
    OutcomeFromOwnPosts(
        [checked |-> checked,
         reviews |-> {pr.posts[i].state : i \in {i \in own : pr.posts[i].state # "ISSUE"}},
         comments |-> Cardinality({i \in own : pr.posts[i].state = "ISSUE"})])

LEMMA ShownIs ==
  ASSUME NEW own, NEW checked \in BOOLEAN
  PROVE  Shown(own, checked) =
             IF ~checked THEN None
             ELSE IF \E i \in own : pr.posts[i].state = "APPROVED" THEN "approved"
             ELSE IF \E i \in own : pr.posts[i].state = "CHANGES_REQUESTED" THEN "changes_requested"
             ELSE IF \/ \E i \in own : pr.posts[i].state = "COMMENTED"
                     \/ Cardinality({i \in own : pr.posts[i].state = "ISSUE"}) > 0
                  THEN "commented"
             ELSE "no_new_findings"
  <1> DEFINE states == {pr.posts[i].state : i \in {i \in own : pr.posts[i].state # "ISSUE"}}
             issues == Cardinality({i \in own : pr.posts[i].state = "ISSUE"})
  <1>1. ASSUME NEW s \in {"APPROVED", "CHANGES_REQUESTED", "COMMENTED"}
        PROVE  s \in states <=> \E i \in own : pr.posts[i].state = s
    OBVIOUS
  <1> HIDE DEF states, issues
  <1>2. /\ "APPROVED" \in states <=> \E i \in own : pr.posts[i].state = "APPROVED"
        /\ "CHANGES_REQUESTED" \in states <=> \E i \in own : pr.posts[i].state = "CHANGES_REQUESTED"
        /\ "COMMENTED" \in states <=> \E i \in own : pr.posts[i].state = "COMMENTED"
    BY <1>1
  <1>3. Shown(own, checked) =
            IF ~checked THEN None
            ELSE IF "APPROVED" \in states THEN "approved"
            ELSE IF "CHANGES_REQUESTED" \in states THEN "changes_requested"
            ELSE IF "COMMENTED" \in states \/ issues > 0 THEN "commented"
            ELSE "no_new_findings"
    BY DEF Shown, OutcomeFromOwnPosts, states, issues
  <1> QED BY <1>2, <1>3 DEF issues

LEMMA SettleIs ==
  ASSUME Types, NEW j \in Jobs, Settle(j)
  PROVE  \E checked \in BOOLEAN, from \in 0..job[j].since :
             job' = [job EXCEPT ![j] = Settled(j, Shown(OwnPostsSince(j, from), checked))]
  BY DEF Settle, Shown

LEMMA SettleStep == ASSUME IInv, NEW j \in Jobs, Settle(j) PROVE IInv'
  <1>1. /\ Types /\ RunFits(j) /\ job[j] \in JobRecords
        /\ pr' = pr /\ ask' = ask /\ runs' = runs /\ cast' = cast
    BY DEF IInv, Types, Settle
  <1>2. pr' \in Prs /\ pr'.acts <= cast.acts /\ ask' \in Asks /\ runs' \in 0..MaxRuns /\ GoesOn
    BY <1>1, NothingHappens DEF Types
  <1>3. PICK checked \in BOOLEAN, from \in 0..job[j].since :
             job' = [job EXCEPT ![j] = Settled(j, Shown(OwnPostsSince(j, from), checked))]
    BY <1>1, SettleIs
  <1> DEFINE own == OwnPostsSince(j, from)
             outcome == Shown(own, checked)
             r == Settled(j, outcome)
  <1>4. outcome \in Outcomes \cup {None}
    BY ShownIs DEF Outcomes
  <1>5. outcome = "approved" => HostApproved
    <2>1. ASSUME outcome = "approved" PROVE \E i \in own : pr.posts[i].state = "APPROVED"
      <3>1. "approved" \in Outcomes
        BY DEF Outcomes
      <3>2. "approved" # None
        BY <3>1, Constants
      <3> HIDE DEF own
      <3> QED BY <2>1, <3>2, ShownIs
    <2>2. ASSUME NEW i \in own PROVE i \in 1..Len(pr.posts) /\ pr.posts[i].author = Host
      BY <1>1, LenProperties DEF OwnPostsSince, Types, Prs
    <2> QED BY <2>1, <2>2 DEF HostApproved
  <1> HIDE DEF own, outcome
  <1>6. SettledOutcome(j, outcome) \in Outcomes \cup {None, "skipped"}
    BY <1>1, <1>4 DEF SettledOutcome, JobRecords, Outcomes
  <1>7. outcome # None => SettledOutcome(j, outcome) = outcome
    BY DEF SettledOutcome
  <1>8. r \in JobRecords
    BY <1>1, <1>6, EndedTyped DEF Settled
  <1>9. job' = [job EXCEPT ![j] = r] /\ job'[j] = r
    BY <1>1, <1>3 DEF Types, own, outcome
  <1>10. RunFits(j)'
    <2>1. /\ r.stage = "done" /\ r.own = 0 /\ r.head = 0 /\ r.looked = 0 /\ r.since = 0
          /\ r.outcome = SettledOutcome(j, outcome)
      BY DEF Settled, Ended
    <2>2. r.verified => outcome # None
      BY DEF Settled, Ended
    <2> HIDE DEF r
    <2>3. job'[j].verified /\ job'[j].outcome = "approved" => HostApproved
      BY <1>5, <1>7, <1>9, <2>1, <2>2
    <2> QED BY <1>1, <1>9, <2>1, <2>3, OverFits
  <1> HIDE DEF r
  <1> QED BY <1>1, <1>2, <1>8, <1>9, <1>10, OneRecord

-----------------------------------------------------------------------------
(* Everybody else.                                                         *)

LEMMA NoRecord ==
  ASSUME IInv, pr' \in Prs, pr'.acts <= cast.acts, GoesOn, ask' \in Asks, runs' \in 0..MaxRuns, cast' = cast,
         job' = job
  PROVE  IInv'
  <1>1. Types'
    BY DEF IInv, Types
  <1>2. PostsFit'
    BY PostsStayFit DEF IInv
  <1>3. \A k \in Jobs : RunFits(k)'
    BY RunStaysFit DEF IInv
  <1> QED BY <1>1, <1>2, <1>3 DEF IInv

LEMMA AskReadsIs ==
  ASSUME Types, AskReads
  PROVE  ask' \in Asks
  <1>1. PICK ok \in BOOLEAN :
           ask' = IF AssessForcedApproval(FetchApprovalSignals(ok), Host) = "CLEAR"
                  THEN [stage |-> "cleared", job |-> ask.job, posts |-> Len(pr.posts), thread |-> pr.thread]
                  ELSE [stage |-> "refused", answered |-> ok]
    BY DEF AskReads
  <1>2. ask.job \in Jobs /\ Len(pr.posts) \in Nat /\ pr.thread \in Threads
    BY LenProperties DEF Types, Asks, Prs, AskReads
  <1> QED BY <1>1, <1>2 DEF Asks

LEMMA ApproveLandsStep == ASSUME IInv, ApproveLands PROVE IInv'
  <1>0. ask.job \in Jobs
    BY DEF IInv, Types, Asks, ApproveLands
  <1>j. PICK j \in Jobs : j = ask.job
    BY <1>0
  <1> DEFINE post == Post(Host, "APPROVED", AllClear)
             r == [job[j] EXCEPT !.outcome = "approved"]
  <1>1. /\ Types /\ PostsFit /\ runs' = runs /\ cast' = cast
        /\ ask' \in Asks
    BY DEF IInv, Types, Asks, ApproveLands
  <1>2. /\ pr \in Prs /\ pr.acts \in Nat /\ pr.acts <= cast.acts /\ pr.head \in Nat /\ Len(pr.posts) \in Nat
    BY <1>1, Constants, LenProperties DEF Types, Prs
  <1>3. post \in Posts /\ post.commit = pr.head /\ post.state = "APPROVED" /\ post.author = Host
    BY <1>2, PostTyped DEF ReviewStates, Texts
  <1>4. pr' = [pr EXCEPT !.posts = Append(@, post), !.acts = pr.acts]
    BY <1>2 DEF ApproveLands, Prs
  <1> HIDE DEF post
  <1>5. /\ pr' \in Prs /\ pr'.acts <= cast.acts /\ GoesOn
        /\ Len(pr'.posts) = Len(pr.posts) + 1 /\ pr'.posts[Len(pr.posts) + 1] = post
    BY <1>2, <1>3, <1>4, Posted
  <1>6. HostApproved'
    <2>1. Len(pr.posts) + 1 \in 1..Len(pr'.posts)
      BY <1>2, <1>5
    <2> QED BY <1>3, <1>5, <2>1 DEF HostApproved
  <1>7. /\ job \in [Jobs -> JobRecords] /\ job[j] \in JobRecords /\ RunFits(j)
        /\ job' = [job EXCEPT ![j] = r]
    BY <1>1, <1>j DEF IInv, Types, ApproveLands
  <1>8. /\ r \in JobRecords /\ r.stage = job[j].stage /\ r.own = job[j].own /\ r.head = job[j].head
        /\ r.looked = job[j].looked /\ r.since = job[j].since /\ r.prompt = job[j].prompt
        /\ r.sound = job[j].sound /\ r.verify = job[j].verify
    BY <1>7 DEF JobRecords, Outcomes
  <1>9. job'[j] = r
    BY <1>1, <1>7
  <1> HIDE DEF r
  <1>10. RunFits(j)'
    <2>1. Confirmed(j)'
      BY <1>6 DEF Confirmed
    <2> QED BY <1>1, <1>5, <1>7, <1>8, <1>9, <2>1, RunKeepsFit
  <1>11. runs' \in 0..MaxRuns
    BY <1>1 DEF Types
  <1> QED BY <1>1, <1>5, <1>7, <1>8, <1>10, <1>11, OneRecord

LEMMA Initially == Init => IInv
  <1> SUFFICES ASSUME Init PROVE IInv
    OBVIOUS
  <1>1. pr \in Prs /\ pr.acts <= cast.acts /\ pr.posts = <<>> /\ pr.head = 1
    <2>1. cast.acts \in Nat
      BY Constants DEF Init
    <2>2. <<>> \in Seq(Posts) /\ <<>> \in Seq(Texts) /\ 1 \in 1..MaxHead
      BY Constants
    <2> QED BY <2>1, <2>2 DEF Init, Prs, Threads
  <1>2. job \in [Jobs -> JobRecords]
    BY Constants DEF Init, JobRecords, Stages, Prompts
  <1>3. ask \in Asks /\ runs \in 0..MaxRuns /\ cast \in Casts
    BY Constants DEF Init, Asks
  <1>4. PostsFit
    BY <1>1 DEF PostsFit
  <1>5. ASSUME NEW j \in Jobs PROVE RunFits(j)
    <2>1. job[j].stage = "none" /\ job[j].own = 0 /\ job[j].head = 0 /\ job[j].looked = 0 /\ job[j].since = 0
      BY DEF Init
    <2> QED BY <1>1, <2>1 DEF RunFits, Behind, Unreviewed, OwnIsOurs, KnowsPolicy, Confirmed
  <1> QED BY <1>1, <1>2, <1>3, <1>4, <1>5 DEF IInv, Types

LEMMA Inductive == IInv /\ [Next]_vars => IInv'
  <1> SUFFICES ASSUME IInv, [Next]_vars PROVE IInv'
    OBVIOUS
  <1>0. /\ Types /\ pr \in Prs /\ pr.acts <= cast.acts /\ ask \in Asks /\ runs \in 0..MaxRuns
    BY DEF IInv, Types
  <1>1. CASE GithubSteps
    BY <1>0, <1>1, GithubGoesOn, NoRecord DEF GithubSteps
  <1>2. ASSUME NEW j \in Jobs, RunStep(j) PROVE IInv'
    BY <1>2, ReadPrStep, SpawnStep, AgentPostsStep, AgentExitsStep, SettleStep DEF RunStep
  <1>3. CASE Ask
    <2>1. /\ ask' \in Asks /\ pr' = pr /\ job' = job /\ runs' = runs /\ cast' = cast
      BY <1>3 DEF Ask, Asks
    <2> QED BY <1>0, <2>1, NothingHappens, NoRecord
  <1>4. CASE AskReads
    BY <1>0, <1>4, AskReadsIs, NothingHappens, NoRecord DEF AskReads
  <1>5. CASE ApproveLands
    BY <1>5, ApproveLandsStep
  <1>6. CASE ApproveFails
    <2>1. /\ ask' \in Asks /\ pr' = pr /\ job' = job /\ runs' = runs /\ cast' = cast
      BY <1>6 DEF ApproveFails, Asks
    <2> QED BY <1>0, <2>1, NothingHappens, NoRecord
  <1>7. CASE UNCHANGED vars
    BY <1>0, <1>7, NothingHappens, NoRecord DEF vars
  <1> QED BY <1>1, <1>2, <1>3, <1>4, <1>5, <1>6, <1>7 DEF Next

LEMMA Always == Spec => []IInv
  <1> QED BY Initially, Inductive, PTL DEF Spec

-----------------------------------------------------------------------------
(* What follows.                                                           *)

\* What a review that ended well shows as confirmed by GitHub is there
\* (settleOutcome, the approve route), however often it ran and whoever acts
\* beside it.
THEOREM ConfirmedApprovalsArePosted == Spec => []ConfirmedIsPosted
  <1>1. IInv => ConfirmedIsPosted
    <2> SUFFICES ASSUME IInv, NEW j \in Jobs, job[j].stage = "done", job[j].verified, job[j].outcome = "approved"
                 PROVE  \E p \in ToSet(pr.posts) : p.author = Host /\ p.state \in {"APPROVED", "DISMISSED"}
      BY AllTyped DEF IInv, ConfirmedIsPosted
    <2>1. PICK i \in 1..Len(pr.posts) : pr.posts[i].author = Host /\ pr.posts[i].state \in {"APPROVED", "DISMISSED"}
      BY DEF IInv, RunFits, Confirmed, HostApproved
    <2>2. pr.posts[i] \in ToSet(pr.posts)
      BY <2>1, LenProperties DEF ToSet, IInv, Types, Prs
    <2> QED BY <2>1, <2>2
  <1> QED BY <1>1, Always, PTL

\* Only its agent gives a run a post.
LEMMA OnlyAgentsPost ==
  ASSUME IInv, [Next]_vars, NEW j \in Jobs, job[j].own = 0, job'[j].own # 0
  PROVE  AgentPosts(j)
  <1>1. job \in [Jobs -> JobRecords] /\ \A k \in Jobs : job[k] \in JobRecords
    BY DEF IInv, Types
  <1>2. ASSUME job' = job PROVE FALSE
    BY <1>2
  <1>3. ASSUME NEW k \in Jobs, RunStep(k), k # j PROVE FALSE
    <2>1. job'[j] = job[j]
      BY <1>1, <1>3 DEF RunStep, ReadPr, Spawn, AgentPosts, AgentExits, Settle
    <2> QED BY <2>1
  <1>4. ASSUME ReadPr(j) PROVE FALSE
    <2> DEFINE verify == job[j].stage # "none"
               skipped(outcome) == Ended(j, "skipped", outcome, job[j].verified)
               read(self) == [job[j] EXCEPT !.stage = "read", !.verify = verify, !.head = pr.head,
                                            !.looked = IF verify \/ self = None THEN 0 ELSE Len(pr.posts)]
    <2>1. \/ job' = [job EXCEPT ![j] = skipped("skipped")]
          \/ job' = [job EXCEPT ![j] = Failed(j)]
          \/ \E self \in {Host, None} :
                 job' = [job EXCEPT ![j] = IF PreFlight(j, verify, self)
                                           THEN skipped(SkippedOutcome(Reviews, pr.head, self)) ELSE read(self)]
      BY <1>4 DEF ReadPr
    <2>2. \A outcome : skipped(outcome).own = 0
      BY DEF Ended
    <2>3. Failed(j).own = 0
      BY DEF Failed, Ended
    <2>4. ASSUME NEW self PROVE read(self).own = job[j].own
      BY <1>1 DEF JobRecords
    <2> HIDE DEF skipped, read, verify
    <2>5. PICK r : job' = [job EXCEPT ![j] = r] /\ (r.own = 0 \/ r.own = job[j].own)
      BY <2>1, <2>2, <2>3, <2>4
    <2> QED BY <1>1, <2>5
  <1>5. ASSUME Spawn(j) PROVE FALSE
    <2>1. job'[j].own = job[j].own
      BY <1>1, <1>5 DEF Spawn, JobRecords
    <2> QED BY <2>1
  <1>6. ASSUME AgentExits(j) PROVE FALSE
    <2>1. job'[j].own = 0 \/ job'[j].own = job[j].own
      BY <1>1, <1>6 DEF AgentExits, Failed, Ended, JobRecords
    <2> QED BY <2>1
  <1>7. ASSUME Settle(j) PROVE FALSE
    <2>1. job'[j].own = 0
      BY <1>1, <1>7 DEF Settle, Settled, Ended
    <2> QED BY <2>1
  <1>8. ASSUME ApproveLands PROVE FALSE
    <2>1. job'[j].own = job[j].own
      BY <1>1, <1>8 DEF ApproveLands, JobRecords
    <2> QED BY <2>1
  <1> QED BY <1>2, <1>3, <1>4, <1>5, <1>6, <1>7, <1>8
          DEF Next, RunStep, GithubSteps, Ask, AskReads, ApproveFails, vars

LEMMA AgentsPost ==
  ASSUME IInv, NEW j \in Jobs, AgentPosts(j), job'[j].own # 0
  PROVE  /\ job[j].stage = "agent"
         /\ \E app \in Appraisals, cmd \in Commands :
               /\ cmd.verb \in Allowed(job[j].prompt, app)
               /\ pr'.posts[job'[j].own] = Post(Host, PostState(cmd),
                      IF app.findings = {} \/ cmd.form = "comment" THEN AllClear ELSE Finding)
  <1>1. PICK app \in Appraisals, cmd \in {k \in Commands : k.form = "comment" => k.verb = "comment"},
             landed \in BOOLEAN :
           /\ cmd.verb \in Allowed(job[j].prompt, app)
           /\ job' = [job EXCEPT ![j] =
                         [@ EXCEPT !.stage = "posted", !.own = IF landed THEN Len(pr.posts) + 1 ELSE 0,
                                   !.outcome = IF DetectOutcome(cmd) = None THEN job[j].outcome ELSE DetectOutcome(cmd)]]
           /\ pr' = IF ~landed THEN pr
                    ELSE [pr EXCEPT !.posts = Append(@,
                             Post(Host, PostState(cmd),
                                  IF app.findings = {} \/ cmd.form = "comment" THEN AllClear ELSE Finding))]
    BY DEF AgentPosts
  <1> DEFINE text == IF app.findings = {} \/ cmd.form = "comment" THEN AllClear ELSE Finding
             post == Post(Host, PostState(cmd), text)
  <1>2. pr \in Prs /\ Len(pr.posts) \in Nat /\ pr.posts \in Seq(Posts) /\ pr.head \in Nat
        /\ job \in [Jobs -> JobRecords] /\ job[j] \in JobRecords
    BY Constants, LenProperties DEF IInv, Types, Prs
  <1>3. job'[j].own = IF landed THEN Len(pr.posts) + 1 ELSE 0
    BY <1>1, <1>2 DEF JobRecords
  <1>4. landed /\ job'[j].own = Len(pr.posts) + 1
    BY <1>3
  <1>5. pr' = [pr EXCEPT !.posts = Append(@, post)]
    BY <1>1, <1>4
  <1>6. post \in Posts
    <2>1. text \in Texts /\ PostState(cmd) \in ReviewStates \cup {"ISSUE"}
      BY DEF Texts, PostState, ReviewStates
    <2> HIDE DEF text
    <2> QED BY <1>2, <2>1, PostTyped
  <1>7. pr'.posts[job'[j].own] = post
    <2> HIDE DEF post
    <2> QED BY <1>2, <1>4, <1>5, <1>6, AppendProperties DEF Prs
  <1> QED BY <1>1, <1>7 DEF AgentPosts

\* An approval posted by a run is backed by CI of the commit it read, stands on
\* that commit or a later one, and holds no finding, whatever CI showed, however
\* the agent appraised the change and whoever pushed meanwhile (applyCiGate,
\* approvalBlock, buildVerifyPrompt).
THEOREM AutoApprovalsAreVerified == Spec => AutoApprovalIsVerified
  <1>1. ASSUME IInv, [Next]_vars, NEW j \in Jobs, job[j].own = 0, job'[j].own # 0,
               pr'.posts[job'[j].own].state = "APPROVED"
        PROVE  LET post == pr'.posts[job'[j].own]
               IN  job[j].sound /\ job[j].head <= post.commit /\ post.text # Finding
    <2>1. AgentPosts(j)
      BY <1>1, OnlyAgentsPost
    <2>2. PICK app \in Appraisals, cmd \in Commands :
               /\ cmd.verb \in Allowed(job[j].prompt, app)
               /\ pr'.posts[job'[j].own] = Post(Host, PostState(cmd),
                      IF app.findings = {} \/ cmd.form = "comment" THEN AllClear ELSE Finding)
      BY <1>1, <2>1, AgentsPost
    <2>3. job[j].stage = "agent" /\ RunFits(j)
      BY <1>1, <2>1 DEF IInv, AgentPosts
    <2>4. cmd.verb = "approve"
      BY <1>1, <2>2 DEF Post, PostState
    <2>5. job[j].sound /\ app.findings = {}
      BY <2>2, <2>3, <2>4 DEF RunFits, KnowsPolicy
    <2>6. pr'.posts[job'[j].own].text = AllClear /\ pr'.posts[job'[j].own].commit = pr.head
      BY <2>2, <2>5 DEF Post
    <2> QED BY <2>3, <2>5, <2>6, TextsDiffer DEF RunFits, Behind
  <1>2. IInv /\ [Next]_vars =>
            [\A j \in Jobs :
                job[j].own = 0 /\ job'[j].own # 0 =>
                    LET post == pr'.posts[job'[j].own]
                    IN  post.state = "APPROVED" =>
                            job[j].sound /\ job[j].head <= post.commit /\ post.text # Finding]_vars
    BY <1>1
  <1> QED BY <1>2, Always, PTL DEF Spec, AutoApprovalIsVerified

\* A first pass does not post on a commit where it could see that this host had
\* reviewed it, for any number of runs side by side (runReviewJob's pre-flight).
THEOREM CommitsAreReviewedOnce == Spec => OncePerCommit
  <1>1. ASSUME IInv, [Next]_vars, NEW j \in Jobs, job[j].own = 0, job'[j].own # 0, ~job[j].verify,
               NEW i \in 1..job[j].looked
        PROVE  ~ /\ pr.posts[i].author = Host /\ pr.posts[i].commit = job[j].head
                 /\ pr.posts[i].state \in {"COMMENTED", "APPROVED", "CHANGES_REQUESTED"}
    <2>1. AgentPosts(j)
      BY <1>1, OnlyAgentsPost
    <2>2. job[j].stage = "agent" /\ RunFits(j)
      BY <1>1, <2>1 DEF IInv, AgentPosts
    <2> QED BY <1>1, <2>2 DEF RunFits, Unreviewed, IsReview
  <1>2. IInv /\ [Next]_vars =>
            [\A j \in Jobs :
                job[j].own = 0 /\ job'[j].own # 0 /\ ~job[j].verify =>
                    \A i \in 1..job[j].looked :
                        ~ /\ pr.posts[i].author = Host /\ pr.posts[i].commit = job[j].head
                          /\ pr.posts[i].state \in {"COMMENTED", "APPROVED", "CHANGES_REQUESTED"}]_vars
    BY <1>1
  <1> QED BY <1>2, Always, PTL DEF Spec, OncePerCommit

LEMMA OnlySettlingEnds ==
  ASSUME IInv, [Next]_vars, NEW j \in Jobs, job[j].stage = "exited", job'[j].stage = "done"
  PROVE  Settle(j)
  <1>1. job \in [Jobs -> JobRecords] /\ \A k \in Jobs : job[k] \in JobRecords
    BY DEF IInv, Types
  <1>2. ASSUME NEW k \in Jobs, RunStep(k), k # j PROVE FALSE
    <2>1. job'[j] = job[j]
      BY <1>1, <1>2 DEF RunStep, ReadPr, Spawn, AgentPosts, AgentExits, Settle
    <2> QED BY <2>1
  <1>3. ASSUME ApproveLands PROVE FALSE
    <2>1. job'[j].stage = job[j].stage
      BY <1>1, <1>3 DEF ApproveLands, JobRecords
    <2> QED BY <2>1
  <1> QED BY <1>2, <1>3
          DEF Next, RunStep, ReadPr, Spawn, AgentPosts, AgentExits, GithubSteps, Ask, AskReads, ApproveFails, vars

ClaimOf(p) ==
    CASE p.state = "APPROVED" -> 3 [] p.state = "CHANGES_REQUESTED" -> 2
      [] p.state \in {"COMMENTED", "ISSUE"} -> 1 [] OTHER -> 0

\* The strongest of what was posted is no weaker than any of it, and was posted.
LEMMA StrongestIsShown ==
  ASSUME Types, NEW own \in SUBSET (1..Len(pr.posts)), NEW checked \in BOOLEAN, Shown(own, checked) # None
  PROVE  /\ \A i \in own : ClaimOf(pr.posts[i]) <= Claim[Shown(own, checked)]
         /\ \/ Shown(own, checked) = "no_new_findings"
            \/ \E i \in own : ClaimOf(pr.posts[i]) = Claim[Shown(own, checked)]
  <1> DEFINE outcome == Shown(own, checked)
             has(s) == \E i \in own : pr.posts[i].state = s
             issues == {i \in own : pr.posts[i].state = "ISSUE"}
  <1>1. Cardinality(issues) > 0 <=> has("ISSUE")
    <2>1. IsFiniteSet(issues) /\ Cardinality(issues) \in Nat
      <3>1. Len(pr.posts) \in Nat
        BY LenProperties DEF Types, Prs
      <3>2. IsFiniteSet(1..Len(pr.posts))
        BY <3>1, FS_Interval
      <3>3. issues \in SUBSET (1..Len(pr.posts))
        OBVIOUS
      <3> QED BY <3>2, <3>3, FS_Subset, FS_CardinalityType
    <2>2. Cardinality(issues) = 0 <=> issues = {}
      BY <2>1, FS_EmptySet
    <2>3. issues = {} <=> ~has("ISSUE")
      OBVIOUS
    <2> HIDE DEF issues, has
    <2> QED BY <2>1, <2>2, <2>3
  <1>2. outcome = IF has("APPROVED") THEN "approved"
                  ELSE IF has("CHANGES_REQUESTED") THEN "changes_requested"
                  ELSE IF has("COMMENTED") \/ has("ISSUE") THEN "commented" ELSE "no_new_findings"
    <2> HIDE DEF issues
    <2>1. checked
      BY ShownIs
    <2> QED BY <1>1, <2>1, ShownIs DEF issues
  <1>3. /\ Claim["approved"] = 3 /\ Claim["changes_requested"] = 2
        /\ Claim["commented"] = 1 /\ Claim["no_new_findings"] = 0
    BY DEF Claim
  <1>4. \A p : ClaimOf(p) \in {0, 1, 2, 3}
    BY DEF ClaimOf
  <1>5. \A i \in own : ClaimOf(pr.posts[i]) =
            IF pr.posts[i].state = "APPROVED" THEN 3 ELSE IF pr.posts[i].state = "CHANGES_REQUESTED" THEN 2
            ELSE IF pr.posts[i].state \in {"COMMENTED", "ISSUE"} THEN 1 ELSE 0
    BY DEF ClaimOf
  <1> HIDE DEF outcome
  <1>6. ASSUME NEW i \in own PROVE ClaimOf(pr.posts[i]) <= Claim[outcome]
    <2>1. CASE has("APPROVED")
      BY <1>2, <1>3, <1>5, <2>1
    <2>2. CASE ~has("APPROVED") /\ has("CHANGES_REQUESTED")
      BY <1>2, <1>3, <1>5, <2>2
    <2>3. CASE ~has("APPROVED") /\ ~has("CHANGES_REQUESTED")
      <3>1. pr.posts[i].state # "APPROVED" /\ pr.posts[i].state # "CHANGES_REQUESTED"
        BY <2>3
      <3>2. CASE pr.posts[i].state \in {"COMMENTED", "ISSUE"}
        <4>1. outcome = "commented"
          BY <1>2, <2>3, <3>2
        <4> QED BY <1>3, <1>5, <3>1, <4>1
      <3>3. CASE pr.posts[i].state \notin {"COMMENTED", "ISSUE"}
        <4>1. ClaimOf(pr.posts[i]) = 0
          BY <1>5, <3>1, <3>3
        <4> QED BY <1>2, <1>3, <2>3, <4>1
      <3> QED BY <3>2, <3>3
    <2> QED BY <2>1, <2>2, <2>3
  <1>7. outcome = "no_new_findings" \/ \E i \in own : ClaimOf(pr.posts[i]) = Claim[outcome]
    <2>1. CASE has("APPROVED")
      BY <1>2, <1>3, <1>5, <2>1
    <2>2. CASE ~has("APPROVED") /\ has("CHANGES_REQUESTED")
      BY <1>2, <1>3, <1>5, <2>2
    <2>3. CASE ~has("APPROVED") /\ ~has("CHANGES_REQUESTED") /\ (has("COMMENTED") \/ has("ISSUE"))
      <3>1. PICK i \in own : pr.posts[i].state \in {"COMMENTED", "ISSUE"}
        BY <2>3
      <3>2. outcome = "commented"
        BY <1>2, <2>3
      <3>3. ClaimOf(pr.posts[i]) = 1
        BY <1>5, <3>1
      <3> QED BY <1>3, <3>1, <3>2, <3>3
    <2>4. CASE ~has("APPROVED") /\ ~has("CHANGES_REQUESTED") /\ ~has("COMMENTED") /\ ~has("ISSUE")
      BY <1>2, <2>4
    <2> QED BY <2>1, <2>2, <2>3, <2>4
  <1> QED BY <1>6, <1>7 DEF outcome

\* An outcome GitHub confirmed understates nothing the run posted and claims
\* nothing this login has not posted, in whatever order agent, owner and GitHub
\* act (settleOutcome, outcomeFromOwnPosts).
THEOREM ConfirmedOutcomesAreHonest == Spec => OutcomeIsHonest
  <1>1. ASSUME IInv, [Next]_vars, NEW j \in Jobs,
               job[j].stage = "exited", job'[j].stage = "done", job'[j].verified
        PROVE  /\ job[j].own # 0 => ClaimOf(pr.posts[job[j].own]) <= Claim[job'[j].outcome]
               /\ \/ job'[j].outcome = "no_new_findings"
                  \/ \E p \in {p \in ToSet(pr.posts) : p.author = Host} : ClaimOf(p) = Claim[job'[j].outcome]
    <2>1. Types /\ RunFits(j) /\ job \in [Jobs -> JobRecords] /\ job[j] \in JobRecords
          /\ Len(pr.posts) \in Nat /\ DOMAIN pr.posts = 1..Len(pr.posts)
      BY <1>1, LenProperties DEF IInv, Types, Prs
    <2>2. Settle(j)
      BY <1>1, OnlySettlingEnds
    <2>3. PICK checked \in BOOLEAN, from \in 0..job[j].since :
             job' = [job EXCEPT ![j] = Settled(j, Shown(OwnPostsSince(j, from), checked))]
      BY <2>1, <2>2, SettleIs
    <2> DEFINE own == OwnPostsSince(j, from)
               outcome == Shown(own, checked)
    <2>4. job'[j] = Settled(j, outcome)
      BY <2>1, <2>3
    <2> HIDE DEF outcome
    <2>5. outcome # None
      <3>1. job'[j].verified = (outcome # None)
        BY <2>4 DEF Settled, Ended
      <3> QED BY <1>1, <3>1
    <2>6. job'[j].outcome = outcome
      BY <2>4, <2>5 DEF Settled, Ended, SettledOutcome
    <2>7. own \in SUBSET (1..Len(pr.posts)) /\ \A i \in own : pr.posts[i].author = Host /\ pr.posts[i] \in ToSet(pr.posts)
      BY <2>1 DEF OwnPostsSince, ToSet
    <2>8. job[j].own # 0 => job[j].own \in own
      BY <2>1 DEF RunFits, OwnIsOurs, OwnPostsSince, JobRecords
    <2> HIDE DEF own
    <2>9. /\ \A i \in own : ClaimOf(pr.posts[i]) <= Claim[outcome]
          /\ \/ outcome = "no_new_findings"
             \/ \E i \in own : ClaimOf(pr.posts[i]) = Claim[outcome]
      BY <2>1, <2>5, <2>7, StrongestIsShown DEF outcome
    <2> QED BY <2>6, <2>7, <2>8, <2>9
  <1>2. IInv /\ [Next]_vars =>
            [\A j \in Jobs :
                job[j].stage = "exited" /\ job'[j].stage = "done" /\ job'[j].verified =>
                    LET claim(p) == CASE p.state = "APPROVED" -> 3 [] p.state = "CHANGES_REQUESTED" -> 2
                                      [] p.state \in {"COMMENTED", "ISSUE"} -> 1 [] OTHER -> 0
                        ours == {p \in ToSet(pr.posts) : p.author = Host}
                    IN  /\ job[j].own # 0 => claim(pr.posts[job[j].own]) <= Claim[job'[j].outcome]
                        /\ \/ job'[j].outcome = "no_new_findings"
                           \/ \E p \in ours : claim(p) = Claim[job'[j].outcome]]_vars
    BY <1>1 DEF ClaimOf
  <1> QED BY <1>2, Always, PTL DEF Spec, OutcomeIsHonest

-----------------------------------------------------------------------------
(* The owner's approval: what the gate makes of what it reads.             *)

LEMMA LeastOfSome ==
  ASSUME NEW S \in SUBSET (1..5), S # {}
  PROVE  Min(S) \in S
  <1>1. \E x \in S : \A y \in S : x <= y
    <2>1. CASE 1 \in S
      BY <2>1
    <2>2. CASE 1 \notin S /\ 2 \in S
      BY <2>2
    <2>3. CASE 1 \notin S /\ 2 \notin S /\ 3 \in S
      BY <2>3
    <2>4. CASE 1 \notin S /\ 2 \notin S /\ 3 \notin S /\ 4 \in S
      BY <2>4
    <2>5. CASE 1 \notin S /\ 2 \notin S /\ 3 \notin S /\ 4 \notin S
      <3>1. \A x \in S : x \in 1..5 /\ x # 1 /\ x # 2 /\ x # 3 /\ x # 4
        BY <2>5
      <3>2. \A x \in S : x = 5
        BY <3>1
      <3>3. PICK x \in S : TRUE
        OBVIOUS
      <3> QED BY <3>2, <3>3
    <2> QED BY <2>1, <2>2, <2>3, <2>4, <2>5
  <1> QED BY <1>1 DEF Min

LEMMA LeastOfTwo ==
  ASSUME NEW a \in Nat, NEW b \in Nat
  PROVE  Min({a, b}) = IF a <= b THEN a ELSE b
  <1>1. \E x \in {a, b} : \A y \in {a, b} : x <= y
    <2>1. CASE a <= b
      BY <2>1
    <2>2. CASE b <= a
      BY <2>2
    <2> QED BY <2>1, <2>2
  <1>2. Min({a, b}) \in {a, b} /\ \A y \in {a, b} : Min({a, b}) <= y
    BY <1>1 DEF Min
  <1> QED BY <1>2

\* A finding is critical, also beside a denial; a denial and quoted code are not.
LEMMA FindingIsCritical == ClassifySeverity(Finding) = "critical"
  <1> DEFINE line == Both("critical")
             unit == [level |-> "critical", negated |-> FALSE]
  <1>1. /\ Len(Finding) = 1 /\ DOMAIN Finding = {1} /\ Finding[1] = line /\ ~line.fence
    BY DEF Finding, Both
  <1>2. ~InFence(Finding, 1)
    <2>1. {k \in 1..1 : Finding[k].fence} = {}
      BY <1>1
    <2>2. Cardinality({k \in 1..1 : Finding[k].fence}) = 0
      BY <2>1, FS_EmptySet
    <2> QED BY <2>2 DEF InFence
  <1>3. unit \in ToSet(line.units)
    <2>1. Denies("critical").units = <<[level |-> "critical", negated |-> TRUE]>> /\ Says("critical").units = <<unit>>
      BY DEF Denies, Says
    <2>2. line.units = <<[level |-> "critical", negated |-> TRUE]>> \o <<unit>>
      BY <2>1 DEF Both
    <2> HIDE DEF unit, line
    <2>3. DOMAIN line.units = 1..2 /\ line.units[2] = unit
      BY <2>2
    <2> QED BY <2>3 DEF ToSet
  <1> HIDE DEF line
  <1>4. unit \in Units(Finding)
    BY <1>1, <1>2, <1>3 DEF Units
  <1>5. "critical" \in {u.level : u \in {u \in Units(Finding) : ~u.negated}}
    BY <1>4
  <1> QED BY <1>5 DEF ClassifySeverity, Worst

LEMMA DenialIsNone == ClassifySeverity(AllClear) = "none"
  <1>1. /\ DOMAIN AllClear = {1} /\ AllClear[1] = Denies("critical")
    BY DEF AllClear
  <1>2. ToSet(Denies("critical").units) = {[level |-> "critical", negated |-> TRUE]}
    <2> DEFINE unit == [level |-> "critical", negated |-> TRUE]
    <2>1. Denies("critical").units = <<unit>>
      BY DEF Denies
    <2> HIDE DEF unit
    <2>2. ToSet(<<unit>>) = {unit}
      BY DEF ToSet
    <2> QED BY <2>1, <2>2 DEF unit
  <1>3. \A u \in Units(AllClear) : u.negated
    BY <1>1, <1>2 DEF Units
  <1>4. {u.level : u \in {u \in Units(AllClear) : ~u.negated}} = {}
    BY <1>3
  <1> QED BY <1>4 DEF ClassifySeverity, Worst

LEMMA QuoteIsNone == ClassifySeverity(Snippet) = "none"
  <1>1. /\ DOMAIN Snippet = 1..3 /\ Snippet[1] = Fence /\ Snippet[2] = Says("critical") /\ Snippet[3] = Fence
    BY DEF Snippet
  <1>2. Fence.fence /\ ~Says("critical").fence
    BY DEF Fence, Says
  <1>3. InFence(Snippet, 2)
    <2>1. {k \in 1..2 : Snippet[k].fence} = {1}
      BY <1>1, <1>2
    <2>2. Cardinality({1}) = 1
      BY FS_Singleton
    <2> QED BY <2>1, <2>2 DEF InFence
  <1>4. {i \in DOMAIN Snippet : ~Snippet[i].fence /\ ~InFence(Snippet, i)} = {}
    BY <1>1, <1>2, <1>3
  <1>5. Units(Snippet) = {}
    BY <1>4 DEF Units
  <1> QED BY <1>5 DEF ClassifySeverity, Worst

LEMMA OnlyFindingsBlock == \A text \in Texts : ClassifySeverity(text) # "none" <=> text = Finding
  <1>1. \A text \in Texts : text \in {Finding, AllClear, Snippet}
    BY DEF Texts
  <1>2. "critical" # "none"
    OBVIOUS
  <1> QED BY <1>1, <1>2, FindingIsCritical, DenialIsNone, QuoteIsNone

\* The gate is clear when nothing it was shown is in its way.
LEMMA GateIsClear ==
  ASSUME NEW signals, NEW login
  PROVE  AssessForcedApproval(signals, login) = "CLEAR" <=>
             /\ signals.ok /\ signals.state = "OPEN" /\ login # signals.author
             /\ ChangesRequested(signals) = {} /\ OpenThreads(signals) \cup OpenFindings(signals) = {}
  <1> DEFINE refusals == Refusals(signals, login)
             hits == {i \in DOMAIN refusals : refusals[i][1]}
  <1>1. DOMAIN refusals = 1..5
    BY DEF Refusals
  <1>2. /\ refusals[1][1] <=> ~signals.ok
        /\ refusals[2][1] <=> signals.state # "OPEN"
        /\ refusals[3][1] <=> login = signals.author
        /\ refusals[4][1] <=> ChangesRequested(signals) # {}
        /\ refusals[5][1] <=> OpenThreads(signals) \cup OpenFindings(signals) # {}
    BY DEF Refusals
  <1>3. \A i \in 1..5 : refusals[i][2] # "CLEAR"
    BY DEF Refusals
  <1> HIDE DEF refusals
  <1>4. hits = {} <=>
             /\ signals.ok /\ signals.state = "OPEN" /\ login # signals.author
             /\ ChangesRequested(signals) = {} /\ OpenThreads(signals) \cup OpenFindings(signals) = {}
    BY <1>1, <1>2
  <1>5. hits \in SUBSET (1..5)
    BY <1>1
  <1> HIDE DEF hits
  <1>6. hits # {} => refusals[Min(hits)][2] # "CLEAR"
    BY <1>3, <1>5, LeastOfSome
  <1>7. AssessForcedApproval(signals, login) = IF hits = {} THEN "CLEAR" ELSE refusals[Min(hits)][2]
    BY DEF AssessForcedApproval, hits, refusals
  <1> QED BY <1>4, <1>6, <1>7

\* A review that asks for changes stands until its author approves or it is
\* dismissed; a finding, while the code it is about does.
StillAsked(i) ==
    /\ pr.posts[i].state = "CHANGES_REQUESTED"
    /\ \A k \in DOMAIN pr.posts : k > i /\ pr.posts[k].author = pr.posts[i].author
                                   => pr.posts[k].state \in {"COMMENTED", "ISSUE"}

Found(i) ==
    /\ pr.posts[i].state \in {"COMMENTED", "CHANGES_REQUESTED"}
    /\ pr.posts[i].commit = pr.head /\ pr.posts[i].text = Finding

ReviewsAfter(i, n) == {k \in (i + 1)..n : pr.posts[k].state # "ISSUE"}

\* While an approval is under way, all that stands against it and that its
\* reading could show was posted since.
GateFits ==
    ask.stage = "cleared" =>
        /\ ask.posts <= Len(pr.posts) /\ Len(ask.thread.comments) <= Len(pr.thread.comments)
        /\ \A i \in 1..Len(pr.thread.comments) :
               pr.thread.comments[i] = Finding =>
                   i > CommentLimit \/ i > Len(ask.thread.comments) \/ ask.thread.isResolved
        /\ \A i \in 1..ask.posts : ~StillAsked(i)
        /\ \A i \in 1..ask.posts : Found(i) => Cardinality(ReviewsAfter(i, ask.posts)) >= ReviewLimit

LEMMA ClearedIs ==
  ASSUME Types, ask.stage = "cleared"
  PROVE  ask.job \in Jobs /\ ask.posts \in Nat /\ ask.thread \in Threads /\ Len(ask.thread.comments) \in Nat
  <1>1. ask \in [stage : {"cleared"}, job : Jobs, posts : Nat, thread : Threads]
    BY DEF Types, Asks
  <1> QED BY <1>1, LenProperties DEF Threads

LEMMA GateStaysFit == ASSUME Types, PostsFit, GateFits, pr' \in Prs, GoesOn, ask' = ask PROVE GateFits'
  <1> SUFFICES ASSUME ask.stage = "cleared" PROVE GateFits'
    BY DEF GateFits
  <1>1. ask.posts \in Nat /\ Len(ask.thread.comments) \in Nat
    BY ClearedIs
  <1>2. /\ Len(pr.posts) \in Nat /\ Len(pr'.posts) \in Nat /\ pr.head \in Nat /\ pr'.head \in Nat
        /\ Len(pr.thread.comments) \in Nat /\ Len(pr'.thread.comments) \in Nat
        /\ DOMAIN pr.posts = 1..Len(pr.posts) /\ DOMAIN pr'.posts = 1..Len(pr'.posts)
    BY Constants, LenProperties DEF Types, Prs, Threads
  <1>3. \A i \in 1..ask.posts : i \in 1..Len(pr.posts) /\ i \in 1..Len(pr'.posts) /\ Stays(i)
    BY <1>1, <1>2 DEF GateFits, GoesOn
  <1>4. ASSUME NEW i \in 1..Len(pr'.thread.comments), pr'.thread.comments[i] = Finding
        PROVE  i > CommentLimit \/ i > Len(ask.thread.comments) \/ ask.thread.isResolved
    <2>1. CASE i \in 1..Len(pr.thread.comments)
      BY <1>4, <2>1 DEF GateFits, GoesOn
    <2>2. CASE i \notin 1..Len(pr.thread.comments)
      BY <1>1, <1>2, <2>2 DEF GateFits
    <2> QED BY <2>1, <2>2
  <1>5. ASSUME NEW i \in 1..ask.posts, StillAsked(i)' PROVE FALSE
    <2>1. pr.posts[i].state = "CHANGES_REQUESTED" /\ pr'.posts[i].author = pr.posts[i].author
      BY <1>3, <1>5 DEF StillAsked, Stays
    <2>2. ASSUME NEW k \in DOMAIN pr.posts, k > i, pr.posts[k].author = pr.posts[i].author
          PROVE  pr.posts[k].state \in {"COMMENTED", "ISSUE"}
      <3>1. Stays(k) /\ k \in DOMAIN pr'.posts
        BY <1>2 DEF GoesOn
      <3>2. pr'.posts[k].state \in {"COMMENTED", "ISSUE"}
        BY <1>5, <2>1, <2>2, <3>1 DEF StillAsked, Stays
      <3> QED BY <3>1, <3>2 DEF Stays
    <2> QED BY <2>1, <2>2 DEF StillAsked, GateFits
  <1>6. ASSUME NEW i \in 1..ask.posts, Found(i)' PROVE Cardinality(ReviewsAfter(i, ask.posts)') >= ReviewLimit
    <2>1. Found(i)
      <3>1. pr.posts[i].commit <= pr.head /\ pr.posts[i].commit = pr'.head /\ pr'.head >= pr.head
        BY <1>3, <1>6 DEF PostsFit, Found, Stays, GoesOn
      <3>2. pr.posts[i].commit = pr.head
        BY <1>2, <3>1
      <3> QED BY <1>3, <1>6, <3>2 DEF Found, Stays
    <2>2. ReviewsAfter(i, ask.posts)' = ReviewsAfter(i, ask.posts)
      <3>1. \A k \in (i + 1)..ask.posts : pr'.posts[k].state # "ISSUE" <=> pr.posts[k].state # "ISSUE"
        BY <1>1, <1>3, <1>6 DEF Stays
      <3> QED BY <3>1 DEF ReviewsAfter
    <2> QED BY <2>1, <2>2 DEF GateFits
  <1>7. ask.posts <= Len(pr'.posts) /\ Len(ask.thread.comments) <= Len(pr'.thread.comments)
    <2>1. Len(pr.posts) <= Len(pr'.posts) /\ Len(pr.thread.comments) <= Len(pr'.thread.comments)
      BY DEF GoesOn
    <2>2. ask.posts <= Len(pr.posts) /\ Len(ask.thread.comments) <= Len(pr.thread.comments)
      BY DEF GateFits
    <2> DEFINE p == Len(pr.posts)
               pp == Len(pr'.posts)
               c == Len(pr.thread.comments)
               cc == Len(pr'.thread.comments)
               n == ask.posts
               m == Len(ask.thread.comments)
    <2>3. /\ n \in Nat /\ m \in Nat /\ p \in Nat /\ pp \in Nat /\ c \in Nat /\ cc \in Nat
          /\ p <= pp /\ c <= cc /\ n <= p /\ m <= c
      BY <1>1, <1>2, <2>1, <2>2
    <2> HIDE DEF p, pp, c, cc, n, m
    <2>4. n <= pp /\ m <= cc
      BY <2>3
    <2> QED BY <2>4 DEF p, pp, c, cc, n, m
  <1> QED BY <1>4, <1>5, <1>6, <1>7 DEF GateFits

\* What the gate was shown of the one thread and of the reviews.
ShownThread == [pr.thread EXCEPT !.comments = SubSeq(@, 1, Min({Len(@), CommentLimit}))]

ShownReviews ==
    {Reviews[i] : i \in {i \in DOMAIN Reviews : Cardinality({k \in DOMAIN Reviews : k > i}) < ReviewLimit}}

LEMMA SignalsAre ==
  ASSUME NEW ok \in BOOLEAN
  PROVE  LET signals == FetchApprovalSignals(ok)
         IN  /\ signals.ok = ok /\ signals.state = pr.state /\ signals.author = "author"
             /\ ChangesRequested(signals) = {r \in LatestReviews : r.state = "CHANGES_REQUESTED"}
             /\ OpenThreads(signals) =
                    {t \in {ShownThread} : ~t.isResolved /\ WorstInThread(t) # "none"}
             /\ OpenFindings(signals) =
                    {r \in ShownReviews : /\ r.state \notin {"APPROVED", "DISMISSED", "PENDING"}
                                          /\ r.commit = pr.head /\ ClassifySeverity(r.text) # "none"}
  <1> DEFINE signals == FetchApprovalSignals(ok)
  <1>1. /\ signals.ok = ok /\ signals.state = pr.state /\ signals.author = "author" /\ signals.head = pr.head
        /\ signals.threads = <<ShownThread>> /\ signals.reviews = ShownReviews
        /\ signals.latestReviews = LatestReviews
    BY DEF FetchApprovalSignals, ShownThread, ShownReviews
  <1> HIDE DEF signals
  <1>2. ToSet(signals.threads) = {ShownThread}
    BY <1>1 DEF ToSet
  <1> QED BY <1>1, <1>2 DEF ChangesRequested, OpenThreads, OpenFindings, signals

LEMMA ThreadIsShown ==
  ASSUME Types
  PROVE  LET shown == IF Len(pr.thread.comments) <= CommentLimit THEN Len(pr.thread.comments) ELSE CommentLimit
         IN  /\ ShownThread.isResolved = pr.thread.isResolved
             /\ ToSet(ShownThread.comments) = {pr.thread.comments[i] : i \in 1..shown}
             /\ shown \in Nat /\ shown <= Len(pr.thread.comments)
  <1> DEFINE all == pr.thread.comments
             shown == IF Len(all) <= CommentLimit THEN Len(all) ELSE CommentLimit
  <1>1. pr.thread \in Threads /\ all \in Seq(Texts) /\ Len(all) \in Nat /\ CommentLimit \in Nat
    BY Constants, LenProperties DEF Types, Prs, Threads
  <1>2. Min({Len(all), CommentLimit}) = shown
    BY <1>1, LeastOfTwo
  <1>3. ShownThread.comments = SubSeq(all, 1, shown) /\ ShownThread.isResolved = pr.thread.isResolved
    BY <1>1, <1>2 DEF ShownThread, Threads
  <1>4. shown \in Nat /\ shown <= Len(all)
    BY <1>1
  <1> HIDE DEF shown
  <1>5. /\ DOMAIN SubSeq(all, 1, shown) = 1..shown
        /\ \A i \in 1..shown : SubSeq(all, 1, shown)[i] = all[i]
    <2>1. \A i \in 1..shown : i \in 1..Len(all)
      BY <1>1, <1>4
    <2> HIDE DEF all
    <2> QED BY <1>1, <1>4, <2>1
  <1>6. ToSet(ShownThread.comments) = {all[i] : i \in 1..shown}
    BY <1>3, <1>5 DEF ToSet
  <1> QED BY <1>3, <1>4, <1>6 DEF shown

LEMMA ThreadBlocks ==
  ASSUME Types
  PROVE  WorstInThread(ShownThread) # "none" <=>
             \E i \in 1..Len(pr.thread.comments) : i <= CommentLimit /\ pr.thread.comments[i] = Finding
  <1> DEFINE all == pr.thread.comments
             shown == IF Len(all) <= CommentLimit THEN Len(all) ELSE CommentLimit
             levels == {ClassifySeverity(c) : c \in ToSet(ShownThread.comments)}
  <1>1. Len(all) \in Nat /\ CommentLimit \in Nat /\ \A i \in 1..Len(all) : all[i] \in Texts
    BY Constants, LenProperties DEF Types, Prs, Threads
  <1>2. ToSet(ShownThread.comments) = {all[i] : i \in 1..shown} /\ shown \in Nat
    BY ThreadIsShown
  <1>3. \A i : i \in 1..shown <=> i \in 1..Len(all) /\ i <= CommentLimit
    BY <1>1
  <1>4. levels = {ClassifySeverity(all[i]) : i \in 1..shown}
    BY <1>2
  <1> HIDE DEF shown
  <1>5. \A l \in levels : l \in {"critical", "none"}
    <2>1. \A i \in 1..shown : ClassifySeverity(all[i]) \in {"critical", "none"}
      BY <1>1, <1>3, FindingIsCritical, OnlyFindingsBlock
    <2> QED BY <1>4, <2>1
  <1>6. "critical" \in levels <=> \E i \in 1..shown : all[i] = Finding
    <2>1. \A i \in 1..shown : ClassifySeverity(all[i]) = "critical" <=> all[i] = Finding
      BY <1>1, <1>3, FindingIsCritical, OnlyFindingsBlock
    <2> QED BY <1>4, <2>1
  <1> HIDE DEF levels
  <1>7. Worst(levels) # "none" <=> "critical" \in levels
    BY <1>5 DEF Worst
  <1>8. WorstInThread(ShownThread) = Worst(levels)
    BY DEF WorstInThread, levels
  <1> QED BY <1>3, <1>6, <1>7, <1>8

LEMMA ReviewsAre ==
  ASSUME Types, NEW i \in 1..Len(pr.posts)
  PROVE  /\ i \in DOMAIN Reviews <=> pr.posts[i].state # "ISSUE"
         /\ i \in DOMAIN Reviews => Reviews[i] = pr.posts[i]
         /\ {k \in DOMAIN Reviews : k > i} = ReviewsAfter(i, Len(pr.posts))
         /\ Cardinality(ReviewsAfter(i, Len(pr.posts))) \in Nat
  <1>1. Len(pr.posts) \in Nat /\ DOMAIN pr.posts = 1..Len(pr.posts)
    BY LenProperties DEF Types, Prs
  <1>2. DOMAIN Reviews = {k \in 1..Len(pr.posts) : pr.posts[k].state # "ISSUE"}
    BY <1>1 DEF Reviews
  <1>3. {k \in DOMAIN Reviews : k > i} = ReviewsAfter(i, Len(pr.posts))
    BY <1>1, <1>2 DEF ReviewsAfter
  <1>4. Cardinality(ReviewsAfter(i, Len(pr.posts))) \in Nat
    <2>1. ReviewsAfter(i, Len(pr.posts)) \in SUBSET (1..Len(pr.posts))
      BY <1>1 DEF ReviewsAfter
    <2>2. IsFiniteSet(1..Len(pr.posts))
      BY <1>1, FS_Interval
    <2>3. IsFiniteSet(ReviewsAfter(i, Len(pr.posts)))
      BY <2>1, <2>2, FS_Subset
    <2> QED BY <2>3, FS_CardinalityType
  <1> QED BY <1>1, <1>2, <1>3, <1>4 DEF Reviews

LEMMA AsksAreShown ==
  ASSUME Types
  PROVE  {r \in LatestReviews : r.state = "CHANGES_REQUESTED"} # {} <=> \E i \in 1..Len(pr.posts) : StillAsked(i)
  <1> DEFINE opinions == {i \in DOMAIN pr.posts : pr.posts[i].state \in {"APPROVED", "CHANGES_REQUESTED", "DISMISSED"}}
             latest == {i \in opinions : \A k \in opinions : pr.posts[k].author = pr.posts[i].author => k <= i}
  <1>1. /\ Len(pr.posts) \in Nat /\ DOMAIN pr.posts = 1..Len(pr.posts)
        /\ \A i \in 1..Len(pr.posts) : pr.posts[i].state \in ReviewStates \cup {"ISSUE"}
    <2>1. \A i \in 1..Len(pr.posts) : pr.posts[i] \in Posts
      BY LenProperties DEF Types, Prs
    <2>2. \A p \in Posts : p.state \in ReviewStates \cup {"ISSUE"}
      BY DEF Posts
    <2> QED BY <2>1, <2>2, LenProperties DEF Types, Prs
  <1>2. ASSUME NEW i \in 1..Len(pr.posts)
        PROVE  i \in latest /\ pr.posts[i].state = "CHANGES_REQUESTED" <=> StillAsked(i)
    <2>1. ASSUME i \in latest, pr.posts[i].state = "CHANGES_REQUESTED" PROVE StillAsked(i)
      <3>1. ASSUME NEW k \in DOMAIN pr.posts, k > i, pr.posts[k].author = pr.posts[i].author
            PROVE  pr.posts[k].state \in {"COMMENTED", "ISSUE"}
        <4>1. k \notin opinions
          BY <1>1, <2>1, <3>1
        <4> QED BY <1>1, <3>1, <4>1 DEF ReviewStates
      <3> QED BY <2>1, <3>1 DEF StillAsked
    <2>2. ASSUME StillAsked(i) PROVE i \in latest /\ pr.posts[i].state = "CHANGES_REQUESTED"
      <3>1. ASSUME NEW k \in opinions, pr.posts[k].author = pr.posts[i].author PROVE k <= i
        BY <1>1, <2>2, <3>1 DEF StillAsked
      <3> QED BY <1>1, <2>2, <3>1 DEF StillAsked
    <2> QED BY <2>1, <2>2
  <1>3. LatestReviews = {pr.posts[i] : i \in latest} /\ latest \subseteq 1..Len(pr.posts)
    BY <1>1 DEF LatestReviews
  <1> HIDE DEF latest, opinions
  <1> QED BY <1>2, <1>3

LEMMA FindingsAreShown ==
  ASSUME Types
  PROVE  {r \in ShownReviews : /\ r.state \notin {"APPROVED", "DISMISSED", "PENDING"}
                               /\ r.commit = pr.head /\ ClassifySeverity(r.text) # "none"} # {}
         <=> \E i \in 1..Len(pr.posts) : Found(i) /\ Cardinality(ReviewsAfter(i, Len(pr.posts))) < ReviewLimit
  <1> DEFINE blocks(r) == /\ r.state \notin {"APPROVED", "DISMISSED", "PENDING"}
                          /\ r.commit = pr.head /\ ClassifySeverity(r.text) # "none"
             shown(i) == i \in DOMAIN Reviews /\ Cardinality({k \in DOMAIN Reviews : k > i}) < ReviewLimit
  <1>1. /\ \A i \in 1..Len(pr.posts) : pr.posts[i].state \in ReviewStates \cup {"ISSUE"} /\ pr.posts[i].text \in Texts
        /\ DOMAIN Reviews \subseteq 1..Len(pr.posts)
    <2>1. \A i \in 1..Len(pr.posts) : pr.posts[i] \in Posts
      BY LenProperties DEF Types, Prs
    <2>2. \A p \in Posts : p.state \in ReviewStates \cup {"ISSUE"} /\ p.text \in Texts
      BY DEF Posts
    <2> QED BY <2>1, <2>2, LenProperties DEF Types, Prs, Reviews
  <1>2. ASSUME NEW i \in 1..Len(pr.posts), pr.posts[i].state # "ISSUE"
        PROVE  blocks(pr.posts[i]) <=> Found(i)
    <2>1. ClassifySeverity(pr.posts[i].text) # "none" <=> pr.posts[i].text = Finding
      BY <1>1, OnlyFindingsBlock
    <2>2. pr.posts[i].state \notin {"APPROVED", "DISMISSED", "PENDING"}
              <=> pr.posts[i].state \in {"COMMENTED", "CHANGES_REQUESTED"}
      BY <1>1, <1>2 DEF ReviewStates
    <2> QED BY <2>1, <2>2 DEF Found
  <1>3. ASSUME NEW i \in 1..Len(pr.posts)
        PROVE  shown(i) /\ blocks(Reviews[i])
                   <=> Found(i) /\ Cardinality(ReviewsAfter(i, Len(pr.posts))) < ReviewLimit
    <2>1. CASE pr.posts[i].state = "ISSUE"
      <3>1. ~shown(i)
        BY <2>1, ReviewsAre
      <3>2. ~Found(i)
        BY <2>1 DEF Found
      <3> QED BY <3>1, <3>2
    <2>2. CASE pr.posts[i].state # "ISSUE"
      <3>1. /\ i \in DOMAIN Reviews /\ Reviews[i] = pr.posts[i]
            /\ {k \in DOMAIN Reviews : k > i} = ReviewsAfter(i, Len(pr.posts))
        BY <2>2, ReviewsAre
      <3>2. blocks(Reviews[i]) <=> Found(i)
        BY <1>2, <2>2, <3>1
      <3>3. shown(i) <=> Cardinality(ReviewsAfter(i, Len(pr.posts))) < ReviewLimit
        BY <3>1
      <3> HIDE DEF blocks, shown
      <3> QED BY <3>2, <3>3
    <2> QED BY <2>1, <2>2
  <1>4. ShownReviews = {Reviews[i] : i \in {i \in DOMAIN Reviews : shown(i)}} /\ \A i : shown(i) => i \in DOMAIN Reviews
    BY DEF ShownReviews
  <1>5. {r \in ShownReviews : blocks(r)} # {} <=> \E i \in 1..Len(pr.posts) : shown(i) /\ blocks(Reviews[i])
    <2> HIDE DEF shown, blocks
    <2> QED BY <1>1, <1>4
  <1> HIDE DEF shown
  <1> QED BY <1>3, <1>5

\* What the gate is shown and finds in the way.
InTheWay ==
    \/ \E i \in 1..Len(pr.posts) : StillAsked(i)
    \/ \E i \in 1..Len(pr.thread.comments) :
           ~pr.thread.isResolved /\ i <= CommentLimit /\ pr.thread.comments[i] = Finding
    \/ \E i \in 1..Len(pr.posts) : Found(i) /\ Cardinality(ReviewsAfter(i, Len(pr.posts))) < ReviewLimit

LEMMA GateOfWhatIsShown ==
  ASSUME Types, NEW ok \in BOOLEAN
  PROVE  AssessForcedApproval(FetchApprovalSignals(ok), Host) = "CLEAR" <=> ok /\ pr.state = "OPEN" /\ ~InTheWay
  <1> DEFINE signals == FetchApprovalSignals(ok)
             inThread == \E i \in 1..Len(pr.thread.comments) :
                            ~pr.thread.isResolved /\ i <= CommentLimit /\ pr.thread.comments[i] = Finding
             asked == \E i \in 1..Len(pr.posts) : StillAsked(i)
             found == \E i \in 1..Len(pr.posts) : Found(i) /\ Cardinality(ReviewsAfter(i, Len(pr.posts))) < ReviewLimit
  <1>1. signals.ok = ok /\ signals.state = pr.state /\ Host # signals.author
    BY SignalsAre DEF Host
  <1>2. ChangesRequested(signals) # {} <=> asked
    BY SignalsAre, AsksAreShown
  <1>3. OpenThreads(signals) # {} <=> inThread
    <2>1. OpenThreads(signals) = {t \in {ShownThread} : ~t.isResolved /\ WorstInThread(t) # "none"}
      BY SignalsAre
    <2>2. OpenThreads(signals) # {} <=> ~ShownThread.isResolved /\ WorstInThread(ShownThread) # "none"
      BY <2>1
    <2>3. ShownThread.isResolved = pr.thread.isResolved
      BY ThreadIsShown
    <2> QED BY <2>2, <2>3, ThreadBlocks
  <1>4. OpenFindings(signals) # {} <=> found
    BY SignalsAre, FindingsAreShown
  <1> HIDE DEF signals, asked, inThread, found
  <1>5. OpenThreads(signals) \cup OpenFindings(signals) = {} <=> ~inThread /\ ~found
    BY <1>3, <1>4
  <1>6. InTheWay <=> asked \/ inThread \/ found
    BY DEF InTheWay, asked, inThread, found
  <1>7. AssessForcedApproval(signals, Host) = "CLEAR" <=>
             /\ signals.ok /\ signals.state = "OPEN" /\ Host # signals.author
             /\ ChangesRequested(signals) = {} /\ OpenThreads(signals) \cup OpenFindings(signals) = {}
    BY GateIsClear
  <1>8. AssessForcedApproval(signals, Host) = "CLEAR" <=> ok /\ pr.state = "OPEN" /\ ~InTheWay
    BY <1>1, <1>2, <1>5, <1>6, <1>7
  <1> QED BY <1>8 DEF signals

LEMMA GateClears == ASSUME Types, AskReads, ask'.stage = "cleared" PROVE GateFits'
  <1>1. PICK ok \in BOOLEAN :
           ask' = IF AssessForcedApproval(FetchApprovalSignals(ok), Host) = "CLEAR"
                  THEN [stage |-> "cleared", job |-> ask.job, posts |-> Len(pr.posts), thread |-> pr.thread]
                  ELSE [stage |-> "refused", answered |-> ok]
    BY DEF AskReads
  <1>2. AssessForcedApproval(FetchApprovalSignals(ok), Host) = "CLEAR"
    BY <1>1
  <1>3. ask'.posts = Len(pr.posts) /\ ask'.thread = pr.thread
    BY <1>1, <1>2
  <1>4. ~InTheWay
    BY <1>2, GateOfWhatIsShown
  <1>5. /\ Len(pr.posts) \in Nat /\ Len(pr.thread.comments) \in Nat /\ CommentLimit \in Nat /\ ReviewLimit \in Nat
        /\ pr' = pr
    BY Constants, LenProperties DEF Types, Prs, Threads, AskReads
  <1>6. \A i \in 1..Len(pr.posts) : ~StillAsked(i)
    BY <1>4 DEF InTheWay
  <1>7. \A i \in 1..Len(pr.posts) : Found(i) => Cardinality(ReviewsAfter(i, Len(pr.posts))) >= ReviewLimit
    <2>1. \A i \in 1..Len(pr.posts) : Cardinality(ReviewsAfter(i, Len(pr.posts))) \in Nat
      BY ReviewsAre
    <2> QED BY <1>4, <1>5, <2>1 DEF InTheWay
  <1>8. \A i \in 1..Len(pr.thread.comments) :
            pr.thread.comments[i] = Finding => i > CommentLimit \/ pr.thread.isResolved
    BY <1>4, <1>5 DEF InTheWay
  <1>9. ASSUME NEW i \in 1..Len(pr.posts)
        PROVE  /\ StillAsked(i)' <=> StillAsked(i)
               /\ Found(i)' <=> Found(i)
               /\ ReviewsAfter(i, ask.posts)' = ReviewsAfter(i, Len(pr.posts))
    <2>1. StillAsked(i)' <=> StillAsked(i)
      BY <1>5 DEF StillAsked
    <2>2. Found(i)' <=> Found(i)
      BY <1>5 DEF Found
    <2>3. ReviewsAfter(i, ask.posts)' = ReviewsAfter(i, Len(pr.posts))
      BY <1>3, <1>5 DEF ReviewsAfter
    <2> QED BY <2>1, <2>2, <2>3
  <1>10. \A i \in 1..ask'.posts : ~StillAsked(i)'
    BY <1>3, <1>6, <1>9
  <1>11. \A i \in 1..ask'.posts : Found(i)' => Cardinality(ReviewsAfter(i, ask.posts)') >= ReviewLimit
    BY <1>3, <1>7, <1>9
  <1> QED BY <1>3, <1>5, <1>8, <1>10, <1>11 DEF GateFits

LEMMA GateStep == ASSUME IInv, GateFits, [Next]_vars PROVE GateFits'
  <1>1. Types /\ PostsFit /\ pr \in Prs
    BY DEF IInv, Types
  <1>2. (pr' \in Prs /\ GoesOn) \/ (\E j \in Jobs : AgentPosts(j)) \/ ApproveLands
    <2>1. CASE GithubSteps
      BY <1>1, <2>1, GithubGoesOn
    <2>2. ASSUME pr' = pr PROVE pr' \in Prs /\ GoesOn
      BY <1>1, <2>2, NothingHappens
    <2> QED BY <2>1, <2>2
            DEF Next, RunStep, ReadPr, Spawn, AgentExits, Settle, Ask, AskReads, ApproveFails, vars
  <1>3. ASSUME NEW j \in Jobs, AgentPosts(j) PROVE pr' \in Prs /\ GoesOn
    BY <1>3, AgentPostsGoesOn
  <1>4. CASE ask' = ask
    <2>1. ASSUME ApproveLands PROVE FALSE
      BY <1>4, <2>1 DEF ApproveLands
    <2> QED BY <1>1, <1>2, <1>3, <1>4, <2>1, GateStaysFit
  <1>5. CASE AskReads
    BY <1>1, <1>5, GateClears DEF GateFits
  <1>6. CASE Ask \/ ApproveLands \/ ApproveFails
    <2>1. ask'.stage \in {"asked", "idle"}
      BY <1>6 DEF Ask, ApproveLands, ApproveFails
    <2> QED BY <2>1 DEF GateFits
  <1> QED BY <1>4, <1>5, <1>6
          DEF Next, GithubSteps, RunStep, ReadPr, Spawn, AgentPosts, AgentExits, Settle, vars

LEMMA GateAlways == Spec => [](IInv /\ GateFits)
  <1>1. Init => GateFits
    BY DEF Init, GateFits
  <1>2. IInv /\ GateFits /\ [Next]_vars => (IInv /\ GateFits)'
    BY Inductive, GateStep
  <1> QED BY <1>1, <1>2, Initially, PTL DEF Spec

\* An approval with the password lands over nothing its reading could show, and
\* no pull request without a blocker is refused once GitHub answered, however
\* long its threads and reviews, whatever the limits of the reading and whoever
\* posts between reading and approving (assessForcedApproval,
\* fetchApprovalSignals; server.js reads at 1048, approves at 1069).
THEOREM GateJudgesExactlyWhatItReads == Spec => GateJudgesWhatItReads
  <1>1. ASSUME IInv, GateFits, ApproveLands, NEW b \in Standing PROVE Unreadable(b, ask)
    <2>1. /\ Types /\ PostsFit /\ ask.stage = "cleared" /\ Len(pr.posts) \in Nat /\ Len(pr.thread.comments) \in Nat
          /\ DOMAIN pr.posts = 1..Len(pr.posts) /\ DOMAIN pr.thread.comments = 1..Len(pr.thread.comments)
          /\ ask.posts \in Nat /\ ask.posts <= Len(pr.posts)
      <3>1. Types /\ ask.stage = "cleared"
        BY <1>1 DEF IInv, ApproveLands
      <3> QED BY <1>1, <3>1, ClearedIs, LenProperties DEF IInv, GateFits, Types, Prs, Threads
    <2>2. CASE \E i \in DOMAIN pr.thread.comments :
                  b = <<"thread", i>> /\ ~pr.thread.isResolved /\ pr.thread.comments[i] = Finding
      <3>1. PICK i \in DOMAIN pr.thread.comments : b = <<"thread", i>> /\ pr.thread.comments[i] = Finding
        BY <2>2
      <3>2. i > CommentLimit \/ i > Len(ask.thread.comments) \/ ask.thread.isResolved
        BY <1>1, <2>1, <3>1 DEF GateFits
      <3> QED BY <3>1, <3>2 DEF Unreadable
    <2>3. CASE \E i \in DOMAIN pr.posts : b = <<"asked", i>> /\ StillAsked(i)
      <3>1. PICK i \in 1..Len(pr.posts) : b = <<"asked", i>> /\ StillAsked(i)
        BY <2>1, <2>3
      <3>2. i > ask.posts
        BY <1>1, <2>1, <3>1 DEF GateFits
      <3> QED BY <3>1, <3>2 DEF Unreadable
    <2>4. CASE \E i \in DOMAIN pr.posts : b = <<"found", i>> /\ Found(i)
      <3>1. PICK i \in 1..Len(pr.posts) : b = <<"found", i>> /\ Found(i)
        BY <2>1, <2>4
      <3>2. i > ask.posts \/ Cardinality(ReviewsAfter(i, ask.posts)) >= ReviewLimit
        BY <1>1, <2>1, <3>1 DEF GateFits
      <3> QED BY <3>1, <3>2 DEF Unreadable, ReviewsAfter
    <2> QED BY <2>2, <2>3, <2>4 DEF Standing, StillAsked, Found
  <1>2. ASSUME IInv, AskReads, ask'.stage = "refused", ask'.answered, pr.state = "OPEN" PROVE Standing # {}
    <2>1. PICK ok \in BOOLEAN :
             ask' = IF AssessForcedApproval(FetchApprovalSignals(ok), Host) = "CLEAR"
                    THEN [stage |-> "cleared", job |-> ask.job, posts |-> Len(pr.posts), thread |-> pr.thread]
                    ELSE [stage |-> "refused", answered |-> ok]
      BY <1>2 DEF AskReads
    <2>2. ~(AssessForcedApproval(FetchApprovalSignals(ok), Host) = "CLEAR")
      BY <1>2, <2>1
    <2>3. ask' = [stage |-> "refused", answered |-> ok]
      BY <2>1, <2>2
    <2>4. ok
      BY <1>2, <2>3
    <2>5. Types /\ DOMAIN pr.posts = 1..Len(pr.posts) /\ DOMAIN pr.thread.comments = 1..Len(pr.thread.comments)
      BY <1>2, LenProperties DEF IInv, Types, Prs, Threads
    <2>6. InTheWay
      BY <1>2, <2>2, <2>4, <2>5, GateOfWhatIsShown
    <2>7. CASE \E i \in 1..Len(pr.posts) : StillAsked(i) \/ Found(i)
      <3>1. PICK i \in DOMAIN pr.posts : StillAsked(i) \/ Found(i)
        BY <2>5, <2>7
      <3>2. <<"asked", i>> \in Standing \/ <<"found", i>> \in Standing
        BY <3>1 DEF Standing, StillAsked, Found
      <3> QED BY <3>2
    <2>8. CASE \E i \in 1..Len(pr.thread.comments) : ~pr.thread.isResolved /\ pr.thread.comments[i] = Finding
      <3>1. PICK i \in DOMAIN pr.thread.comments : ~pr.thread.isResolved /\ pr.thread.comments[i] = Finding
        BY <2>5, <2>8
      <3>2. <<"thread", i>> \in Standing
        BY <3>1 DEF Standing
      <3> QED BY <3>2
    <2> QED BY <2>6, <2>7, <2>8 DEF InTheWay
  <1>3. IInv /\ GateFits /\ [Next]_vars =>
            [/\ ApproveLands => \A b \in Standing : Unreadable(b, ask)
             /\ AskReads /\ ask'.stage = "refused" /\ ask'.answered /\ pr.state = "OPEN" => Standing # {}]_vars
    BY <1>1, <1>2
  <1> QED BY <1>3, GateAlways, PTL DEF Spec, GateJudgesWhatItReads

=============================================================================
