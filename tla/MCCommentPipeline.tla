-------------------------- MODULE MCCommentPipeline --------------------------
EXTENDS CommentPipeline
=============================================================================
